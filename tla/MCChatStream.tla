----------------------------- MODULE MCChatStream -----------------------------
(* ChatStream for TLC: a phone that asks and may reconnect, and an onlooker. *)
EXTENDS ChatStream

CONSTANTS phone1, phone2

FirstAsks  == [r \in Requests |-> phone1]
FirstTwice == [d \in Devices |-> IF d = phone1 THEN 2 ELSE 1]
================================================================================
