-------------------------------- MODULE MCComms ------------------------------
(***************************************************************************)
(* The comms agent on a small instance: three rules of one agent and two   *)
(* of several, and requests that contain two keys, or none.                *)
(***************************************************************************)
EXTENDS Comms

\* Some rules of config/agents.json; a key of multiDispatch or chainDispatch is
\* compared with its underscores.
SomeSingleRules ==
  << [key |-> "draft email", length |-> 11, intent |-> "draft_email", agent |-> "comms"],
     [key |-> "email", length |-> 5, intent |-> "general", agent |-> "comms"],
     [key |-> "campaign email", length |-> 14, intent |-> "general", agent |-> "other"] >>
SomeLaterRules ==
  << [key |-> "market analysis", length |-> 15, intent |-> "general", agent |-> "other"],
     [key |-> "find_and_send", length |-> 13, intent |-> "general", agent |-> "other"] >>
SomePhrasings ==
  { {"draft email", "email"}, {"campaign email", "email"}, {"market analysis", "find_and_send"}, {} }
=============================================================================
