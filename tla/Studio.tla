------------------------------- MODULE Studio -------------------------------
(***************************************************************************)
(* The Studio screen (app/(main)/studio.tsx, store/studio.ts) and the      *)
(* content agent that writes or stages what it asks for.  A request is     *)
(* answered with an id while its task already runs: the answer and the     *)
(* result may come in either order, and a press may follow another whose   *)
(* answer or result is still on its way.  The coordinator hands the text   *)
(* of a Studio task straight to the phone: no approval is made of it.      *)
(***************************************************************************)
EXTENDS Naturals, FiniteSets

CONSTANTS Requests,     \* presses of Generate, Regenerate and Stage Room
          NoRequest,
          MaxLosses     \* bound on failed requests, lost pushes, failed services

ASSUME StudioAssumption == NoRequest \notin Requests /\ MaxLosses \in Nat

VARIABLES studioRequest,      \* [Requests -> [mode, answer, task]]
          studio,       \* the store of the phone
          lastPress,    \* history: the last press
          mixed,        \* history: New was pressed while an id was on its way
          studioLosses
studioVars == <<studioRequest, studio, lastPress, mixed, studioLosses>>
Presses == <<lastPress, mixed>>

Unused == [mode |-> "none", answer |-> "none", task |-> "none"]
Blank == [mode |-> "content", loading |-> FALSE, pending |-> NoRequest,
          drafts |-> NoRequest, staged |-> NoRequest]

StudioInit ==
  /\ studioRequest = [r \in Requests |-> Unused]
  /\ studio = Blank /\ lastPress = NoRequest /\ mixed = FALSE /\ studioLosses = 0

LoseCall == studioLosses < MaxLosses /\ studioLosses' = studioLosses + 1
Set(r, field, value) == studioRequest' = [studioRequest EXCEPT ![r][field] = value]

---------------------------------------------------------------------------
\* The screen.  The buttons are disabled while loading.
Post(r, mode) ==
  /\ studioRequest[r] = Unused /\ ~studio.loading /\ studio.mode = mode
  /\ studioRequest' = [studioRequest EXCEPT ![r].mode = mode, ![r].answer = "asked"]
  /\ studio' = [studio EXCEPT !.loading = TRUE]
  /\ lastPress' = r
  /\ UNCHANGED <<mixed, studioLosses>>

\* Generate gives way to Regenerate once drafts are shown.
HandleGenerate(r) == studio.drafts = NoRequest /\ Post(r, "content")
HandleRegenerate(r) == studio.drafts # NoRequest /\ Post(r, "content")
HandleStageRoom(r) == Post(r, "staging")

\* The catch of the three: the request, or the answer to it, is lost.
AnswerComing(r) == studioRequest[r].answer \in {"asked", "accepted"}
RequestFails(r) ==
  /\ AnswerComing(r) /\ LoseCall
  /\ Set(r, "answer", "failed")
  /\ studio' = [studio EXCEPT !.loading = FALSE]
  /\ UNCHANGED Presses

\* 202 arrives: the id is what the result is recognised by, whatever was
\* pressed since.
SetPending(r) ==
  /\ studioRequest[r].answer = "accepted"
  /\ Set(r, "answer", "noted")
  /\ studio' = [studio EXCEPT !.pending = r]
  /\ UNCHANGED <<Presses, studioLosses>>

\* The toggle clears what is shown, not what is pending.
SetTargetMode(mode) ==
  /\ studio.mode # mode
  /\ studio' = [studio EXCEPT !.mode = mode, !.drafts = NoRequest, !.staged = NoRequest]
  /\ UNCHANGED <<studioRequest, Presses, studioLosses>>

SetPreset ==
  /\ studio.drafts # NoRequest
  /\ studio' = [studio EXCEPT !.drafts = NoRequest]
  /\ UNCHANGED <<studioRequest, Presses, studioLosses>>

\* "New" is offered once something is shown.
Reset ==
  /\ studio.drafts # NoRequest \/ studio.staged # NoRequest
  /\ studio' = Blank
  /\ mixed' = (mixed \/ \E r \in Requests : AnswerComing(r))
  /\ UNCHANGED <<studioRequest, lastPress, studioLosses>>

---------------------------------------------------------------------------
\* POST /v1/content/generate: accepted, and handed to the coordinator after it.
ContentGenerate(r) ==
  /\ studioRequest[r].answer = "asked"
  /\ studioRequest' = [studioRequest EXCEPT ![r].answer = "accepted", ![r].task = "queued"]
  /\ UNCHANGED <<studio, Presses, studioLosses>>

\* A task that starts although the phone has given the request up.
GenerateUnheard(r) ==
  /\ studioRequest[r].answer = "failed" /\ studioRequest[r].task = "none"
  /\ Set(r, "task", "queued")
  /\ UNCHANGED <<studio, Presses, studioLosses>>

\* studio_generate: the drafts, marked by the compliance scan; an error ends it.
StudioGenerate(r) ==
  /\ studioRequest[r].task = "queued" /\ studioRequest[r].mode = "content"
  /\ \/ Set(r, "task", "finished") /\ UNCHANGED studioLosses
     \/ Set(r, "task", "failed") /\ LoseCall
  /\ UNCHANGED <<studio, Presses>>

\* stageRoom: the better model, and the older one if that fails.
StageRoom(r) ==
  /\ studioRequest[r].task = "queued" /\ studioRequest[r].mode = "staging"
  /\ \/ Set(r, "task", "finished") /\ UNCHANGED studioLosses
     \/ Set(r, "task", "older") /\ LoseCall
  /\ UNCHANGED <<studio, Presses>>

StageRoomDallE2(r) ==
  /\ studioRequest[r].task = "older"
  /\ \/ Set(r, "task", "finished") /\ UNCHANGED studioLosses
     \/ Set(r, "task", "failed") /\ LoseCall
  /\ UNCHANGED <<studio, Presses>>

---------------------------------------------------------------------------
SetResult(s, r) == [s EXCEPT !.drafts = r, !.loading = FALSE, !.pending = NoRequest]
SetStagingResult(s, r) == [s EXCEPT !.staged = r, !.loading = FALSE, !.pending = NoRequest]

\* TASK_COMPLETE on the phone; a push to a phone that is away is lost, and the
\* error text of a failed task is no studio result: it ends nothing.
RecognisedByAny(r) == studio.loading   \* mutant: the id is not compared
Recognised(r) == studio.pending = r
TaskComplete(r) ==
  /\ studioRequest[r].task \in {"finished", "failed"}
  /\ \/ /\ studio' =
             IF ~Recognised(r) \/ studioRequest[r].task = "failed" THEN studio
             ELSE IF studioRequest[r].mode = "staging" THEN SetStagingResult(studio, r)
             ELSE SetResult(studio, r)
        /\ Set(r, "task", "delivered") /\ UNCHANGED studioLosses
     \/ Set(r, "task", "lost") /\ LoseCall /\ UNCHANGED studio
  /\ UNCHANGED Presses

TaskStep(r) == \/ ContentGenerate(r) \/ GenerateUnheard(r) \/ StudioGenerate(r)
               \/ StageRoom(r) \/ StageRoomDallE2(r) \/ TaskComplete(r)

StudioNext == \/ \E r \in Requests : \/ HandleGenerate(r) \/ HandleRegenerate(r)
                                     \/ HandleStageRoom(r) \/ RequestFails(r)
                                     \/ SetPending(r) \/ TaskStep(r)
              \/ \E mode \in {"content", "staging", "paperwork"} : SetTargetMode(mode)
              \/ SetPreset \/ Reset

StudioSpec == StudioInit /\ [][StudioNext]_studioVars

---------------------------------------------------------------------------
ComesUp(r) == \/ studio'.drafts = r /\ studio.drafts # r
              \/ studio'.staged = r /\ studio.staged # r

\* A result that comes onto the screen is of the last press, over requests whose
\* answers are lost while their tasks run, results that overtake their answers
\* and modes changed meanwhile; except after New was pressed with an id on its
\* way, which then takes the place of the next press's (studio.tsx:141, ws.ts:167).
ResultIsOfLastPress ==
  [][\A r \in Requests : ComesUp(r) => r = lastPress \/ mixed]_studioVars
=============================================================================
