------------------------------- MODULE Kiosk --------------------------------
(***************************************************************************)
(* The open house: guests sign in on the locked phone, the agent concludes *)
(* and debriefs one guest after the other by voice or by hand, and every   *)
(* sign-in and note is posted once.  The gateway files each post as a new  *)
(* guest, with a contact and a briefing item.                              *)
(***************************************************************************)
EXTENDS Naturals, FiniteSets, Sequences, SequencesExt

CONSTANTS Guests,       \* the people who sign in today, 1..N
          NoteSaves,        \* calls of saveNote that may be running at a time
          NoGuest,
          MaxNotes, MaxSwallowed     \* bounds on notes and on failing posts

VARIABLES mode,         \* "list", "locked", "debrief" or "done"
          modal,        \* the PIN dialog: "none", "start" or "exit"
          formShown,    \* the sign-in form is empty and takes the next guest
          signed,       \* SQLite: the guests in the order they signed in
          kept,         \* SQLite: [Guests -> whom the stored note is about]
          guests,       \* the list of the store
          refreshing,      \* loadTodayGuests on its way to the store: {} or {a list}
          index, textMode,
          voice,        \* the guest being spoken about, or NoGuest
          spoken,      \* speech results on their way to onSpeechResults
          save,         \* [Saves -> a call of saveNote or of handleSaveBrainDump]
          signIn,       \* [Guests -> how far handleGuestSubmit is]
          queued,       \* notes in the offline queue
          guestRows,         \* open_house_guests: {<<guest, whom the note is about>>}
          lost,         \* notes of which a post failed
          notes, swallowed
dialogVars == <<modal, formShown>>
kioskVars == <<dialogVars, mode, signed, kept, guests, refreshing, index, textMode, voice, spoken, save,
               signIn, queued,
                 guestRows, lost, notes, swallowed>>

Silent == [row |-> NoGuest, about |-> NoGuest, step |-> "free"]
KioskInit ==
  /\ modal = "none" /\ formShown = FALSE
  /\ mode = "list" /\ signed = <<>> /\ kept = [g \in Guests |-> NoGuest]
  /\ guests = <<>> /\ refreshing = {} /\ index = 1 /\ textMode = FALSE
  /\ voice = NoGuest /\ spoken = {} /\ save = [s \in NoteSaves |-> Silent]
  /\ signIn = [g \in Guests |-> "none"]
  /\ queued = {} /\ guestRows = {} /\ lost = {} /\ notes = 0 /\ swallowed = 0

Store == <<mode, guests, refreshing, index, textMode, voice, spoken>>
Card == IF index <= Len(guests) THEN guests[index] ELSE NoGuest

---------------------------------------------------------------------------
OnList == mode = "list" /\ modal = "none"
KeepDebrief == UNCHANGED <<signed, kept, guests, refreshing, index, textMode, voice, spoken, save,
                     signIn, queued,
                 guestRows, lost, notes, swallowed>>

\* The locked phone: locked at once, after the face or finger is recognised, or by
\* PIN, which the first time is set.  (A wrong PIN changes nothing, and the digits
\* are left out.)
StartKiosk ==
  /\ OnList
  /\ \/ mode' = "locked" /\ formShown' = TRUE /\ UNCHANGED modal
     \/ modal' = "start" /\ UNCHANGED <<mode, formShown>>
  /\ KeepDebrief

ExitPress ==
  /\ mode = "locked" /\ modal = "none"
  /\ \/ mode' = "list" /\ formShown' = FALSE /\ UNCHANGED modal
     \/ modal' = "exit" /\ UNCHANGED <<mode, formShown>>
  /\ KeepDebrief

SubmitPin ==
  /\ modal # "none" /\ modal' = "none"
  /\ IF modal = "exit" THEN mode' = "list" /\ formShown' = FALSE
     ELSE mode' = "locked" /\ formShown' = TRUE
  /\ KeepDebrief

DismissPin ==
  /\ modal # "none" /\ modal' = "none"
  /\ UNCHANGED <<mode, formShown>> /\ KeepDebrief

\* handleGuestSubmit: the row, then the list, then one post that nobody waits for:
\* whether it made the guest a lead is not asked again.
GuestSubmit(g) ==
  /\ mode = "locked" /\ modal = "none" /\ formShown /\ g = Len(signed) + 1
  /\ formShown' = FALSE
  /\ signIn' = [signIn EXCEPT ![g] = "saved"] /\ signed' = Append(signed, g)
  /\ UNCHANGED <<kept, save, queued, lost, notes, swallowed, modal>>
  /\ UNCHANGED <<Store, guestRows>>

AddGuest(g) ==
  /\ signIn[g] = "saved"
  /\ signIn' = [signIn EXCEPT ![g] = "done"] /\ guests' = Append(guests, g)
  /\ UNCHANGED <<signed, kept, mode, refreshing, index, textMode, voice, spoken, save,
                 queued,
                 guestRows, lost, notes, swallowed>> /\ UNCHANGED dialogVars

\* Thanked for 1.8 seconds; then the next guest.
NextGuest ==
  /\ mode = "locked" /\ ~formShown /\ (\A g \in Guests : signIn[g] # "saved") /\ formShown' = TRUE
  /\ UNCHANGED <<mode, modal>> /\ KeepDebrief

---------------------------------------------------------------------------
\* The guest list.  SQLite answers newest first.
RefreshGuests == refreshing' = {Reverse(signed)}

SetGuests ==
  /\ refreshing # {} /\ refreshing' = {} /\ \E r \in refreshing : guests' = r
  /\ UNCHANGED <<signed, kept, mode, index, textMode, voice, spoken, save, signIn,
                 queued,
                 guestRows, lost, notes, swallowed>>

\* The summary is asked for before the first note of the debrief is made: the
\* gateway reads the rows of the day and hands them to the coordinator.
Conclude ==
  /\ OnList /\ guests # <<>>
  /\ UNCHANGED dialogVars
  /\ mode' = "debrief" /\ index' = 1 /\ textMode' = FALSE
  /\ UNCHANGED <<signed, kept, guests, refreshing, voice, spoken, save, signIn, queued,
                 guestRows, lost, notes, swallowed>>

EndDebrief ==
  /\ mode = "done" /\ mode' = "list" /\ voice' = NoGuest /\ spoken' = {}
  /\ RefreshGuests
  /\ UNCHANGED <<signed, kept, guests, index, textMode, save, signIn, queued,
                 guestRows, lost, notes, swallowed>>

---------------------------------------------------------------------------
\* The debrief.  A call that outlives the screen advances nothing.
Advance ==
  IF mode # "debrief" THEN UNCHANGED <<mode, index, textMode>>
  ELSE /\ textMode' = FALSE
       /\ IF index >= Len(guests) THEN mode' = "done" /\ UNCHANGED index
          ELSE index' = index + 1 /\ UNCHANGED mode

\* saveNote: the guest of the card as it is now, whoever was spoken about.
StartSave(s, about) ==
  /\ save[s].step = "free" /\ notes < MaxNotes /\ notes' = notes + 1
  /\ save' = [save EXCEPT ![s] = [row |-> Card, about |-> about, step |-> "saving"]]

StartRecording ==
  /\ mode = "debrief" /\ ~textMode /\ voice = NoGuest /\ Card # NoGuest
  /\ voice' = Card
  /\ UNCHANGED <<signed, kept, mode, guests, refreshing, index, textMode, spoken, save, signIn,
                 queued,
                 guestRows, lost, notes, swallowed>>

StopWithSave ==
  /\ voice # NoGuest /\ voice' = NoGuest /\ spoken' = spoken \cup {voice}
  /\ UNCHANGED <<signed, kept, mode, guests, refreshing, index, textMode, save, signIn,
                 queued,
                 guestRows, lost, notes, swallowed>>

\* A drag: the recording is cancelled; left is a skip, up is the keyboard.
Drag ==
  /\ voice # NoGuest /\ voice' = NoGuest /\ spoken' \in {spoken, {}}
  /\ \/ Advance
     \/ textMode' = TRUE /\ UNCHANGED <<mode, index>>
     \/ UNCHANGED <<mode, index, textMode>>
  /\ UNCHANGED <<signed, kept, guests, refreshing, save, signIn, queued,
                 guestRows, lost, notes, swallowed>>

SpeechResult(s) ==
  /\ \E n \in spoken :
       /\ spoken' = spoken \ {n}
       /\ IF Card # NoGuest THEN StartSave(s, n) /\ UNCHANGED <<mode, index, textMode>>
          ELSE Advance /\ UNCHANGED <<save, notes>>
  /\ UNCHANGED <<signed, kept, guests, refreshing, voice, signIn, queued, guestRows, lost, swallowed>>

\* Nothing understood, or an error.
SpeechError ==
  /\ mode = "debrief" /\ spoken # {} /\ \E n \in spoken : spoken' = spoken \ {n}
  /\ Advance
  /\ UNCHANGED <<signed, kept, guests, refreshing, voice, save, signIn, queued,
                 guestRows, lost, notes, swallowed>>

SaveTyped(s) ==
  /\ mode = "debrief" /\ textMode /\ Card # NoGuest /\ StartSave(s, Card)
  /\ UNCHANGED <<signed, kept, signIn, queued, lost, swallowed>> /\ UNCHANGED <<Store, guestRows>>

SkipTyped ==
  /\ mode = "debrief" /\ textMode /\ Advance
  /\ UNCHANGED <<signed, kept, guests, refreshing, voice, spoken, save, signIn, queued,
                 guestRows, lost, notes, swallowed>>

\* After the row is written: a post that nobody waits for, or the offline
\* queue, and the next card.
RowOfCard(s) == IF Card = NoGuest THEN save[s].row ELSE Card   \* mutant: of the card by then
RowOf(s) == save[s].row
NoteSaved(s) ==
  /\ save[s].step = "saving"
  /\ kept' = [kept EXCEPT ![save[s].row] = save[s].about]
  /\ \/ /\ save' = [save EXCEPT ![s] = [row |-> RowOf(s), about |-> save[s].about, step |-> "posting"]]
        /\ UNCHANGED queued
     \/ save' = [save EXCEPT ![s] = Silent] /\ queued' = queued \cup {<<RowOf(s), save[s].about>>}
  /\ Advance
  /\ UNCHANGED <<signed, guests, refreshing, voice, spoken, signIn, guestRows, lost, notes, swallowed>>

\* The same post from the guest list, for the guest picked there; one at a time.
SaveBrainDump(s, g) ==
  /\ OnList /\ g \in ToSet(guests) /\ save[s].step = "free"
  /\ \A o \in NoteSaves : save[o].step # "dumping"
  /\ notes < MaxNotes /\ notes' = notes + 1
  /\ kept' = [kept EXCEPT ![g] = g]
  /\ save' = [save EXCEPT ![s] = [row |-> g, about |-> g, step |-> "dumping"]]
  /\ UNCHANGED <<signed, signIn, queued, lost, swallowed>> /\ UNCHANGED <<Store, guestRows>>

\* The list is read again after a note that was made on it.
PostNote(s) ==
  /\ save[s].step \in {"posting", "dumping"} /\ save' = [save EXCEPT ![s] = Silent]
  /\ LET n == <<save[s].row, save[s].about>> IN
       \/ /\ guestRows' = guestRows \cup {n} /\ UNCHANGED <<lost, swallowed>>
          /\ IF save[s].step = "dumping" THEN RefreshGuests
             ELSE UNCHANGED refreshing
       \/ /\ swallowed < MaxSwallowed /\ swallowed' = swallowed + 1
          /\ lost' = lost \cup {n} /\ UNCHANGED <<guestRows, refreshing>>
  /\ UNCHANGED <<signed, kept, mode, guests, index, textMode, voice, spoken, signIn, queued, notes,
                 modal, formShown>>

KioskNext ==
  \/ StartKiosk \/ ExitPress \/ SubmitPin \/ DismissPin \/ NextGuest \/ Conclude
  \/ \E g \in Guests : GuestSubmit(g) \/ AddGuest(g)
  \/ \E s \in NoteSaves : PostNote(s)
  \/ /\ UNCHANGED dialogVars
     /\ \/ SetGuests \/ EndDebrief
        \/ StartRecording \/ StopWithSave \/ Drag \/ SpeechError \/ SkipTyped
        \/ \E s \in NoteSaves : \/ SpeechResult(s) \/ SaveTyped(s) \/ NoteSaved(s)
                               \/ \E g \in Guests : SaveBrainDump(s, g)

---------------------------------------------------------------------------
Running(g) ==
  \E s \in NoteSaves :
     save[s].step \in {"posting", "dumping"} /\ save[s].row = g /\ save[s].about = kept[g]

\* The note a guest's row has on the phone is the one filed or queued for that
\* guest, or on its way, or its only post failed, however many saves of the
\* debrief and the list overlap.
NoteReachesItsGuest ==
  \A g \in Guests : kept[g] # NoGuest =>
    \/ <<g, kept[g]>> \in guestRows \cup queued \cup lost
    \/ Running(g)

=============================================================================
