----------------------------- MODULE NativeSession -----------------------------
(***************************************************************************)
(* The receipt a native emulator's session leaves on the card:             *)
(* native_emulator_launcher.cpp writes it before it hands the console      *)
(* over, the adapter in the emulator (retroshell_adapter.c) replaces it at *)
(* every event, and the next boot of RetroShell consumes it and tells the  *)
(* user of a session that did not return.                                  *)
(*                                                                         *)
(* The adapter removes the receipt before it renames the new one into its  *)
(* place.  "open" stands for launched, paused, resumed and reset, and for   *)
(* the failure to prepare the save folders, after which a session goes on. *)
(***************************************************************************)
EXTENDS Card

VARIABLES receipt,   \* session/native-session.ini
          session,   \* the session, from the launcher's receipt to its end
          event,     \* what the adapter is recording
          notice,    \* the boot's word on a session that ended early
          ending,    \* history: how the session since the last boot ended
          blind,     \* history: a call on the receipt failed
          gap        \* history: the power went while the adapter had none in place

sessionVars == <<receipt, session, event, notice, ending, blind, gap>>

Event == {"open", "returned", "failed"}

SessionTypeOK ==
  /\ receipt \in Event \cup {"none"}
  /\ session \in {"none", "written", "running", "recording", "returning"}
  /\ event \in Event
  /\ notice \in BOOLEAN
  /\ ending \in {"none", "proper", "early"}
  /\ blind \in BOOLEAN /\ gap \in BOOLEAN

SessionInit ==
  /\ receipt = "none" /\ session = "none" /\ event = "open" /\ notice = FALSE
  /\ ending = "none" /\ blind = FALSE /\ gap = FALSE

\* A call on the receipt's file that may fail, and what it leaves then.
ReceiptCall(works, fails) ==
  \/ receipt' = works /\ NoFault /\ UNCHANGED blind
  \/ receipt' = fails /\ Fault /\ blind' = TRUE

-----------------------------------------------------------------------------
(* The launcher.                                                           *)

\* consumeReturnReceipt(), early in App::init; one that cannot be read says
\* nothing and stays.
ConsumeReceipt ==
  /\ \/ notice' = (receipt \in {"open", "failed"}) /\ ReceiptCall("none", receipt)
     \/ notice' = FALSE /\ UNCHANGED receipt /\ Fault /\ blind' = TRUE
  /\ ending' = "none"
  /\ UNCHANGED <<session, event, gap>>

\* launch(): the receipt is in place before the process is replaced.
WriteReceipt ==
  /\ session = "none"
  /\ \/ /\ receipt' = "open" /\ session' = "written"
        /\ blind' = FALSE /\ gap' = FALSE
        /\ NoFault
     \/ Fault /\ UNCHANGED <<receipt, session, blind, gap>>
  /\ UNCHANGED <<event, notice, ending>>

HandOver ==
  /\ session = "written"
  /\ session' = "running"
  /\ UNCHANGED <<receipt, event, notice, ending, blind, gap, faults>>

\* Mutant: a launch that failed leaves its receipt.
RefusedKeepsReceipt ==
  /\ session = "written"
  /\ session' = "none"
  /\ UNCHANGED <<receipt, event, notice, ending, blind, gap, faults>>

\* Neither loader replaced the process.
LaunchRefused ==
  /\ session = "written"
  /\ session' = "none"
  /\ ReceiptCall("none", receipt)
  /\ UNCHANGED <<event, notice, ending, gap>>

-----------------------------------------------------------------------------
(* The adapter in the emulator.                                            *)

\* rs_adapter_record(): the new receipt is written aside, the old one goes.
RecordRemoves(e) ==
  /\ session = "running"
  /\ \/ receipt' = "none" /\ session' = "recording" /\ UNCHANGED blind /\ NoFault
     \/ /\ UNCHANGED receipt /\ blind' = TRUE /\ Fault
        /\ session' = IF e = "open" THEN "running" ELSE "returning"
  /\ event' = e
  /\ ending' = CASE e = "returned" -> "proper" [] e = "failed" -> "early" [] OTHER -> ending
  /\ UNCHANGED <<notice, gap>>

\* The new one is renamed into its place, or dropped if it cannot be.
RecordRenames ==
  /\ session = "recording"
  /\ ReceiptCall(event, "none")
  /\ session' = IF event = "open" THEN "running" ELSE "returning"
  /\ UNCHANGED <<event, notice, ending, gap>>

\* The emulator is left by HOME, or crashes, without a word.
EndsUnsaid ==
  /\ session = "running"
  /\ session' = "returning"
  /\ ending' = "early"
  /\ UNCHANGED <<receipt, event, notice, blind, gap, faults>>

\* The power goes: a session that has not said how it ended ended early.
CutShort ==
  /\ ending' = IF session \in {"written", "running", "recording"} /\ ending = "none"
                 THEN "early" ELSE ending
  /\ gap' = (gap \/ session = "recording")
  /\ session' = "none"
  /\ UNCHANGED <<receipt, event, notice, blind>>

=============================================================================
