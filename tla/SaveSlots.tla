------------------------------- MODULE SaveSlots -------------------------------
(***************************************************************************)
(* A save-state slot: the state with the emulator it belongs to, and the   *)
(* preview Home shows for it (save_manager.cpp, saveToSlot of              *)
(* game_session.cpp).  State and preview are two files written one after   *)
(* the other; a moment of the game stands for what is saved of it.         *)
(***************************************************************************)
EXTENDS Card

CONSTANTS Core,     \* emulators that play the game
          Moment,   \* moments of the game
          Nothing   \* no file, no machine

ASSUME SlotAssumption == Nothing \notin Moment \cup {"broken"}

VARIABLES machine,   \* the running game's state, or Nothing
          state,     \* stateN.rst
          preview,   \* its preview
          slotStep,  \* where saving, loading or deleting stands
          torn       \* history: the power went between state and preview

Playable == Moment \cup {"broken"}   \* "broken": half of a rejected state

slotVars == <<machine, state, preview, slotStep, torn>>

SlotTypeOK ==
  /\ machine \in Playable \cup {Nothing}
  /\ state \in [core : Core, moment : Playable] \cup {Nothing}
  /\ preview \in Playable \cup {Nothing}
  /\ slotStep \in {"idle", "preview", "drop", "delete_preview"}
  /\ torn \in BOOLEAN

SlotInit ==
  /\ machine = Nothing /\ state = Nothing /\ preview = Nothing
  /\ slotStep = "idle" /\ torn = FALSE

\* saveState(): atomically, or not at all.
SaveState(core) ==
  /\ slotStep = "idle" /\ machine # Nothing
  /\ \/ /\ state' = [core |-> core, moment |-> machine]
        /\ slotStep' = "preview" /\ NoFault
     \/ UNCHANGED <<state, slotStep>> /\ Fault
  /\ UNCHANGED <<machine, preview, torn>>

\* Mutant: a preview that cannot be made leaves the old one.
PreviewOrNothing ==
  /\ slotStep = "preview"
  /\ preview' \in {machine, preview}
  /\ slotStep' = "idle" /\ torn' = FALSE
  /\ UNCHANGED <<machine, state, faults>>

\* makePreview() and savePreview(); without memory, or without the write, the
\* old preview has to go.
WritePreview ==
  /\ slotStep = "preview"
  /\ \/ preview' = machine /\ slotStep' = "idle" /\ torn' = FALSE /\ NoFault
     \/ UNCHANGED <<preview, torn>> /\ slotStep' = "drop" /\ Fault
  /\ UNCHANGED <<machine, state>>

DropPreview ==
  /\ slotStep = "drop"
  /\ slotStep' = "idle"
  /\ \/ preview' = Nothing /\ torn' = FALSE /\ NoFault
     \/ UNCHANGED <<preview, torn>> /\ Fault
  /\ UNCHANGED <<machine, state>>

\* loadState(): a state of another emulator is refused, one the emulator
\* rejects half-way is rolled back.
LoadState(core) ==
  /\ slotStep = "idle" /\ machine # Nothing /\ state # Nothing
  /\ \/ state.core = core /\ machine' = state.moment /\ NoFault
     \/ UNCHANGED machine /\ NoFault
     \/ state.core = core /\ machine' = "broken" /\ Fault
  /\ UNCHANGED <<state, preview, slotStep, torn>>

\* deleteState(): the state, then the preview.
DeleteState ==
  /\ slotStep = "idle" /\ state # Nothing
  /\ \/ state' = Nothing /\ NoFault
     \/ UNCHANGED state /\ Fault
  /\ slotStep' = "delete_preview"
  /\ UNCHANGED <<machine, preview, torn>>

DeletePreview ==
  /\ slotStep = "delete_preview"
  /\ slotStep' = "idle"
  /\ \/ preview' = Nothing /\ torn' = FALSE /\ NoFault
     \/ UNCHANGED <<preview, torn>> /\ Fault
  /\ UNCHANGED <<machine, state>>

\* The game goes on; a state does not survive playing, the files do.
PlayOn ==
  /\ slotStep = "idle" /\ machine # Nothing
  /\ machine' \in Moment
  /\ UNCHANGED <<state, preview, slotStep, torn, faults>>

\* The power goes: an interrupted preview is the old one, or absent.
CutSlot ==
  /\ machine' = Nothing /\ slotStep' = "idle"
  /\ torn' = (torn \/ slotStep \in {"preview", "drop"})
  /\ preview' \in IF slotStep = "preview" THEN {preview, Nothing} ELSE {preview}
  /\ UNCHANGED state

=============================================================================
