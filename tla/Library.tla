------------------------------- MODULE Library -------------------------------
(***************************************************************************)
(* library.cpp between memory and library.json: what the user marks is     *)
(* saved at once, where the user is only marks the library dirty, and      *)
(* flush() clears the mark before a save that may fail.                    *)
(***************************************************************************)
EXTENDS Card, FiniteSets

VARIABLES unsaved,   \* memory holds something the file does not
          dirty      \* m_dirty

libraryVars == <<unsaved, dirty>>
LibraryTypeOK == unsaved \in BOOLEAN /\ dirty \in BOOLEAN
LibraryInit == unsaved = FALSE /\ dirty = FALSE

\* `before` calls of save() before a change, `after` calls after it: the file is
\* behind memory as long as every save since the change failed.
Saved(before, changed, after) ==
  \E failed \in SUBSET (1 .. before + after) :
    /\ FaultyCalls(Cardinality(failed))
    /\ unsaved' = /\ before + 1 .. before + after \subseteq failed
                  /\ changed \/ (unsaved /\ 1 .. before \subseteq failed)

\* toggleFavorite, notePlayed, removeRecent
Mark == Saved(0, TRUE, 1) /\ UNCHANGED dirty

\* setLocation, setLastSelected, setView, addPlaytime
Move == unsaved' = TRUE /\ dirty' = TRUE /\ NoFault

\* flush(), then a change, if there is one, and `after` calls of save().
FlushAnd(changed, after) ==
  /\ dirty' = FALSE
  /\ Saved(IF dirty THEN 1 ELSE 0, changed, after)

=============================================================================
