------------------------------- MODULE Listing -------------------------------
(***************************************************************************)
(* What a client who follows next_cursor from page to page may count on:   *)
(* nothing is shown twice, and the last page comes only when everything    *)
(* due has been shown.  Due is what was there, and stayed as it was, from  *)
(* the first page on.                                                      *)
(***************************************************************************)
EXTENDS Naturals, Sequences, FiniteSets

CONSTANT Ids
VARIABLES shown,   \* the pages so far, one after the other
          due,     \* what the client must be shown
          over     \* a page came without next_cursor

lvars == <<shown, due, over>>

InPages(s) == {s[k] : k \in DOMAIN s}
Once(s) == \A j, k \in DOMAIN s : s[j] = s[k] => j = k

Init == shown = <<>> /\ due \subseteq Ids /\ ~over

\* A page continues what was shown; due only shrinks, by changes to the memories.
Page ==
  /\ ~over
  /\ SubSeq(shown', 1, Len(shown)) = shown
  /\ InPages(shown') \subseteq Ids /\ Once(shown')
  /\ due' \subseteq due
  /\ over' => due' \subseteq InPages(shown')
Forget == due' \subseteq due /\ UNCHANGED <<shown, over>>

Next == Page \/ Forget
Spec == Init /\ [][Next]_lvars
=============================================================================
