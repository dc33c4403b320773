---------------------------- MODULE MCBootAdoption ----------------------------
(***************************************************************************)
(* Instance of BootAdoption: two preloads anywhere in three and a half     *)
(* pages of two units each, and an image in the last of them.              *)
(***************************************************************************)
EXTENDS BootAdoption

Preloads == [name : {"x", "y"}, image : BOOLEAN, addr : 0..5, size : {0, 1, 2, 4}]
Last == [name |-> "z", image |-> TRUE, addr |-> 4, size |-> 2]
MCMemories == {<<m, n>> : m, n \in Preloads} \cup {<<m, Last>> : m \in Preloads}

Entry(l, n) == [label |-> l, name |-> n]
MCEnvironments ==
  {<<Entry("a", "x"), Entry("b", "y")>>, <<Entry("a", "x"), Entry("b", "x")>>,
   <<Entry("a", "x"), Entry("a", "z")>>, <<Entry("a", "z"), Entry("b", "x")>>}
=============================================================================
