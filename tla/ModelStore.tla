------------------------------ MODULE ModelStore ------------------------------
(***************************************************************************)
(* What the inference engine may assume of the models directory: under the *)
(* final path of a model there is nothing or, from some moment on and for  *)
(* good, one file the publisher has signed.                                *)
(***************************************************************************)
CONSTANTS
  Models,     \* a model id and version each
  Published,  \* the files a trusted key has signed
  Missing     \* no file

VARIABLE stored

Init == stored = [m \in Models |-> Missing]

Store(m, file) ==
  /\ stored[m] = Missing
  /\ stored' = [stored EXCEPT ![m] = file]

Next == \E m \in Models, file \in Published : Store(m, file)

Spec == Init /\ [][Next]_stored
===============================================================================
