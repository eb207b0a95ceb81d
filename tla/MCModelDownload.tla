--------------------------- MODULE MCModelDownload ---------------------------
(* A small instance of ModelDownload for TLC. *)
EXTENDS ModelDownload, TLC

CONSTANTS m1, c1, bad

\* The content "bad" is shorter, and nobody signed it.
MCSizeOf == [c \in Contents |-> IF c = bad THEN 2 ELSE 3]

P(offset, size) == [offset |-> offset, size |-> size]
Ask(want, total, parts) == [model |-> m1, want |-> want, total |-> total, parts |-> parts]

\* Blobs of known and unknown size, delta manifests of one and of two parts, one with
\* a gap, content nobody signed.
MCRequests ==
  {Ask(c1, 3, <<>>), Ask(c1, None, <<>>), Ask(bad, 2, <<>>),
   Ask(c1, 3, <<P(0, 2), P(2, 1)>>), Ask(c1, None, <<P(0, 1), P(1, 2)>>),
   Ask(c1, 3, <<P(0, 1), P(2, 1)>>)}
===============================================================================
