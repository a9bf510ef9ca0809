--------------------------- MODULE MCBinaryLogger ---------------------------
(***************************************************************************)
(* Instances of BinaryLogger for model checking.                           *)
(***************************************************************************)
EXTENDS LogContents

Records == Loggers \X (1 .. MaxRecords)

(* Records have 2 bytes, except one of 1 byte: it depends on the order of  *)
(* the threads whether a buffer or a file is full first.                   *)
SmallRecord == <<CHOOSE l \in Loggers : TRUE, 2>>
Sizes == [r \in Records |-> IF r = SmallRecord THEN 1 ELSE 2]

=============================================================================
