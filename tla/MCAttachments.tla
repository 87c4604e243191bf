--------------------------- MODULE MCAttachments ----------------------------
(***************************************************************************)
(* Instances of Attachments for TLC: two attachments of one Space, both    *)
(* charged to its owner once it has one, before that each to its uploader. *)
(* The second fits the owner's limit alone, and beside neither size the    *)
(* first may have.                                                         *)
(***************************************************************************)
EXTENDS Attachments, TLC

CONSTANTS i1, i2, host, guest

MCUploaderOf == [i \in Ids |-> IF i = i1 THEN host ELSE guest]
MCLimit == host :> 2 @@ guest :> NoLimit
MCSizes == [i \in Ids |-> IF i = i1 THEN {1, 2} ELSE {2}]
MCSymmetry == Permutations(Requests)
==============================================================================
