---------------------------- MODULE MCMutationKeys ----------------------------
(* Two files uploaded with up to four requests: an upload can be lost on    *)
(* the way there or back and repeated while its first request is still on   *)
(* the wire, among three sign-ins.                                          *)
EXTENDS MutationKeys, TLC

UploadSymmetry == Permutations(Payloads)
=============================================================================
