------------------------------- MODULE MCHttpSig -------------------------------
(***************************************************************************)
(* Small instances of HttpSig for TLC.  The requests are one plain request *)
(* and what may become of it on the way: another spelling of its path,     *)
(* another method, a body digest, a WIT that cannot be read, none.         *)
(***************************************************************************)
EXTENDS HttpSig, TLC

CONSTANTS get, put, empty, root, q, w1, d1

Plain == [method |-> get, path |-> root, query |-> q, wit |-> w1, digest |-> Nil]

MCRequests == {
  Plain,
  [Plain EXCEPT !.path = empty],
  [Plain EXCEPT !.method = put],
  [Plain EXCEPT !.digest = d1],
  [Plain EXCEPT !.wit = BadWit],
  [Plain EXCEPT !.wit = Nil]}

OnlyPlain == {Plain}

HttpSigSymmetry == Permutations(Calls) \cup Permutations(Keys)
==============================================================================
