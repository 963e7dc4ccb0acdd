----------------------------- MODULE MCPathNames -----------------------------
(* Model checking of PathNames on a small tree. *)
EXTENDS PathNames

a == <<"a">>
bc == <<"b", "c">>

MCNames == {a, bc}

\* a/  a/bc/  a/bc/a  bc/  bc/bc
MCDirs == {<<a>>, <<a, bc>>, <<bc>>}
MCFiles == {<<a, bc, a>>, <<bc, bc>>}

=============================================================================
