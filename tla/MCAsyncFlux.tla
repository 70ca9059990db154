---------------------------- MODULE MCAsyncFlux ----------------------------
(* Model-checking instance of AsyncFlux: programs like those of            *)
(* MSFoundation_tst/msfoundation_async_validate.m, two of them at a time.  *)
EXTENDS AsyncFlux

CONSTANT init    \* the key of a once element, shared by the programs

A == Element("action", <<>>, NULL)
Both == Element("parallel", << <<A>>, <<A>> >>, NULL)
Repeated == Element("while", << <<Both>> >>, NULL)
Lazily == Element("once", << <<A>> >>, init)
Inner == Element("nested", << <<A>> >>, NULL)
Either == Element("if", << <<A>>, <<Inner>> >>, NULL)

MCElements == {A, Both, Repeated, Lazily, Inner, Either}
MCPrograms == { <<Repeated, A>>, <<Lazily, A>>, <<Either>> }
=============================================================================
