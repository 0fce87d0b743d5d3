----------------------------- MODULE MCMinixDir -----------------------------
(* Small instances of MinixDir. *)
EXTENDS MinixDir, TLC

MCCalls ==
    {<<"mknod", FALSE, "a">>, <<"mkdir", FALSE, "d">>, <<"mknod", TRUE, "a">>, <<"symlink", FALSE, "a">>,
     <<"link", FALSE, "b">>, <<"unlink", FALSE, "a">>, <<"rmdir", FALSE, "d">>,
     <<"use", FALSE, "a">>, <<"sync", FALSE, "a">>}

Sym == Permutations(Task) \cup Permutations(Slot)
=============================================================================
