----------------------------- MODULE MCHostTool -----------------------------
(***************************************************************************)
(* Model-checking module of HostTool.                                      *)
(***************************************************************************)
EXTENDS HostTool

MCArchive == <<"script", "link">>
MCLinks   == {"link"}

MCDevices == <<"file", "keyboard">>
MCOptions == [d \in ToSet(MCDevices) |-> IF d = "file" THEN <<"file_path">> ELSE <<>>]
MCDefaultPort == [d \in ToSet(MCDevices) |-> IF d = "file" THEN 1 ELSE 12]

\* x and the same in quotes, with blanks around them.
MCTexts == {<<>>, <<"blank", "quote">>}

\* No file, and one with an option that is not listed any more.
MCInitialConfigs ==
    {NoConfig,
     [d \in {"file"} |-> [port |-> 12, options |-> [k \in {"mode"} |-> <<"blank", "quote">>]]]}

ProcSymmetry == Permutations(Procs)
=============================================================================
