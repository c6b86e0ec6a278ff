------------------------------- MODULE Bundle -------------------------------
(***************************************************************************)
(* init of crates/ncd/src/adapter_loader/bundle.rs: every process of the   *)
(* host tool makes sure that the embedded archive is extracted to one      *)
(* directory, which all of them share.  A marker file with the hash, the   *)
(* last to be written, tells that the extraction is complete.              *)
(*                                                                         *)
(* An entry of the archive is a file or a symbolic link; its directories   *)
(* are made along with it.  The embedded archive is taken to be intact, so *)
(* that HashMismatch does not occur.                                       *)
(***************************************************************************)
EXTENDS Naturals, Sequences

CONSTANTS
    Procs,     \* processes of the host tool
    Archive,   \* the entries, in the order of the archive
    Links      \* those that are symbolic links

Entries == {Archive[i] : i \in DOMAIN Archive}

ASSUME BundleAssumption ==
    /\ Archive \in Seq(Entries)
    /\ \A i, j \in DOMAIN Archive : Archive[i] = Archive[j] => i = j

VARIABLES
    dir,         \* the directory exists
    tree,        \* tree[e]: "absent", "partial" or "whole"
    hash_marker, \* "absent", "empty" or "valid"
    bpc,         \* bpc[p]: where the process is in init, "ready" when through
    entry,       \* entry[p]: position in the archive
    linked,      \* linked[p]: the file p has open is still in the directory
    overlapped   \* history: did two processes ever extract at the same time?

diskVars   == <<dir, tree, hash_marker>>
bundleVars == <<diskVars, bpc, entry, linked, overlapped>>

AtWork == {"stale", "clear", "create", "extract", "copy", "link", "mark"}

BundleTypeOK ==
    /\ dir \in BOOLEAN
    /\ tree \in [Entries -> {"absent", "partial", "whole"}]
    /\ hash_marker \in {"absent", "empty", "valid"}
    /\ bpc \in [Procs -> {"off", "check", "ready", "failed"} \cup AtWork]
    /\ entry \in [Procs -> 1..Len(Archive) + 1]
    /\ linked \in [Procs -> BOOLEAN]
    /\ overlapped \in BOOLEAN

BundleInit ==
    /\ dir = FALSE
    /\ tree = [e \in Entries |-> "absent"]
    /\ hash_marker = "absent"
    /\ bpc = [p \in Procs |-> "off"]
    /\ entry = [p \in Procs |-> 1]
    /\ linked = [p \in Procs |-> FALSE]
    /\ overlapped = FALSE

Extracting(p) == bpc[p] \in AtWork
Whole == \A e \in Entries : tree[e] = "whole"

Goto(p, label) == bpc' = [bpc EXCEPT ![p] = label]

-----------------------------------------------------------------------------
InitStart(p) ==
    /\ bpc[p] = "off"
    /\ Goto(p, "check")
    /\ entry' = [entry EXCEPT ![p] = 1]
    /\ linked' = [linked EXCEPT ![p] = FALSE]
    /\ UNCHANGED <<diskVars, overlapped>>

\* needs_extract.
CheckMarker(p) ==
    /\ bpc[p] = "check"
    /\ IF hash_marker = "valid"
       THEN Goto(p, "ready") /\ UNCHANGED overlapped
       ELSE /\ Goto(p, "stale")
            /\ overlapped' = (overlapped \/ \E q \in Procs \ {p} : Extracting(q))
    /\ UNCHANGED <<diskVars, entry, linked>>

FindStale(p) ==
    /\ bpc[p] = "stale"
    /\ Goto(p, IF dir THEN "clear" ELSE "create")
    /\ UNCHANGED <<diskVars, entry, linked, overlapped>>

\* remove_dir_all, one file at a time, and the directory at last.  A process
\* that has the file open goes on writing to it.
RemoveEntry(p) ==
    /\ bpc[p] = "clear"
    /\ \E e \in Entries :
          /\ tree[e] # "absent"
          /\ tree' = [tree EXCEPT ![e] = "absent"]
          /\ linked' = [q \in Procs |->
                linked[q] /\ ~(bpc[q] = "copy" /\ Archive[entry[q]] = e)]
    /\ UNCHANGED <<dir, hash_marker, bpc, entry, overlapped>>

RemoveMarker(p) ==
    /\ bpc[p] = "clear"
    /\ hash_marker # "absent"
    /\ hash_marker' = "absent"
    /\ linked' = [q \in Procs |-> linked[q] /\ bpc[q] # "mark"]
    /\ UNCHANGED <<dir, tree, bpc, entry, overlapped>>

RemoveDir(p) ==
    /\ bpc[p] = "clear"
    /\ \A e \in Entries : tree[e] = "absent"
    /\ hash_marker = "absent"
    /\ dir' = FALSE
    /\ Goto(p, "create")
    /\ UNCHANGED <<tree, hash_marker, entry, linked, overlapped>>

CreateDir(p) ==
    /\ bpc[p] = "create"
    /\ dir' = TRUE
    /\ Goto(p, "extract")
    /\ UNCHANGED <<tree, hash_marker, entry, linked, overlapped>>

\* The next entry.  create_dir_all makes its parents anew if they have gone;
\* File::create truncates a file that is there, and a link that is there is
\* removed.
BeginEntry(p) ==
    /\ bpc[p] = "extract"
    /\ entry[p] <= Len(Archive)
    /\ dir' = TRUE
    /\ LET e == Archive[entry[p]] IN
          \/ /\ e \notin Links
             /\ tree' = [tree EXCEPT ![e] = "partial"]
             /\ linked' = [linked EXCEPT ![p] = TRUE]
             /\ Goto(p, "copy")
          \/ /\ e \in Links
             /\ tree' = [tree EXCEPT ![e] = "absent"]
             /\ Goto(p, "link")
             /\ UNCHANGED linked
    /\ UNCHANGED <<hash_marker, entry, overlapped>>

NextEntry(p) ==
    /\ entry' = [entry EXCEPT ![p] = @ + 1]
    /\ Goto(p, "extract")

\* Another process may have truncated the file when half of it was written.
CopyFile(p) ==
    /\ bpc[p] = "copy"
    /\ LET e == Archive[entry[p]]
           shared == \E q \in Procs \ {p} :
                        bpc[q] = "copy" /\ linked[q] /\ Archive[entry[q]] = e
       IN  \/ linked[p] /\ tree' = [tree EXCEPT ![e] = "whole"]
           \/ (~linked[p] \/ shared) /\ UNCHANGED tree
    /\ NextEntry(p)
    /\ UNCHANGED <<dir, hash_marker, linked, overlapped>>

MakeLink(p) ==
    /\ bpc[p] = "link"
    /\ dir
    /\ tree[Archive[entry[p]]] = "absent"
    /\ tree' = [tree EXCEPT ![Archive[entry[p]]] = "whole"]
    /\ NextEntry(p)
    /\ UNCHANGED <<dir, hash_marker, linked, overlapped>>

\* Mutant: the last entry is left out.
CreateMarkerEarly(p) ==
    /\ bpc[p] = "extract"
    /\ entry[p] >= Len(Archive)
    /\ dir
    /\ hash_marker' = "empty"
    /\ linked' = [linked EXCEPT ![p] = TRUE]
    /\ Goto(p, "mark")
    /\ UNCHANGED <<dir, tree, entry, overlapped>>

\* The marker, which fs::write creates and then fills.
CreateMarker(p) ==
    /\ bpc[p] = "extract"
    /\ entry[p] > Len(Archive)
    /\ dir
    /\ hash_marker' = "empty"
    /\ linked' = [linked EXCEPT ![p] = TRUE]
    /\ Goto(p, "mark")
    /\ UNCHANGED <<dir, tree, entry, overlapped>>

WriteMarker(p) ==
    /\ bpc[p] = "mark"
    /\ hash_marker' = IF linked[p] THEN "valid" ELSE hash_marker
    /\ Goto(p, "ready")
    /\ UNCHANGED <<dir, tree, entry, linked, overlapped>>

\* An I/O error: of the disk, or since another process works on the same
\* files, as when MakeLink finds a link.  Nothing is cleaned up.
InitFails(p) ==
    /\ Extracting(p)
    /\ Goto(p, "failed")
    /\ UNCHANGED <<diskVars, entry, linked, overlapped>>

\* The process ends, or is killed.
ProcessEnds(p) ==
    /\ bpc[p] # "off"
    /\ Goto(p, "off")
    /\ UNCHANGED <<diskVars, entry, linked, overlapped>>

BundleStep(p) ==
    \/ CheckMarker(p) \/ FindStale(p)
    \/ RemoveEntry(p) \/ RemoveMarker(p) \/ RemoveDir(p) \/ CreateDir(p)
    \/ BeginEntry(p) \/ CopyFile(p) \/ MakeLink(p)
    \/ CreateMarker(p) \/ WriteMarker(p) \/ InitFails(p)

BundleNext == \E p \in Procs : InitStart(p) \/ BundleStep(p) \/ ProcessEnds(p)

BundleSpec == BundleInit /\ [][BundleNext]_bundleVars

-----------------------------------------------------------------------------
\* Wherever extractions have been cut off, by kills or errors, a process that
\* is through with init has the whole bundle before it, and a valid marker
\* tells the truth, unless two processes have extracted at the same time.
BundleUsable ==
    ~overlapped =>
        /\ hash_marker = "valid" => Whole
        /\ \A p \in Procs : bpc[p] = "ready" => Whole
=============================================================================
