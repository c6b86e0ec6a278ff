--------------------------- MODULE HostToolProofs ---------------------------
(***************************************************************************)
(* Theorems about the host tool and its two components, Bundle and Editor: *)
(* for every archive, every set of devices, any number of processes.       *)
(***************************************************************************)
EXTENDS HostTool, SequenceLemmas

-----------------------------------------------------------------------------
(***************************************************************************)
(* The bounds of a process's position in the archive.                      *)
(***************************************************************************)
Placed ==
    \A p \in Procs :
        /\ bpc[p] \in {"check", "stale", "clear", "create"} => entry[p] = 1
        /\ bpc[p] \in {"copy", "link"} => entry[p] <= Len(Archive)
        /\ bpc[p] = "mark" => entry[p] > Len(Archive)

(***************************************************************************)
(* As long as two extractions have never overlapped, there is at most one, *)
(* and it knows what it has put there; the marker is valid only when there *)
(* is none, and every process that is through has seen it valid.           *)
(***************************************************************************)
Done(p) == \A i \in 1..Len(Archive) : i < entry[p] => tree[Archive[i]] = "whole"

Alone ==
    /\ \A p, q \in Procs : Extracting(p) /\ Extracting(q) => p = q
    /\ \A p \in Procs : Extracting(p) => hash_marker # "valid"
    /\ \A p \in Procs : bpc[p] \in {"extract", "copy", "link", "mark"} => Done(p)
    /\ \A p \in Procs : bpc[p] \in {"copy", "mark"} => linked[p]
    /\ hash_marker = "valid" => Whole
    /\ \A p \in Procs : bpc[p] = "ready" => hash_marker = "valid"

BundleInv == BundleTypeOK /\ Placed /\ (~overlapped => Alone)

\* The archive is a sequence without repetitions of all entries.
LEMMA ArchiveFacts ==
    /\ Len(Archive) \in Nat
    /\ DOMAIN Archive = 1..Len(Archive)
    /\ \A i \in 1..Len(Archive) : Archive[i] \in Entries
    /\ \A e \in Entries : \E i \in 1..Len(Archive) : Archive[i] = e
    /\ \A i, j \in 1..Len(Archive) : Archive[i] = Archive[j] => i = j
<1>1. Archive \in Seq(Entries)
  BY BundleAssumption
<1>2. Len(Archive) \in Nat /\ DOMAIN Archive = 1..Len(Archive)
  BY <1>1
<1> QED BY <1>2, BundleAssumption DEF Entries

\* No extraction has begun, and the tree is as the archive or the disk has it.
LEMMA InitInv == BundleInit => BundleInv
<1> SUFFICES ASSUME BundleInit PROVE BundleInv
  OBVIOUS
<1>1. BundleTypeOK
  <2>1. 1 \in 1..Len(Archive) + 1
    BY ArchiveFacts
  <2>2. entry \in [Procs -> 1..Len(Archive) + 1] /\ linked \in [Procs -> BOOLEAN]
    BY <2>1 DEF BundleInit
  <2>3. tree \in [Entries -> {"absent", "partial", "whole"}]
    BY DEF BundleInit
  <2>4. bpc \in [Procs -> {"off", "check", "ready", "failed"} \cup AtWork]
    BY DEF BundleInit
  <2> QED BY <2>2, <2>3, <2>4 DEF BundleInit, BundleTypeOK
<1>2. \A p \in Procs : bpc[p] = "off"
  BY DEF BundleInit
<1>3. Placed
  BY <1>2 DEF Placed
<1>4. Alone
  BY <1>2 DEF Alone, Extracting, AtWork, BundleInit
<1> QED BY <1>1, <1>3, <1>4 DEF BundleInv

-----------------------------------------------------------------------------
\* The types, and where each process is in the archive.
LEMMA StepPlaced ==
    ASSUME BundleInv, NEW p \in Procs,
           InitStart(p) \/ BundleStep(p) \/ ProcessEnds(p)
    PROVE  BundleTypeOK' /\ Placed'
<1> USE ArchiveFacts
    DEF BundleInv, BundleTypeOK, Placed, diskVars, Goto, AtWork, Extracting
<1>1. CASE InitStart(p)
  BY <1>1 DEF InitStart
<1>2. CASE CheckMarker(p)
  <2>1. overlapped' \in BOOLEAN
    BY <1>2 DEF CheckMarker
  <2> QED BY <1>2, <2>1 DEF CheckMarker
<1>3. CASE FindStale(p)
  BY <1>3 DEF FindStale
<1>4. CASE RemoveEntry(p)
  BY <1>4 DEF RemoveEntry
<1>5. CASE RemoveMarker(p)
  BY <1>5 DEF RemoveMarker
<1>6. CASE RemoveDir(p) \/ CreateDir(p)
  <2>1. CASE RemoveDir(p)
    BY <2>1 DEF RemoveDir
  <2>2. CASE CreateDir(p)
    BY <2>2 DEF CreateDir
  <2> QED BY <1>6, <2>1, <2>2
<1>7. CASE BeginEntry(p)
  <2>0. Archive[entry[p]] \in Entries
    BY <1>7 DEF BeginEntry
  <2>1. PICK e \in Entries, state \in {"partial", "absent"},
             label \in {"copy", "link"} :
           /\ e = Archive[entry[p]]
           /\ tree' = [tree EXCEPT ![e] = state]
           /\ bpc' = [bpc EXCEPT ![p] = label]
           /\ \/ linked' = [linked EXCEPT ![p] = TRUE]
              \/ label = "link" /\ linked' = linked
    BY <1>7, <2>0, Zenon DEF BeginEntry
  <2> QED BY <1>7, <2>1 DEF BeginEntry
<1>8. CASE CopyFile(p) \/ MakeLink(p)
  <2>1. entry[p] \in 1..Len(Archive)
    BY <1>8 DEF CopyFile, MakeLink
  <2>2. tree' \in [Entries -> {"absent", "partial", "whole"}]
    BY <1>8, <2>1 DEF CopyFile, MakeLink
  <2>3. /\ entry' = [entry EXCEPT ![p] = @ + 1]
        /\ bpc' = [bpc EXCEPT ![p] = "extract"]
        /\ UNCHANGED <<dir, hash_marker, linked, overlapped>>
    BY <1>8 DEF CopyFile, MakeLink, NextEntry
  <2> QED BY <2>1, <2>2, <2>3
<1>9. CASE CreateMarker(p)
  BY <1>9 DEF CreateMarker
<1>10. CASE WriteMarker(p)
  BY <1>10 DEF WriteMarker
<1>11. CASE InitFails(p) \/ ProcessEnds(p)
  <2>1. PICK label \in {"failed", "off"} : bpc' = [bpc EXCEPT ![p] = label]
    BY <1>11 DEF InitFails, ProcessEnds
  <2> QED BY <1>11, <2>1 DEF InitFails, ProcessEnds
<1> QED
  BY <1>1, <1>2, <1>3, <1>4, <1>5, <1>6, <1>7, <1>8, <1>9, <1>10, <1>11
     DEF BundleStep

\* Without overlapping extractions no process changes what another one relies on.
LEMMA StepAlone ==
    ASSUME BundleInv, NEW p \in Procs, ~overlapped',
           InitStart(p) \/ BundleStep(p) \/ ProcessEnds(p)
    PROVE  Alone'
<1>0. ~overlapped
  BY DEF InitStart, BundleStep, ProcessEnds, CheckMarker, FindStale, RemoveEntry,
         RemoveMarker, RemoveDir, CreateDir, BeginEntry, CopyFile, MakeLink,
         CreateMarker, WriteMarker, InitFails
<1> USE <1>0, ArchiveFacts
    DEF BundleInv, BundleTypeOK, Placed, Alone, Done, diskVars, Goto, AtWork,
        Extracting, Whole
<1>1. CASE InitStart(p)
  BY <1>1 DEF InitStart
<1>2. CASE CheckMarker(p)
  <2>1. CASE hash_marker = "valid"
    BY <1>2, <2>1 DEF CheckMarker
  <2>2. CASE hash_marker # "valid"
    <3>1. \A q \in Procs \ {p} : ~Extracting(q)
      BY <1>2, <2>2, Zenon DEF CheckMarker
    <3>2. bpc' = [bpc EXCEPT ![p] = "stale"] /\ UNCHANGED <<diskVars, entry, linked>>
      BY <1>2, <2>2 DEF CheckMarker
    <3> QED BY <2>2, <3>1, <3>2
  <2> QED BY <2>1, <2>2
<1>3. CASE FindStale(p)
  BY <1>3 DEF FindStale
<1>4. CASE RemoveEntry(p)
  BY <1>4 DEF RemoveEntry
<1>5. CASE RemoveMarker(p)
  BY <1>5 DEF RemoveMarker
<1>6. CASE RemoveDir(p) \/ CreateDir(p)
  <2>1. CASE RemoveDir(p)
    BY <2>1 DEF RemoveDir
  <2>2. CASE CreateDir(p)
    BY <2>2 DEF CreateDir
  <2> QED BY <1>6, <2>1, <2>2
<1>7. CASE BeginEntry(p)
  <2>0. Archive[entry[p]] \in Entries
    BY <1>7 DEF BeginEntry
  <2>1. PICK e \in Entries, state \in {"partial", "absent"},
             label \in {"copy", "link"} :
           /\ e = Archive[entry[p]]
           /\ tree' = [tree EXCEPT ![e] = state]
           /\ bpc' = [bpc EXCEPT ![p] = label]
           /\ \/ linked' = [linked EXCEPT ![p] = TRUE]
              \/ label = "link" /\ linked' = linked
    BY <1>7, <2>0, Zenon DEF BeginEntry
  <2> QED BY <1>7, <2>1 DEF BeginEntry
<1>8. CASE CopyFile(p) \/ MakeLink(p)
  <2>1. entry[p] \in 1..Len(Archive) /\ Extracting(p)
    BY <1>8 DEF CopyFile, MakeLink
  <2>2. tree' = [tree EXCEPT ![Archive[entry[p]]] = "whole"]
    BY <1>8, <2>1 DEF CopyFile, MakeLink
  <2>3. /\ entry' = [entry EXCEPT ![p] = @ + 1]
        /\ bpc' = [bpc EXCEPT ![p] = "extract"]
        /\ UNCHANGED <<dir, hash_marker, linked, overlapped>>
    BY <1>8 DEF CopyFile, MakeLink, NextEntry
  <2> QED BY <2>1, <2>2, <2>3
<1>9. CASE CreateMarker(p)
  BY <1>9 DEF CreateMarker
<1>10. CASE WriteMarker(p)
  BY <1>10 DEF WriteMarker
<1>11. CASE InitFails(p) \/ ProcessEnds(p)
  <2>1. PICK label \in {"failed", "off"} : bpc' = [bpc EXCEPT ![p] = label]
    BY <1>11 DEF InitFails, ProcessEnds
  <2> QED BY <1>11, <2>1 DEF InitFails, ProcessEnds
<1> QED
  BY <1>1, <1>2, <1>3, <1>4, <1>5, <1>6, <1>7, <1>8, <1>9, <1>10, <1>11
     DEF BundleStep

\* The strengthened invariant of the bundle.
LEMMA AlwaysBundleInv == BundleSpec => []BundleInv
<1>1. BundleInv /\ [BundleNext]_bundleVars => BundleInv'
  <2> SUFFICES ASSUME BundleInv, [BundleNext]_bundleVars PROVE BundleInv'
    OBVIOUS
  <2>1. CASE UNCHANGED bundleVars
    BY <2>1 DEF bundleVars, diskVars, BundleInv, BundleTypeOK, Placed, Alone, Done,
                Extracting, Whole
  <2>2. ASSUME NEW p \in Procs, InitStart(p) \/ BundleStep(p) \/ ProcessEnds(p)
        PROVE  BundleInv'
    BY <2>2, StepPlaced, StepAlone DEF BundleInv
  <2> QED BY <2>1, <2>2 DEF BundleNext
<1> QED BY InitInv, <1>1, PTL DEF BundleSpec

\* A process that is through with init has the whole bundle before it, and a
\* valid marker tells the truth, for every archive, any number of processes and
\* wherever they have been killed, unless two extractions have overlapped
\* (Bundle::init_inner).
THEOREM BundleAlwaysUsable == BundleSpec => []BundleUsable
<1>1. BundleInv => BundleUsable
  BY DEF BundleInv, Alone, BundleUsable
<1> QED BY <1>1, AlwaysBundleInv, PTL

-----------------------------------------------------------------------------
(***************************************************************************)
(* The rows of the editor and what build_config makes of them.             *)
(***************************************************************************)
RowSet == [device : ToSet(Devices), enabled : BOOLEAN, port : Ports \cup {NoPort},
           keys : Seq(STRING), values : Seq(Texts)]

\* A new row holds the saved entry of its device, every option of it included.
LEMMA RowFacts ==
    ASSUME NEW config, IsConfig(config), NEW d \in ToSet(Devices)
    PROVE  LET r     == Row(d, config)
               opts  == config[d].options
           IN  /\ r \in RowSet /\ Len(r.values) = Len(r.keys)
               /\ r.device = d /\ r.enabled = (d \in DOMAIN config)
               /\ r.port \in Ports
               /\ d \in DOMAIN config =>
                     /\ r.port = config[d].port /\ DOMAIN opts \subseteq ToSet(r.keys)
                     /\ \A i \in DOMAIN r.keys :
                           r.keys[i] \in DOMAIN opts => r.values[i] = opts[r.keys[i]]
<1> DEFINE opts  == IF d \in DOMAIN config THEN config[d].options ELSE << >>
           rest  == DOMAIN opts \ ToSet(Options[d])
           keys  == Options[d] \o SetToSeq(rest)
           values == [i \in DOMAIN keys |->
                        IF keys[i] \in DOMAIN opts THEN opts[keys[i]] ELSE <<>>]
           port  == IF d \in DOMAIN config THEN config[d].port ELSE default_port[d]
           r == [device |-> d, enabled |-> d \in DOMAIN config, port |-> port,
                 keys |-> keys, values |-> values]
<1>1. r = Row(d, config)
  BY DEF Row
<1>2. /\ DOMAIN opts \subseteq STRING /\ IsFiniteSet(DOMAIN opts)
      /\ \A key \in DOMAIN opts : opts[key] \in Texts
  <2>1. CASE d \in DOMAIN config
    BY <2>1 DEF IsConfig
  <2>2. CASE d \notin DOMAIN config
    <3>1. opts = << >> /\ DOMAIN opts = {}
      BY <2>2
    <3> QED BY <3>1, FS_EmptySet
  <2> QED BY <2>1, <2>2
<1>3. port \in Ports
  BY EditorAssumption DEF IsConfig
<1>4. Options[d] \in Seq(STRING) /\ <<>> \in Texts
  BY EditorAssumption
<1> HIDE DEF opts, port
<1>5. SetToSeq(rest) \in Seq(STRING) /\ ToSet(SetToSeq(rest)) = rest
  <2>1. IsFiniteSet(rest) /\ rest \subseteq STRING
    BY <1>2, FS_Subset
  <2> HIDE DEF rest
  <2>2. SetToSeq(rest) \in Seq(rest) /\ ToSet(SetToSeq(rest)) = rest
    BY <2>1, SetToSeqIs
  <2> QED BY <2>1, <2>2, SeqMonotone, Zenon
<1>6. keys \in Seq(STRING) /\ ToSet(keys) = ToSet(Options[d]) \cup rest
  <2> HIDE DEF rest
  <2>1. ToSet(keys) = ToSet(Options[d]) \cup ToSet(SetToSeq(rest))
    BY <1>4, <1>5, ToSetCat
  <2> QED BY <1>4, <1>5, <2>1
<1>7. DOMAIN opts \subseteq ToSet(keys)
  BY <1>6
<1> HIDE DEF keys
<1>8. DOMAIN keys = 1..Len(keys) /\ Len(keys) \in Nat
  BY <1>6
<1>9. values \in Seq(Texts) /\ Len(values) = Len(keys)
  BY <1>2, <1>4, <1>8
<1>10. \A i \in DOMAIN keys : keys[i] \in DOMAIN opts => values[i] = opts[keys[i]]
  OBVIOUS
<1> HIDE DEF values
<1>11. r \in RowSet
  BY <1>3, <1>6, <1>9 DEF RowSet
<1>12. d \in DOMAIN config => opts = config[d].options /\ port = config[d].port
  BY DEF opts, port
<1> QED BY <1>1, <1>3, <1>7, <1>9, <1>10, <1>11, <1>12

\* Saving leaves texts texts.
LEMMA SanitizeType ==
    ASSUME NEW text \in Texts, NEW key
    PROVE  sanitize_option_value(key, text) \in Texts
  BY EditorAssumption DEF sanitize_option_value

\* The entry of a row: the port it shows, the options it lists.
LEMMA EntryFacts ==
    ASSUME NEW row \in RowSet, Len(row.values) = Len(row.keys)
    PROVE  LET e == Entry(row) IN
           /\ e.port \in Ports
           /\ row.port \in Ports => e.port = row.port
           /\ DOMAIN e.options = ToSet(row.keys)
           /\ IsFiniteSet(DOMAIN e.options) /\ DOMAIN e.options \subseteq STRING
           /\ e.options \in [DOMAIN e.options -> Texts]
           /\ \A key \in DOMAIN e.options : \E i \in DOMAIN row.keys :
                 /\ row.keys[i] = key
                 /\ e.options[key] = sanitize_option_value(key, row.values[i])
<1> DEFINE e == Entry(row)
           at(key) == CHOOSE i \in DOMAIN row.keys : row.keys[i] = key
<1>1. /\ row.keys \in Seq(STRING) /\ row.values \in Seq(Texts)
      /\ row.device \in ToSet(Devices) /\ row.port \in Ports \cup {NoPort}
  BY DEF RowSet
<1>2. e.port \in Ports /\ (row.port \in Ports => e.port = row.port)
  <2>1. NoPort \notin Ports
    <3>1. Ports \subseteq 0..MaxPort /\ MaxPort \in Nat
      <4>1. MaxPort \in Nat
        BY DEF MaxPort
      <4> QED BY <4>1, EditorAssumption
    <3> QED BY <3>1 DEF NoPort
  <2> QED BY <1>1, <2>1, EditorAssumption DEF Entry, ParsePort
<1>3. e.options = [key \in ToSet(row.keys) |->
                     sanitize_option_value(key, row.values[at(key)])]
  BY DEF Entry
<1>4. \A key \in ToSet(row.keys) :
        at(key) \in DOMAIN row.keys /\ row.keys[at(key)] = key
  BY DEF ToSet
<1>5. \A i \in DOMAIN row.keys : row.values[i] \in Texts
  BY <1>1
<1> HIDE DEF e, at
<1>6. DOMAIN e.options = ToSet(row.keys)
  BY <1>3
<1>7. IsFiniteSet(ToSet(row.keys)) /\ ToSet(row.keys) \subseteq STRING
  BY <1>1, ToSetFinite
<1>8. e.options \in [ToSet(row.keys) -> Texts]
  BY <1>3, <1>4, <1>5, SanitizeType
<1> QED BY <1>2, <1>3, <1>4, <1>6, <1>7, <1>8 DEF e

EditorRows ==
    /\ rows \in Seq(RowSet)
    /\ \A i \in DOMAIN rows : Len(rows[i].values) = Len(rows[i].keys)

\* What build_config makes is a configuration.
LEMMA BuildType ==
    ASSUME EditorRows
    PROVE  IsConfig(build_config)
<1> DEFINE at(d) == CHOOSE i \in EnabledRows : rows[i].device = d
           ds == {rows[i].device : i \in EnabledRows}
<1>1. build_config = [d \in ds |-> Entry(rows[at(d)])]
  BY DEF build_config
<1>2. EnabledRows \subseteq DOMAIN rows
  BY DEF EnabledRows
<1>3. \A i \in DOMAIN rows : rows[i] \in RowSet
  BY DEF EditorRows
<1>4. ds \subseteq ToSet(Devices)
  BY <1>2, <1>3 DEF RowSet
<1>5. ASSUME NEW d \in ds
      PROVE  at(d) \in DOMAIN rows
  BY <1>2
<1> HIDE DEF at, ds
<1>6. ASSUME NEW d \in ds
      PROVE  LET e == build_config[d]
                 keys == DOMAIN e.options
             IN  /\ e.port \in Ports
                 /\ keys \subseteq STRING /\ IsFiniteSet(keys)
                 /\ e.options \in [keys -> Texts]
  <2> DEFINE row == rows[at(d)]
  <2>1. row \in RowSet /\ Len(row.values) = Len(row.keys)
    BY <1>3, <1>5 DEF EditorRows
  <2>2. build_config[d] = Entry(row)
    BY <1>1
  <2> HIDE DEF row
  <2> QED BY <2>1, <2>2, EntryFacts
<1>7. DOMAIN build_config = ds
  BY <1>1
<1> QED BY <1>4, <1>6, <1>7 DEF IsConfig

-----------------------------------------------------------------------------
(***************************************************************************)
(* The editor.                                                             *)
(***************************************************************************)
\* A row no key has changed is as TuiState::new made it.
Kept == \A i \in DOMAIN rows :
            rows[i].device \notin touched => rows[i] = Row(rows[i].device, base)

EditorInv == EditorTypeOK /\ IndicesInRange /\ Kept

\* What get_all_devices returns is a list of devices.
LEMMA ListingType ==
    ASSUME NEW listed \in Listings
    PROVE  listed \in Seq(ToSet(Devices))
<1>1. PICK places \in SeqOf(DOMAIN Devices, Len(Devices)) :
        listed = [i \in DOMAIN places |-> Devices[places[i]]]
  BY DEF Listings
<1>2. PICK n \in 0..Len(Devices) : places \in [1..n -> DOMAIN Devices]
  BY <1>1 DEF SeqOf
<1>3. \A i \in 1..n : Devices[places[i]] \in ToSet(Devices)
  BY <1>2 DEF ToSet
<1>4. listed \in [1..n -> ToSet(Devices)]
  BY <1>1, <1>2, <1>3
<1>5. n \in Nat
  BY <1>2
<1> QED BY <1>4, <1>5

\* TuiState::new: rows for what is listed, the first one selected, nothing edited.
LEMMA NewKeeps ==
    ASSUME NEW listed \in Listings, NEW config, IsConfig(config), new(listed, config)
    PROVE  EditorInv'
<1>1. listed \in Seq(ToSet(Devices))
  BY ListingType
<1>2. /\ rows' = [i \in DOMAIN listed |-> Row(listed[i], config)]
      /\ selected' = 1 /\ mode' = Normal /\ touched' = {} /\ base' = config
  BY DEF new
<1>3. Len(listed) \in Nat /\ DOMAIN listed = 1..Len(listed)
  BY <1>1
<1>4. \A i \in 1..Len(listed) :
        LET r == Row(listed[i], config) IN
        r \in RowSet /\ Len(r.values) = Len(r.keys) /\ r.device = listed[i]
  <2> SUFFICES ASSUME NEW i \in 1..Len(listed)
               PROVE  LET r == Row(listed[i], config) IN
                      /\ r \in RowSet /\ Len(r.values) = Len(r.keys)
                      /\ r.device = listed[i]
    OBVIOUS
  <2>1. listed[i] \in ToSet(Devices)
    BY <1>1
  <2> QED BY <2>1, RowFacts
<1>5. DOMAIN rows' = 1..Len(listed) /\ rows' \in Seq(RowSet)
  BY <1>2, <1>3, <1>4
<1>6. EditorTypeOK'
  <2>1. \A i \in DOMAIN rows' : Len(rows'[i].values) = Len(rows'[i].keys)
    BY <1>2, <1>3, <1>4, <1>5
  <2> QED BY <1>2, <1>5, <2>1 DEF EditorTypeOK, RowSet
<1>7. IndicesInRange'
  <2>1. rows' # <<>> => 1 \in DOMAIN rows'
    BY <1>5
  <2> QED BY <1>2, <2>1 DEF IndicesInRange, Editing
<1>8. Kept'
  BY <1>2, <1>3, <1>4, <1>5 DEF Kept
<1> QED BY <1>6, <1>7, <1>8 DEF EditorInv

\* No editor: no rows.
LEMMA GoneKeeps ==
    ASSUME EditorGone
    PROVE  EditorInv'
<1>1. /\ rows' = <<>> /\ selected' = 1 /\ mode' = Normal /\ touched' = {}
      /\ base' = NoConfig
  BY DEF EditorGone
<1>2. IsConfig(base)'
  BY <1>1 DEF IsConfig, NoConfig
<1> QED BY <1>1, <1>2 DEF EditorInv, EditorTypeOK, IndicesInRange, Kept, Editing

\* A key that changes the selected row notes its device.
LEMMA ChangeKeeps ==
    ASSUME EditorInv, NEW row \in RowSet, Len(row.values) = Len(row.keys),
           rows # <<>>, row.device = rows[selected].device,
           row.keys = rows[selected].keys,
           Editing => row.enabled,
           rows' = [rows EXCEPT ![selected] = row],
           touched' = touched \cup {row.device},
           UNCHANGED <<selected, mode, base>>
    PROVE  EditorInv'
<1>1. rows \in Seq(RowSet) /\ selected \in DOMAIN rows /\ DOMAIN rows = 1..Len(rows)
  BY DEF EditorInv, EditorTypeOK, RowSet, IndicesInRange
<1>2. rows' \in Seq(RowSet) /\ DOMAIN rows' = DOMAIN rows /\ rows' # <<>>
  BY <1>1
<1>3. /\ rows'[selected] = row
      /\ \A i \in DOMAIN rows : i # selected => rows'[i] = rows[i]
  BY <1>1
<1>4. row.device \in ToSet(Devices)
  BY DEF RowSet
<1>5. EditorTypeOK'
  <2>1. \A i \in DOMAIN rows' : Len(rows'[i].values) = Len(rows'[i].keys)
    BY <1>2, <1>3 DEF EditorInv, EditorTypeOK
  <2>2. IsConfig(base)'
    BY DEF EditorInv, EditorTypeOK, IsConfig
  <2> QED BY <1>2, <1>4, <2>1, <2>2 DEF EditorInv, EditorTypeOK, RowSet
<1>6. IndicesInRange'
  BY <1>1, <1>2, <1>3 DEF EditorInv, IndicesInRange, Editing, field_count
<1>7. Kept'
  BY <1>1, <1>2, <1>3 DEF EditorInv, Kept
<1> QED BY <1>5, <1>6, <1>7 DEF EditorInv

\* A key that only moves between the fields keeps to the fields of an enabled row.
LEMMA FieldKeeps ==
    ASSUME EditorInv, rows # <<>>, rows[selected].enabled,
           mode' = Normal \/ (mode' \in Nat /\ mode' < field_count),
           UNCHANGED <<rows, selected, touched, base>>
    PROVE  EditorInv'
<1>1. IsConfig(base)'
  BY DEF EditorInv, EditorTypeOK, IsConfig
<1>2. EditorTypeOK'
  BY <1>1 DEF EditorInv, EditorTypeOK
<1>3. IndicesInRange'
  BY DEF EditorInv, IndicesInRange, Editing, field_count
<1>4. Kept'
  BY DEF EditorInv, Kept
<1> QED BY <1>2, <1>3, <1>4 DEF EditorInv

\* No key leads out of the lists or changes a row without marking it touched.
LEMMA EditorStepKeeps ==
    ASSUME EditorInv, EditorStep
    PROVE  EditorInv'
<1>1. rows \in Seq(RowSet) /\ (rows # <<>> => selected \in DOMAIN rows)
      /\ DOMAIN rows = 1..Len(rows)
  BY DEF EditorInv, EditorTypeOK, RowSet, IndicesInRange
<1>2. \A i \in DOMAIN rows : rows[i] \in RowSet /\ Len(rows[i].values) = Len(rows[i].keys)
  BY <1>1 DEF EditorInv, EditorTypeOK
<1>3. CASE KeyUp \/ KeyDown
  <2>1. /\ selected' \in Nat /\ (rows # <<>> => selected' \in DOMAIN rows)
        /\ mode = Normal /\ UNCHANGED <<rows, mode, touched, base>>
    <3>1. selected \in Nat
      BY DEF EditorInv, EditorTypeOK
    <3> QED BY <1>1, <1>3, <3>1 DEF KeyUp, KeyDown
  <2>2. IsConfig(base)'
    BY <2>1 DEF EditorInv, EditorTypeOK, IsConfig
  <2> QED BY <1>1, <2>1, <2>2
          DEF EditorInv, EditorTypeOK, IndicesInRange, Kept, Editing
<1>4. CASE KeySpace
  <2> DEFINE row == [rows[selected] EXCEPT !.enabled = ~@]
  <2>1. rows[selected] \in RowSet /\ Len(rows[selected].values) = Len(rows[selected].keys)
    BY <1>1, <1>2, <1>4 DEF KeySpace
  <2>2. /\ row \in RowSet /\ row.device = rows[selected].device
        /\ row.keys = rows[selected].keys /\ row.values = rows[selected].values
    BY <2>1 DEF RowSet
  <2>3. rows' = [rows EXCEPT ![selected] = row]
    BY <1>4 DEF KeySpace
  <2> HIDE DEF row
  <2>4. /\ rows # <<>> /\ ~Editing /\ touched' = touched \cup {row.device}
        /\ UNCHANGED <<selected, mode, base>>
    BY <1>4, <2>2 DEF KeySpace, Editing
  <2> QED BY <2>1, <2>2, <2>3, <2>4, ChangeKeeps
<1>5. CASE KeyEnter
  <2>1. /\ rows # <<>> /\ rows[selected].enabled /\ mode' = 0
        /\ UNCHANGED <<rows, selected, touched, base>>
    BY <1>5 DEF KeyEnter
  <2>2. rows[selected].keys \in Seq(STRING)
    BY <1>1, <1>2, <2>1 DEF RowSet
  <2>3. 0 < field_count
    BY <2>2 DEF field_count
  <2> QED BY <2>1, <2>3, FieldKeeps
<1>6. ASSUME NEW field, EditField(field), Editing, field = Normal \/ field \in Nat,
             field # Normal => field < field_count
      PROVE  EditorInv'
  <2>1. rows # <<>> /\ rows[selected].enabled
    BY <1>6 DEF EditorInv, IndicesInRange
  <2>2. mode' = field /\ UNCHANGED <<rows, selected, touched, base>>
    BY <1>6 DEF EditField
  <2>3. mode' = Normal \/ (mode' \in Nat /\ mode' < field_count)
    <3>1. CASE field = Normal
      BY <2>2, <3>1
    <3>2. CASE field # Normal
      BY <1>6, <2>2, <3>2
    <3> QED BY <3>1, <3>2
  <2> QED BY <2>1, <2>2, <2>3, FieldKeeps
<1>7. mode \in Nat \cup {Normal} /\ (rows # <<>> => field_count \in Nat)
  <2>1. rows # <<>> => rows[selected].keys \in Seq(STRING)
    BY <1>1, <1>2 DEF RowSet
  <2> QED BY <2>1 DEF EditorInv, EditorTypeOK, field_count
<1>8. CASE FieldEsc
  BY <1>6, <1>8 DEF FieldEsc
<1>9. CASE FieldEnter
  <2>1. mode \in Nat /\ field_count \in Nat
    BY <1>7, <1>9 DEF FieldEnter, Editing, EditorInv, IndicesInRange
  <2>2. CASE mode + 1 >= field_count
    BY <1>6, <1>9, <2>2 DEF FieldEnter
  <2>3. CASE ~(mode + 1 >= field_count)
    <3>1. mode + 1 \in Nat /\ mode + 1 < field_count /\ EditField(mode + 1) /\ Editing
      BY <1>9, <2>1, <2>3 DEF FieldEnter
    <3> QED BY <1>6, <3>1
  <2> QED BY <2>2, <2>3
<1>10. CASE FieldUp
  <2>1. mode \in Nat /\ field_count \in Nat /\ mode < field_count
    BY <1>7, <1>10 DEF FieldUp, Editing, EditorInv, IndicesInRange
  <2>2. mode - 1 \in Nat /\ mode - 1 < field_count /\ EditField(mode - 1) /\ Editing
    BY <1>10, <2>1 DEF FieldUp
  <2> QED BY <1>6, <2>2
<1>11. CASE FieldDown
  <2>1. mode \in Nat /\ field_count \in Nat
    BY <1>7, <1>11 DEF FieldDown, Editing, EditorInv, IndicesInRange
  <2>2. mode + 1 \in Nat /\ mode + 1 < field_count /\ EditField(mode + 1) /\ Editing
    BY <1>11, <2>1 DEF FieldDown
  <2> QED BY <1>6, <2>2
<1>12. CASE FieldText
  <2>1. /\ Editing /\ rows # <<>> /\ rows[selected].enabled /\ mode < field_count
        /\ mode \in Nat /\ selected \in DOMAIN rows
        /\ touched' = touched \cup {rows[selected].device}
        /\ UNCHANGED <<selected, mode, base>>
    BY <1>1, <1>7, <1>12 DEF FieldText, EditorInv, IndicesInRange, Editing
  <2> DEFINE old == rows[selected]
  <2>2. /\ old \in RowSet /\ Len(old.values) = Len(old.keys)
        /\ old.values \in Seq(Texts) /\ old.keys \in Seq(STRING)
    BY <1>2, <2>1 DEF RowSet
  <2>3. ASSUME NEW port \in Ports \cup {NoPort},
               rows' = [rows EXCEPT ![selected].port = port]
        PROVE  EditorInv'
    <3> DEFINE row == [old EXCEPT !.port = port]
    <3>1. /\ row \in RowSet /\ row.device = old.device /\ row.keys = old.keys
          /\ row.values = old.values /\ row.enabled = old.enabled
      BY <2>2 DEF RowSet
    <3>2. rows' = [rows EXCEPT ![selected] = row]
      BY <2>3
    <3> HIDE DEF row
    <3> QED BY <2>1, <2>2, <3>1, <3>2, ChangeKeeps
  <2>4. ASSUME NEW text \in Texts, mode > 0,
               rows' = [rows EXCEPT ![selected].values[mode] = text]
        PROVE  EditorInv'
    <3> DEFINE values == [old.values EXCEPT ![mode] = text]
               row == [old EXCEPT !.values = values]
    <3>1. values \in Seq(Texts) /\ Len(values) = Len(old.values)
      <4>1. Len(old.values) \in Nat /\ old.values \in [1..Len(old.values) -> Texts]
        BY <2>2
      <4>2. values \in [1..Len(old.values) -> Texts]
        BY <2>4, <4>1
      <4> HIDE DEF values
      <4> QED BY <4>1, <4>2
    <3> HIDE DEF values
    <3>2. /\ row \in RowSet /\ row.device = old.device /\ row.keys = old.keys
          /\ row.values = values /\ row.enabled = old.enabled
      BY <2>2, <3>1 DEF RowSet
    <3>3. rows' = [rows EXCEPT ![selected] = row]
      BY <2>4 DEF values
    <3> HIDE DEF row
    <3> QED BY <2>1, <2>2, <3>1, <3>2, <3>3, ChangeKeeps
  <2> QED BY <1>12, <2>3, <2>4 DEF FieldText
<1> QED BY <1>3, <1>4, <1>5, <1>8, <1>9, <1>10, <1>11, <1>12 DEF EditorStep

\* What build_config makes of the rows of a device that no key has changed.
LEMMA KeptIsSaved == EditorInv => UntouchedKept
<1> SUFFICES ASSUME EditorInv, NEW i \in DOMAIN rows, rows[i].device \notin touched
             PROVE  LET d == rows[i].device IN
                    IF d \in DOMAIN base
                    THEN /\ d \in DOMAIN build_config
                         /\ (\A key \in DOMAIN base[d].options :
                                 Settled(key, base[d].options[key]))
                            => /\ build_config[d].port = base[d].port
                               /\ \A key \in DOMAIN base[d].options :
                                     /\ key \in DOMAIN build_config[d].options
                                     /\ build_config[d].options[key]
                                            = base[d].options[key]
                    ELSE d \notin DOMAIN build_config
  BY DEF UntouchedKept
<1> DEFINE d == rows[i].device
           at == CHOOSE j \in EnabledRows : rows[j].device = d
           made == Row(d, base)
           opts == base[d].options
<1>1. rows \in Seq(RowSet) /\ IsConfig(base)
  BY DEF EditorInv, EditorTypeOK, RowSet
<1>2. d \in ToSet(Devices)
  <2>1. rows[i] \in RowSet
    BY <1>1
  <2> QED BY <2>1 DEF RowSet
<1>3. \A j \in DOMAIN rows : rows[j].device = d => rows[j] = made
  BY DEF EditorInv, Kept
<1>4. EnabledRows \subseteq DOMAIN rows /\ \A j \in EnabledRows : rows[j].enabled
  BY DEF EnabledRows
<1>5. DOMAIN build_config = {rows[j].device : j \in EnabledRows}
  BY DEF build_config
<1>6. /\ made \in RowSet /\ Len(made.values) = Len(made.keys)
      /\ made.enabled = (d \in DOMAIN base)
      /\ d \in DOMAIN base =>
            /\ made.port = base[d].port /\ DOMAIN opts \subseteq ToSet(made.keys)
            /\ \A k \in DOMAIN made.keys :
                  made.keys[k] \in DOMAIN opts => made.values[k] = opts[made.keys[k]]
            /\ made.port \in Ports
  BY <1>1, <1>2, RowFacts
<1>7. CASE d \notin DOMAIN base
  <2>1. ASSUME NEW j \in EnabledRows
        PROVE  rows[j].device # d
    BY <1>3, <1>4, <1>6, <1>7
  <2> QED BY <1>5, <1>7, <2>1
<1>8. CASE d \in DOMAIN base
  <2>1. i \in EnabledRows
    BY <1>3, <1>6, <1>8 DEF EnabledRows
  <2>2. d \in DOMAIN build_config
    BY <1>5, <2>1
  <2>3. at \in EnabledRows /\ rows[at].device = d
    BY <2>1
  <2>4. build_config[d] = Entry(rows[at])
    BY <1>5, <2>2 DEF build_config
  <2>5. rows[at] = made
    BY <1>3, <1>4, <2>3
  <2> DEFINE e == Entry(made)
  <2>6. build_config[d] = e
    BY <2>4, <2>5
  <2> HIDE DEF made, at, d
  <2>7. /\ made.port \in Ports => e.port = made.port
        /\ DOMAIN e.options = ToSet(made.keys)
        /\ \A key \in DOMAIN e.options : \E k \in DOMAIN made.keys :
              /\ made.keys[k] = key
              /\ e.options[key] = sanitize_option_value(key, made.values[k])
    BY <1>6, EntryFacts
  <2> HIDE DEF e
  <2>8. ASSUME NEW key \in DOMAIN opts, Settled(key, opts[key])
        PROVE  key \in DOMAIN e.options /\ e.options[key] = opts[key]
    <3>1. key \in DOMAIN e.options
      BY <1>6, <1>8, <2>7, <2>8
    <3>2. PICK k \in DOMAIN made.keys :
            /\ made.keys[k] = key
            /\ e.options[key] = sanitize_option_value(key, made.values[k])
      BY <2>7, <3>1
    <3>3. made.values[k] = opts[key]
      BY <1>6, <1>8, <2>8, <3>2
    <3> QED BY <2>8, <3>1, <3>2, <3>3 DEF Settled
  <2>9. e.port = base[d].port
    BY <1>6, <1>8, <2>7
  <2> QED BY <1>8, <2>2, <2>6, <2>8, <2>9 DEF d
<1> QED BY <1>7, <1>8

-----------------------------------------------------------------------------
(***************************************************************************)
(* The tool.                                                               *)
(***************************************************************************)
\* Without a save that was not completed the file says what was saved, with one a
\* beginning of it; and a file that was deleted says nothing, nor will a save that
\* still holds it open make it say anything.
FileInv ==
    /\ IF torn THEN config_toml = NoConfig \/ IsCut(config_toml)
              ELSE config_toml = saved
    /\ ~file_exists => ~torn /\ config_toml = NoConfig
    /\ \A p \in Procs : mpc[p] = "save" => torn \/ ~file_exists
    /\ \A p, q \in Procs :
          mpc[p] \in {"edit", "save"} /\ mpc[q] \in {"edit", "save"} => p = q

MainTypeOK ==
    /\ file_exists \in BOOLEAN
    /\ IsConfig(config_toml)
    /\ mpc \in [Procs -> {"off", "init", "edit", "save", "run", "exit"}]
    /\ command \in [Procs -> Commands]
    /\ starts \in 0..MaxStarts
    /\ IsConfig(saved)
    /\ torn \in BOOLEAN

ToolInv == MainTypeOK /\ EditorInv /\ FileInv

\* Every step of the tool is one of its bundle, or leaves the bundle alone.
LEMMA StepOfBundle == [Next]_vars => [BundleNext]_bundleVars
<1> SUFFICES ASSUME [Next]_vars
             PROVE  BundleNext \/ UNCHANGED bundleVars
  OBVIOUS
<1>1. CASE UNCHANGED vars
  BY <1>1 DEF vars
<1>2. ASSUME NEW p \in Procs,
             \/ Start(p) \/ InitBundle(p) \/ Config(p) \/ Edit(p) \/ Quit(p)
             \/ SaveTruncates(p) \/ SaveWritesSome(p) \/ SaveWrites(p)
             \/ SaveFails(p) \/ Clean(p) \/ Run(p) \/ RunNothing(p) \/ Exit(p)
      PROVE  BundleNext \/ UNCHANGED bundleVars
  <2>1. InitStart(p) \/ BundleStep(p) \/ ProcessEnds(p) \/ UNCHANGED bundleVars
    BY <1>2 DEF Start, InitBundle, Config, Edit, Quit, SaveTruncates, SaveWritesSome,
                SaveWrites, SaveFails, Clean, Run, RunNothing, Exit
  <2> QED BY <2>1 DEF BundleNext
<1> QED BY <1>1, <1>2 DEF Next

\* The tool uses the bundle as the bundle is specified.
THEOREM UsesBundle == Spec => BundleSpec
<1>1. Init => BundleInit
  BY DEF Init
<1> QED BY <1>1, StepOfBundle, PTL DEF Spec, BundleSpec

\* At the start the file has what an older version left.
LEMMA ToolInit == Init => ToolInv
<1> SUFFICES ASSUME Init
             PROVE  ToolInv
  OBVIOUS
<1>1. IsConfig(config_toml)
  BY HostToolAssumption DEF Init
<1>2. MainTypeOK
  <2>1. file_exists \in BOOLEAN
    BY DEF Init
  <2>2. /\ mpc = [p \in Procs |-> "off"] /\ command = [p \in Procs |-> "run"]
        /\ saved = config_toml /\ torn = FALSE /\ starts = 0
    BY DEF Init
  <2>3. 0 \in 0..MaxStarts
    BY HostToolAssumption
  <2>4. IsConfig(saved)
    BY <1>1, <2>2
  <2> HIDE DEF IsConfig
  <2> QED BY <1>1, <2>1, <2>2, <2>3, <2>4 DEF MainTypeOK, Commands
<1>3. IsConfig(base)
  BY DEF Init, EditorInit, IsConfig, NoConfig
<1>4. EditorInv
  BY <1>3 DEF Init, EditorInit, EditorInv, EditorTypeOK, IndicesInRange, Kept, Editing
<1>5. FileInv
  BY DEF Init, FileInv
<1> QED BY <1>2, <1>4, <1>5 DEF ToolInv

\* A step outside the editor.
LEMMA EditorSame ==
    ASSUME EditorInv, UNCHANGED editorVars
    PROVE  EditorInv'
<1>1. IsConfig(base)'
  BY DEF editorVars, EditorInv, EditorTypeOK, IsConfig
<1> QED BY <1>1 DEF editorVars, EditorInv, EditorTypeOK, IndicesInRange, Kept, Editing,
                    field_count

\* What load makes of a beginning of the text is a configuration, and is cut from
\* saved.
LEMMA BeginningFacts ==
    ASSUME IsConfig(saved), NEW config \in Beginnings
    PROVE  IsConfig(config) /\ (config = NoConfig \/ IsCut(config))
<1>1. CASE config = NoConfig
  BY <1>1 DEF IsConfig, NoConfig
<1>2. CASE config # NoConfig
  <2>1. PICK i \in DOMAIN Devices :
          /\ Devices[i] \in DOMAIN saved
          /\ \E piece \in EntryPieces(saved[Devices[i]]) : config = Beginning(i, piece)
    BY <1>2 DEF Beginnings
  <2> DEFINE last == Devices[i]
             e    == saved[last]
             ds   == {Devices[j] : j \in 1..i} \cap DOMAIN saved
  <2>2. PICK piece \in EntryPieces(e) : config = Beginning(i, piece)
    BY <2>1
  <2>3. /\ e.port \in Ports /\ DOMAIN e.options \subseteq STRING
        /\ IsFiniteSet(DOMAIN e.options)
        /\ e.options \in [DOMAIN e.options -> Texts]
    BY <2>1 DEF IsConfig
  <2> HIDE DEF e
  <2>4. /\ piece.port \in PortPieces(e.port)
        /\ DOMAIN piece.options \subseteq DOMAIN e.options
        /\ \A key \in DOMAIN piece.options : piece.options[key] = e.options[key]
        /\ piece.options \in [DOMAIN piece.options -> Texts]
    <3>1. CASE \E keys \in SUBSET DOMAIN e.options :
                  piece = [e EXCEPT !.options = [key \in keys |-> e.options[key]]]
      <4>1. PICK keys \in SUBSET DOMAIN e.options :
                  piece = [e EXCEPT !.options = [key \in keys |-> e.options[key]]]
        BY <3>1
      <4>2. piece.options = [key \in keys |-> e.options[key]] /\ piece.port = e.port
        BY <2>1, <4>1 DEF e
      <4> QED BY <2>3, <4>1, <4>2 DEF PortPieces
    <3>2. CASE \E port \in PortPieces(e.port) : piece = [port |-> port, options |-> << >>]
      BY <3>2
    <3> QED BY <2>2, <3>1, <3>2 DEF EntryPieces
  <2>5. piece.port \in Ports
    BY <2>3, <2>4, HostToolAssumption
  <2>6. IsFiniteSet(DOMAIN piece.options) /\ DOMAIN piece.options \subseteq STRING
    BY <2>3, <2>4, FS_Subset
  <2>7. config = [d \in ds |-> IF d = last THEN piece ELSE saved[d]]
    BY <2>2 DEF Beginning
  <2>8. last \in ds /\ ds \subseteq DOMAIN saved
    <3>1. i \in 1..i
      BY <2>1, EditorAssumption
    <3> QED BY <2>1, <3>1
  <2> HIDE DEF ds, last
  <2>9. IsConfig(config)
    BY <2>4, <2>5, <2>6, <2>7, <2>8 DEF IsConfig
  <2>10. IsCut(config)
    BY <2>4, <2>7, <2>8 DEF IsCut, e
  <2> QED BY <2>9, <2>10
<1> QED BY <1>1, <1>2

\* The invariant of the whole tool, one case per action of main.
LEMMA ToolStep ==
    ASSUME ToolInv, [Next]_vars
    PROVE  ToolInv'
<1>1. MainTypeOK /\ EditorInv /\ FileInv
  BY DEF ToolInv
<1>2. ASSUME UNCHANGED fileVars
      PROVE  /\ (IsConfig(config_toml) /\ IsConfig(saved))'
             /\ (IF torn THEN config_toml = NoConfig \/ IsCut(config_toml)
                        ELSE config_toml = saved)'
             /\ (~file_exists => ~torn /\ config_toml = NoConfig)'
  BY <1>1, <1>2 DEF fileVars, MainTypeOK, IsConfig, FileInv, IsCut
<1>3. CASE UNCHANGED vars
  <2>1. EditorInv'
    BY <1>1, <1>3, EditorSame DEF vars
  <2>2. MainTypeOK' /\ FileInv'
    BY <1>1, <1>2, <1>3 DEF vars, mainVars, fileVars, MainTypeOK, FileInv
  <2> QED BY <2>1, <2>2 DEF ToolInv
<1>4. ASSUME NEW p \in Procs, Start(p)
      PROVE  ToolInv'
  <2>1. EditorInv'
    BY <1>1, <1>4, EditorSame DEF Start
  <2>2. MainTypeOK' /\ FileInv'
    BY <1>1, <1>2, <1>4, HostToolAssumption DEF Start, fileVars, MainTypeOK, FileInv
  <2> QED BY <2>1, <2>2 DEF ToolInv
<1>5. ASSUME NEW p \in Procs, InitBundle(p)
      PROVE  ToolInv'
  <2>1. EditorInv'
    BY <1>1, <1>5, EditorSame DEF InitBundle
  <2>2. MainTypeOK' /\ FileInv'
    BY <1>1, <1>2, <1>5 DEF InitBundle, fileVars, mainVars, MainTypeOK, FileInv
  <2> QED BY <2>1, <2>2 DEF ToolInv
<1>6. ASSUME NEW p \in Procs, Config(p)
      PROVE  ToolInv'
  <2>1. IsConfig(load)
    <3>1. IsConfig(NoConfig)
      BY DEF IsConfig, NoConfig
    <3> QED BY <1>1, <3>1 DEF load, MainTypeOK
  <2>2. EditorInv'
    BY <1>6, <2>1, NewKeeps DEF Config
  <2>3. MainTypeOK' /\ FileInv'
    BY <1>1, <1>2, <1>6 DEF Config, MainGoto, fileVars, MainTypeOK, FileInv
  <2> QED BY <2>2, <2>3 DEF ToolInv
<1>7. ASSUME NEW p \in Procs, Edit(p)
      PROVE  ToolInv'
  <2>1. EditorInv'
    BY <1>1, <1>7, EditorStepKeeps DEF Edit
  <2>2. MainTypeOK' /\ FileInv'
    BY <1>1, <1>2, <1>7 DEF Edit, fileVars, mainVars, MainTypeOK, FileInv
  <2> QED BY <2>1, <2>2 DEF ToolInv
<1>8. ASSUME NEW p \in Procs, Quit(p)
      PROVE  ToolInv'
  <2>1. EditorInv'
    BY <1>8, GoneKeeps DEF Quit
  <2>2. MainTypeOK' /\ FileInv'
    BY <1>1, <1>2, <1>8 DEF Quit, MainGoto, fileVars, MainTypeOK, FileInv
  <2> QED BY <2>1, <2>2 DEF ToolInv
<1>9. ASSUME NEW p \in Procs, SaveTruncates(p)
      PROVE  ToolInv'
  <2>1. EditorInv'
    BY <1>9, GoneKeeps DEF SaveTruncates
  <2>2. /\ config_toml' = NoConfig /\ saved' = build_config /\ torn' = TRUE
        /\ file_exists' = TRUE /\ mpc[p] = "edit"
        /\ mpc' = [mpc EXCEPT ![p] = "save"] /\ UNCHANGED <<command, starts>>
    BY <1>9 DEF SaveTruncates, MainGoto
  <2>3. IsConfig(config_toml)'
    BY <2>2 DEF IsConfig, NoConfig
  <2>4. IsConfig(saved)'
    <3>1. EditorRows
      BY <1>1 DEF EditorInv, EditorTypeOK, EditorRows, RowSet
    <3>2. IsConfig(build_config)
      BY <3>1, BuildType
    <3> HIDE DEF build_config
    <3> QED BY <2>2, <3>2 DEF IsConfig
  <2> HIDE DEF build_config
  <2>5. MainTypeOK' /\ FileInv'
    BY <1>1, <2>2, <2>3, <2>4 DEF MainTypeOK, FileInv
  <2> QED BY <2>1, <2>5 DEF ToolInv
<1>10. ASSUME NEW p \in Procs, SaveWritesSome(p)
       PROVE  ToolInv'
  <2>1. EditorInv'
    BY <1>1, <1>10, EditorSame DEF SaveWritesSome
  <2>2. /\ mpc[p] = "save" /\ UNCHANGED <<file_exists, saved, torn, mpc, command, starts>>
        /\ \E config \in Beginnings : config_toml' = Written(config)
    BY <1>10 DEF SaveWritesSome, mainVars
  <2>3. IsConfig(saved)'
    BY <1>1, <2>2 DEF MainTypeOK, IsConfig
  <2>4. CASE file_exists
    <3>1. torn
      BY <1>1, <2>2, <2>4 DEF FileInv
    <3>2. PICK config \in Beginnings : config_toml' = config
      BY <2>2, <2>4 DEF Written
    <3>3. IsConfig(config) /\ (config = NoConfig \/ IsCut(config))
      BY <1>1, BeginningFacts DEF MainTypeOK
    <3>4. IsConfig(config_toml)' /\ (config_toml = NoConfig \/ IsCut(config_toml))'
      BY <2>2, <3>2, <3>3 DEF IsConfig, IsCut
    <3> QED BY <1>1, <2>1, <2>2, <2>3, <2>4, <3>1, <3>4 DEF ToolInv, MainTypeOK, FileInv
  <2>5. CASE ~file_exists
    <3>1. config_toml' = config_toml
      BY <2>2, <2>5 DEF Written
    <3>2. UNCHANGED fileVars
      BY <2>2, <3>1 DEF fileVars
    <3> QED BY <1>1, <1>2, <2>1, <2>2, <3>2 DEF ToolInv, MainTypeOK, FileInv, fileVars
  <2> QED BY <2>4, <2>5
<1>15. ASSUME NEW p \in Procs, SaveWrites(p)
       PROVE  ToolInv'
  <2>1. EditorInv'
    BY <1>1, <1>15, EditorSame DEF SaveWrites
  <2>2. /\ mpc[p] = "save" /\ config_toml' = Written(saved) /\ torn' = FALSE
        /\ mpc' = [mpc EXCEPT ![p] = "exit"]
        /\ UNCHANGED <<file_exists, saved, command, starts>>
    BY <1>15 DEF SaveWrites, MainGoto
  <2>3. config_toml' = saved
    <3>1. ~file_exists => config_toml = saved
      BY <1>1 DEF FileInv, MainTypeOK
    <3> QED BY <2>2, <3>1 DEF Written
  <2>4. IsConfig(saved)' /\ IsConfig(config_toml)'
    BY <1>1, <2>2, <2>3 DEF MainTypeOK, IsConfig
  <2>5. FileInv'
    <3>1. ~file_exists => saved = NoConfig
      BY <1>1 DEF FileInv, MainTypeOK
    <3>2. \A q \in Procs : mpc'[q] # "save"
      BY <1>1, <2>2 DEF FileInv, MainTypeOK
    <3> QED BY <1>1, <2>2, <2>3, <3>1, <3>2 DEF FileInv, MainTypeOK
  <2> QED BY <1>1, <2>1, <2>2, <2>4, <2>5 DEF ToolInv, MainTypeOK
<1>16. ASSUME NEW p \in Procs, SaveFails(p)
       PROVE  ToolInv'
  <2>1. EditorInv'
    BY <1>1, <1>16, EditorSame DEF SaveFails
  <2>2. MainTypeOK' /\ FileInv'
    BY <1>1, <1>2, <1>16 DEF SaveFails, MainGoto, fileVars, MainTypeOK, FileInv
  <2> QED BY <2>1, <2>2 DEF ToolInv
<1>11. ASSUME NEW p \in Procs, Clean(p)
       PROVE  ToolInv'
  <2>1. EditorInv'
    BY <1>1, <1>11, EditorSame DEF Clean
  <2>2. IsConfig(config_toml)' /\ IsConfig(saved)'
    BY <1>11 DEF Clean, IsConfig, NoConfig
  <2>3. MainTypeOK' /\ FileInv'
    BY <1>1, <1>11, <2>2 DEF Clean, MainGoto, MainTypeOK, FileInv
  <2> QED BY <2>1, <2>3 DEF ToolInv
<1>12. ASSUME NEW p \in Procs, Run(p)
       PROVE  ToolInv'
  <2>1. EditorInv'
    BY <1>1, <1>12, EditorSame DEF Run
  <2>2. MainTypeOK' /\ FileInv'
    BY <1>1, <1>2, <1>12 DEF Run, MainGoto, fileVars, MainTypeOK, FileInv
  <2> QED BY <2>1, <2>2 DEF ToolInv
<1>13. ASSUME NEW p \in Procs, RunNothing(p)
       PROVE  ToolInv'
  <2>1. EditorInv'
    BY <1>1, <1>13, EditorSame DEF RunNothing
  <2>2. MainTypeOK' /\ FileInv'
    BY <1>1, <1>2, <1>13 DEF RunNothing, MainGoto, fileVars, MainTypeOK, FileInv
  <2> QED BY <2>1, <2>2 DEF ToolInv
<1>14. ASSUME NEW p \in Procs, Exit(p)
       PROVE  ToolInv'
  <2>1. EditorInv'
    BY <1>1, <1>14, EditorSame, GoneKeeps DEF Exit
  <2>2. MainTypeOK' /\ FileInv'
    BY <1>1, <1>2, <1>14 DEF Exit, fileVars, MainTypeOK, FileInv
  <2> QED BY <2>1, <2>2 DEF ToolInv
<1> QED BY <1>3, <1>4, <1>5, <1>6, <1>7, <1>8, <1>9, <1>10, <1>11, <1>12, <1>13,
           <1>14, <1>15, <1>16 DEF Next

\* The strengthened invariant of the tool, with that of the bundle.
LEMMA AlwaysToolInv == Spec => [](BundleInv /\ ToolInv)
<1>1. Spec => []ToolInv
  BY ToolInit, ToolStep, PTL DEF Spec
<1> QED BY <1>1, UsesBundle, AlwaysBundleInv, PTL

\* Every variable of the tool stays in its set: what is in the file is a
\* configuration, what is on the screen are rows (HostConfig, DeviceRow).
THEOREM ToolTypeCorrect == Spec => []TypeOK
<1>1. BundleInv /\ ToolInv => TypeOK
  BY DEF BundleInv, ToolInv, EditorInv, MainTypeOK, TypeOK
<1> QED BY <1>1, AlwaysToolInv, PTL

\* The bundle is usable for whatever a process goes on to do (Bundle::init before
\* every command of main).
THEOREM BundleUsableInTool == Spec => []BundleUsable
  BY UsesBundle, BundleAlwaysUsable, PTL

\* No key, in any order and with any list of devices, takes an index out of range
\* or edits a row that is not enabled (TuiState::handle_key, handle_paste).
THEOREM IndicesStayInRange == Spec => []IndicesInRange
<1>1. ToolInv => IndicesInRange
  BY DEF ToolInv, EditorInv
<1> QED BY <1>1, AlwaysToolInv, PTL

\* A save would leave the port and the saved options of every listed device that no
\* key has changed as they were loaded (TuiState::new and build_config).
THEOREM UntouchedEntriesSurvive == Spec => []UntouchedKept
<1>1. ToolInv => UntouchedKept
  BY KeptIsSaved DEF ToolInv
<1> QED BY <1>1, AlwaysToolInv, PTL

\* However many processes save, are killed in a save, fail in one or delete the file:
\* a host runs what was saved last, or a beginning of it when that save was not
\* completed, and never a mixture with an older one (HostConfig::load and save, main).
THEOREM OnlySavedIsRun == Spec => RunsWhatWasSaved
<1>1. ToolInv /\ [Next]_vars =>
        [\A p \in Procs : mpc[p] # "run" /\ mpc'[p] = "run"
             => load = saved \/ (torn /\ IsCut(load))]_vars
  <2> SUFFICES ASSUME ToolInv, [Next]_vars, NEW p \in Procs,
                      mpc[p] # "run", mpc'[p] = "run"
               PROVE  load = saved \/ (torn /\ IsCut(load))
    OBVIOUS
  <2>1. Run(p)
    <3>1. CASE UNCHANGED vars
      BY <3>1 DEF vars, mainVars
    <3>2. ASSUME NEW q \in Procs,
                 \/ Start(q) \/ InitBundle(q) \/ Config(q) \/ Edit(q) \/ Quit(q)
                 \/ SaveTruncates(q) \/ SaveWritesSome(q) \/ SaveWrites(q)
                 \/ SaveFails(q) \/ Clean(q) \/ RunNothing(q) \/ Exit(q)
          PROVE  FALSE
      <4>1. \/ mpc' = mpc
            \/ \E label \in {"off", "init", "edit", "save", "exit"} :
                  mpc' = [mpc EXCEPT ![q] = label]
        BY <3>2 DEF Start, InitBundle, Config, Edit, Quit, SaveTruncates, SaveWritesSome,
                    SaveWrites, SaveFails, Clean, RunNothing, Exit, MainGoto, mainVars
      <4> QED BY <4>1 DEF ToolInv, MainTypeOK
    <3>3. ASSUME NEW q \in Procs, Run(q)
          PROVE  Run(p)
      <4>1. mpc' = [mpc EXCEPT ![q] = "run"]
        BY <3>3 DEF Run, MainGoto
      <4>2. q = p
        BY <4>1 DEF ToolInv, MainTypeOK
      <4> QED BY <3>3, <4>2
    <3> QED BY <3>1, <3>2, <3>3 DEF Next
  <2>2. load # NoConfig /\ file_exists /\ load = config_toml
    BY <2>1 DEF Run, load
  <2> QED BY <2>2 DEF ToolInv, FileInv
<1> QED BY <1>1, AlwaysToolInv, PTL DEF Spec, RunsWhatWasSaved
=============================================================================
