------------------------------- MODULE Editor -------------------------------
(***************************************************************************)
(* The configuration and its editor: HostConfig of crates/ncd/src/config.rs*)
(* and TuiState of crates/ncd/src/ui/state.rs, with the key events run_tui *)
(* hands to it.  A configuration maps a device to its entry.               *)
(*                                                                         *)
(* A text is what tells the code's cases apart: of a port, the number or   *)
(* that it is none; of an option, the quotes and blanks around it, from the*)
(* outside.                                                                *)
(***************************************************************************)
EXTENDS Integers, Sequences, FiniteSets, SequencesExt

CONSTANTS
    Devices,      \* the devices there may be, in the order adapters list them
    Options,      \* Options[d]: keys of the adapter's default options
    default_port, \* default_port[d]
    Ports,        \* port numbers
    Texts         \* texts of options: sequences of "quote" and "blank", with
                  \* each one what is left when its outside is taken off

MaxPort == 65535
NoPort == -1   \* a text that is no port number
Normal == -1   \* no field is edited

Trim(text)    == IF text # <<>> /\ Head(text) = "blank" THEN Tail(text) ELSE text
Unquote(text) == IF text # <<>> /\ Head(text) = "quote" THEN Tail(text) ELSE text

ASSUME EditorAssumption ==
    /\ Devices \in Seq(ToSet(Devices))
    /\ Options \in [ToSet(Devices) -> Seq(STRING)]
    /\ default_port \in [ToSet(Devices) -> Ports]
    /\ Ports \subseteq 0..MaxPort
    /\ <<>> \in Texts
    /\ \A text \in Texts : Unquote(Trim(text)) \in Texts

VARIABLES
    rows,      \* the devices listed, with what is set for them
    selected,  \* position in rows; the code counts from 0
    mode,      \* Normal, or the number of the field that is edited
    touched,   \* history: devices that a key has changed
    base       \* history: the configuration the editor has loaded

editorVars == <<rows, selected, mode, touched, base>>

NoConfig == << >>   \* no devices; also what is loaded when there is no file

IsConfig(config) ==
    /\ DOMAIN config \subseteq ToSet(Devices)
    /\ \A d \in DOMAIN config :
          LET keys == DOMAIN config[d].options IN
          /\ config[d].port \in Ports
          /\ keys \subseteq STRING /\ IsFiniteSet(keys)
          /\ config[d].options \in [keys -> Texts]

-----------------------------------------------------------------------------
EditorTypeOK ==
    /\ rows \in Seq([device : ToSet(Devices), enabled : BOOLEAN,
                     port : Ports \cup {NoPort}, keys : Seq(STRING),
                     values : Seq(Texts)])
    /\ \A i \in DOMAIN rows : Len(rows[i].values) = Len(rows[i].keys)
    /\ selected \in Nat
    /\ mode \in {Normal} \cup Nat
    /\ touched \subseteq ToSet(Devices)
    /\ IsConfig(base)

EditorInit ==
    /\ rows = <<>>
    /\ selected = 1
    /\ mode = Normal
    /\ touched = {}
    /\ base = NoConfig

\* get_all_devices: an adapter that fails lists no devices.
Listings ==
    {[i \in DOMAIN places |-> Devices[places[i]]] :
        places \in {f \in SeqOf(DOMAIN Devices, Len(Devices)) :
                       \A i, j \in DOMAIN f : i < j => f[i] < f[j]}}

\* Mutant: options the adapter does not list are forgotten.
RowForgets(d, config) ==
    LET opts  == IF d \in DOMAIN config THEN config[d].options ELSE << >>
        keys  == Options[d]
    IN  [device  |-> d,
         enabled |-> d \in DOMAIN config,
         port    |-> IF d \in DOMAIN config THEN config[d].port ELSE default_port[d],
         keys    |-> keys,
         values  |-> [i \in DOMAIN keys |->
                         IF keys[i] \in DOMAIN opts THEN opts[keys[i]] ELSE <<>>]]

\* TuiState::new: a row for every device listed, the saved entry merged into
\* it.  Keys of the entry that the adapter does not list come after its own.
Row(d, config) ==
    LET opts  == IF d \in DOMAIN config THEN config[d].options ELSE << >>
        keys  == Options[d] \o SetToSeq(DOMAIN opts \ ToSet(Options[d]))
    IN  [device  |-> d,
         enabled |-> d \in DOMAIN config,
         port    |-> IF d \in DOMAIN config THEN config[d].port ELSE default_port[d],
         keys    |-> keys,
         values  |-> [i \in DOMAIN keys |->
                         IF keys[i] \in DOMAIN opts THEN opts[keys[i]] ELSE <<>>]]

new(listed, config) ==
    /\ rows' = [i \in DOMAIN listed |-> Row(listed[i], config)]
    /\ selected' = 1
    /\ mode' = Normal
    /\ touched' = {}
    /\ base' = config

-----------------------------------------------------------------------------
(***************************************************************************)
(* build_config.                                                           *)
(***************************************************************************)
sanitize_option_value(key, text) ==
    IF key = "file_path" THEN Unquote(Trim(text)) ELSE text

\* Mutant: a text that is no number gives port 0.
ParsePortZero(row) == IF row.port = NoPort THEN 0 ELSE row.port

ParsePort(row) == IF row.port = NoPort THEN default_port[row.device] ELSE row.port

Entry(row) ==
    [port    |-> ParsePort(row),
     options |-> [key \in ToSet(row.keys) |->
         LET i == CHOOSE i \in DOMAIN row.keys : row.keys[i] = key
         IN  sanitize_option_value(key, row.values[i])]]

EnabledRows == {i \in DOMAIN rows : rows[i].enabled}

build_config ==
    [d \in {rows[i].device : i \in EnabledRows} |->
        Entry(rows[CHOOSE i \in EnabledRows : rows[i].device = d])]

-----------------------------------------------------------------------------
(***************************************************************************)
(* handle_normal_key.  s, q and Esc end the editor, see HostTool.          *)
(***************************************************************************)
field_count == 1 + Len(rows[selected].keys)

KeyUp ==
    /\ mode = Normal
    /\ selected > 1
    /\ selected' = selected - 1
    /\ UNCHANGED <<rows, mode, touched, base>>

KeyDown ==
    /\ mode = Normal
    /\ selected < Len(rows)
    /\ selected' = selected + 1
    /\ UNCHANGED <<rows, mode, touched, base>>

KeySpace ==
    /\ mode = Normal
    /\ rows # <<>>
    /\ rows' = [rows EXCEPT ![selected].enabled = ~@]
    /\ touched' = touched \cup {rows[selected].device}
    /\ UNCHANGED <<selected, mode, base>>

\* Enter or Tab.  Field 0 is the port.
KeyEnter ==
    /\ mode = Normal
    /\ rows # <<>>
    /\ rows[selected].enabled
    /\ mode' = 0
    /\ UNCHANGED <<rows, selected, touched, base>>

(***************************************************************************)
(* handle_editing_key and handle_paste.                                    *)
(***************************************************************************)
Editing == mode # Normal

EditField(field) == mode' = field /\ UNCHANGED <<rows, selected, touched, base>>

FieldEsc == Editing /\ EditField(Normal)

\* Mutant: the last field is not noticed.
FieldEnterOn == Editing /\ EditField(IF mode + 1 > field_count THEN Normal
                                                              ELSE mode + 1)

\* Enter or Tab.
FieldEnter == Editing /\ EditField(IF mode + 1 >= field_count THEN Normal
                                                             ELSE mode + 1)

FieldUp == Editing /\ mode > 0 /\ EditField(mode - 1)

FieldDown == Editing /\ mode + 1 < field_count /\ EditField(mode + 1)

\* Characters typed, pasted or taken away make any text.
FieldText ==
    /\ Editing
    /\ \/ /\ mode = 0
          /\ \E port \in Ports \cup {NoPort} :
                 rows' = [rows EXCEPT ![selected].port = port]
       \/ /\ mode > 0
          /\ \E text \in Texts :
                 rows' = [rows EXCEPT ![selected].values[mode] = text]
    /\ touched' = touched \cup {rows[selected].device}
    /\ UNCHANGED <<selected, mode, base>>

EditorStep == \/ KeyUp \/ KeyDown \/ KeySpace \/ KeyEnter
              \/ FieldEsc \/ FieldEnter \/ FieldUp \/ FieldDown \/ FieldText

-----------------------------------------------------------------------------
\* No index is out of range when a key is handled or a row is drawn, and only
\* an enabled row is edited (selected_row, get_field_value_mut, field_count).
IndicesInRange ==
    /\ rows # <<>> => selected \in DOMAIN rows
    /\ Editing => /\ rows # <<>>
                  /\ rows[selected].enabled
                  /\ mode < field_count

\* Saving leaves the text as it is.
Settled(key, text) == sanitize_option_value(key, text) = text

\* Saving would leave the port and the saved options of a listed device that no
\* key has changed as they were, options of other versions included, provided
\* that its paths have none of the blanks and quotes that every save takes off
\* (TuiState::new, build_config).  The device's name, which is taken from the
\* listing, and default options that are added are not in the model.
UntouchedKept ==
    \A i \in DOMAIN rows :
        LET d == rows[i].device IN
        d \notin touched =>
            IF d \in DOMAIN base
            THEN /\ d \in DOMAIN build_config
                 /\ (\A key \in DOMAIN base[d].options :
                         Settled(key, base[d].options[key]))
                    => /\ build_config[d].port = base[d].port
                       /\ \A key \in DOMAIN base[d].options :
                              /\ key \in DOMAIN build_config[d].options
                              /\ build_config[d].options[key] = base[d].options[key]
            ELSE d \notin DOMAIN build_config
=============================================================================
