------------------------------- MODULE Forms -------------------------------
(***************************************************************************)
(* A dialog of the web frontend from its mount to what the server stores:  *)
(* react-hook-form's values, the zod resolver, the page's submit handler   *)
(* and the merge of the body into the row.                                 *)
(*                                                                         *)
(* An input whose default is undefined reads its DOM element; a default    *)
(* without an input stays among the values, and so does the value of an    *)
(* input that is unmounted.  zod drops the keys its schema does not name.  *)
(***************************************************************************)
EXTENDS Dialogs, Naturals, FiniteSets, Sequences

CONSTANTS
    Form,         \* the dialogs opened
    MaxChanges    \* bound on the inputs a user changes

ASSUME FormsAssumption == Form \subseteq DOMAIN Dialog /\ MaxChanges \in Nat

VARIABLES
    form, mode,   \* the dialog; mode 1 creates, mode 2 edits
    row,          \* the row it edits, with every key absent in a creation
    values,       \* react-hook-form's values, of the mounted inputs and others
    touched,      \* the inputs the user changed
    phase,        \* "open", "refused" by the resolver, "sent", "saved", "failed"
    body,         \* what was sent
    stored        \* the row the server has in the end

formVars == <<form, mode, row, values, touched, phase, body, stored>>

VipDialogs == {"ip", "record"}
D == Dialog[form]
Mounts(i) == D.inputs[i]
Schema == D.schemas[mode]
At(record, f) == IF f \in DOMAIN record THEN record[f] ELSE "absent"

\* Rows as the server returns them: every optional column set; null; the empty
\* string (a dialog stores one for a text left empty); and one column with a
\* value that its dialog does not know.
Set(v) == v \notin {"null", "other", "none"}
Filled(type) == [f \in DOMAIN type |-> CHOOSE v \in type[f] : Set(v)]
Bare(type) == [f \in DOMAIN type |-> IF "null" \in type[f] THEN "null" ELSE Filled(type)[f]]
Blanked(type) == [f \in DOMAIN type |-> IF {"text", "null"} \subseteq type[f] THEN "blank"
                                        ELSE Filled(type)[f]]
Foreign(type, g) == [Filled(type) EXCEPT ![g] = "other"]

\* A VIP has a type and any other address none: the API's validator.
Rows(type) ==
    LET some == {Filled(type), Bare(type), Blanked(type)}
                \cup {Foreign(type, g) : g \in {f \in DOMAIN type : "other" \in type[f]}} IN
    IF type # IPAddress THEN some
    ELSE UNION {{[r EXCEPT !.is_vip = "true", !.vip_type = "text", !.node_bindings = "some"],
                 [r EXCEPT !.is_vip = "false", !.vip_type = "null", !.node_bindings = "null"]} :
                r \in some}

\* What RunDiscoveryModal does not show.
HiddenOfRun(v) ==
    (IF v.by_subnet = "true" THEN {"target_ips"} ELSE {"subnet_id"}) \cup
    (IF v.scan_type # "snmp" THEN {"snmp_credential_id", "snmp_community"}
     ELSE {"winrm_credential_id"} \cup {f \in {"snmp_community"} : v.snmp_credential_id # "blank"})

\* The inputs that are mounted while the values are v.
Shown(v) ==
    DOMAIN Mounts(mode) \
        CASE form \in VipDialogs /\ v.is_vip # "true" -> {"vip_type", "node_bindings"}
          [] form = "scan" -> {f \in {"schedule_time", "interval_minutes", "snmp_credential_id"} :
                                  \/ f = "schedule_time" /\ v.is_scheduled = "false"
                                  \/ f = "interval_minutes" /\ v.schedule_preset # "custom"
                                  \/ f = "snmp_credential_id" /\ v.scan_type # "snmp"}
          [] form = "discover" -> HiddenOfRun(v)
          [] form = "snmp" /\ v.version # "v3" -> V3Texts \cup V3Choices
          [] form = "snmp" /\ v.version = "v3" ->
                {"community_string"} \cup
                (IF v.v3_security_level = "authPriv" THEN {}
                 ELSE (V3Texts \cup V3Choices) \ {"v3_username", "v3_security_level"})
          [] OTHER -> {}

\* register: a mounted input without a value reads its element.
Mounted(v) ==
    LET shown == Shown(v) IN
    [f \in DOMAIN v |-> IF f \in shown /\ v[f] = "absent" THEN Mounts(mode)[f].empty ELSE v[f]]

\* defaultValues: what the page makes of the row.
Loaded(r) ==
    LET filled == [f \in DOMAIN D.load |-> IF At(r, f) \in {"null", "absent"}
                                           THEN D.load[f] ELSE r[f]] IN
    IF form # "webhook" THEN filled     \* events.join(", ")
    ELSE [filled EXCEPT !.events = IF r.events = "some" THEN "text" ELSE "blank"]

Defaults == IF mode = 1 THEN D.empty ELSE Loaded(row)

\* What the body of the request must have.
Needed == {f \in DOMAIN D.bodies[mode] : "absent" \notin D.bodies[mode][f]}
Missing(v) == {f \in Needed : At(v, f) \in {"absent", "blank", "NaN"}}
Good(input) == CHOOSE v \in input.typed : v \in {"text", "uuid", "num"}

Start ==
    LET defaults == Defaults
        fields == DOMAIN Mounts(mode) \cup DOMAIN defaults
    IN  Mounted(Mounted([f \in fields |-> At(defaults, f)]))

FormsInit ==
    /\ form \in Form /\ mode \in DOMAIN D.schemas
    /\ row \in IF mode = 1 THEN {[f \in DOMAIN D.row |-> "absent"]} ELSE Rows(D.row)
    /\ values = Start
    /\ touched = {} /\ phase = "open" /\ body = <<>> /\ stored = row

-----------------------------------------------------------------------------
\* What else a change of f to x sets: VIP's checkbox and handlePresetChange.
Effects(v, f, x) ==
    CASE f = "is_vip" /\ x = "false" -> [v EXCEPT !.node_bindings = "none"]
      [] f = "schedule_preset" /\ x = "off" ->
            [v EXCEPT !.is_scheduled = "false", !.is_recursive = "false",
                      !.schedule_time = "null", !.interval_minutes = "null"]
      [] f = "schedule_preset" /\ x # "off" ->
            [v EXCEPT !.is_scheduled = "true", !.is_recursive = "true", !.schedule_time = "text",
                      !.interval_minutes = IF x = "custom" THEN "null" ELSE "num"]
      [] OTHER -> v

\* These stand for many values: one can be changed into another of its kind.
Many == {"text", "other", "uuid", "num", "some", "object"}

\* The user types into an input, picks a choice or presses a button.
Enter(f, x) ==
    /\ phase = "open" /\ (values[f] # x \/ x \in Many)
    /\ Cardinality(touched \cup {f}) <= MaxChanges
    /\ values' = Mounted(Effects([values EXCEPT ![f] = x], f, x))
    /\ touched' = touched \cup {f}
    /\ UNCHANGED <<form, mode, row, phase, body, stored>>

\* A user who knows what is required fills that first.
FillNeeded ==
    /\ phase = "open" /\ touched = {} /\ Missing(values) # {}
    /\ values' = [f \in DOMAIN values |-> IF f \in Missing(values)
                                          THEN Good(Mounts(mode)[f]) ELSE values[f]]
    /\ UNCHANGED <<form, mode, row, touched, phase, body, stored>>

\* superRefine of the two IP schemas, and the check of the record page.
Refined ==
    CASE form = "ip" -> vipConsistencyCheck([f \in {"is_vip", "vip_type", "node_bindings"} |->
                                                At(values, f)])
      [] form = "record" -> values.is_vip = "true" => values.vip_type # "blank"
      [] OTHER -> TRUE

Accepted == /\ \A f \in DOMAIN Schema : At(values, f) \in Schema[f]
            /\ Refined

\* Mutant: the port is not coerced.
ParsedUncoerced == [f \in {g \in DOMAIN Schema : At(values, g) # "absent"} |-> values[f]]

\* The resolver's output: named keys only, the port of WinRM coerced.
Parsed == [f \in {g \in DOMAIN Schema : At(values, g) # "absent"} |->
              IF f = "port" THEN "num" ELSE values[f]]

\* A run gets what is shown, but for a profile that is not chosen.
Run(b) == [f \in (DOMAIN b \cap Shown(values) \cap DOMAIN D.row) \
               {g \in {"snmp_credential_id", "winrm_credential_id"} : b[g] = "blank"} |-> b[f]]

\* The page's submit handler: handleFormSubmit of the IP dialog, handleSubmit
\* of the record page and transformSubmit of the webhooks.
NotVip(b) == IF At(b, "is_vip") = "true" THEN b
             ELSE [vip_type |-> "null", node_bindings |-> "none"] ++ b

Submitted(b) ==
    CASE form = "ip" -> NotVip(b)
      [] form = "record" -> NotVip([f \in DOMAIN b |-> IF b[f] = "blank" THEN "null" ELSE b[f]])
      [] form = "discover" -> Run(b)
      [] form = "webhook" -> [events |-> IF At(b, "events") = "text" THEN "some" ELSE "null"] ++ b
      [] OTHER -> b

Submit ==
    /\ phase = "open" /\ Accepted
    /\ phase' = "sent" /\ body' = Submitted(Parsed)
    /\ UNCHANGED <<form, mode, row, values, touched, stored>>

Refuse ==
    /\ phase = "open" /\ ~Accepted
    /\ phase' = "refused"
    /\ UNCHANGED <<form, mode, row, values, touched, body, stored>>

\* Mutant: the fields do not have the display name.
IgnoredDisplayName ==
    {<<"scan", "snmp_credential_id">>}
    \cup {x \in {<<"user", "email">>, <<"user", "display_name">>} : mode = 2}

\* The endpoint of scans has no SNMP profile, and the edit of a user sets the
\* fields of ALLOWED_USER_UPDATE_FIELDS only.
Ignored == {<<"scan", "snmp_credential_id">>} \cup {x \in {<<"user", "email">>} : mode = 2}

\* The server sets the columns the body names and the endpoint takes; a
\* password is no column, and a blank one is ignored.
Taken(f) == f \in DOMAIN body /\ <<form, f>> \notin Ignored
Merged == [f \in DOMAIN row |-> IF Taken(f) THEN body[f] ELSE row[f]]

\* A datetime cannot be the empty string, nor can the subnet of a run; a run
\* needs targets, and one over WinRM a profile.
Refused ==
    \/ At(body, "schedule_time") = "blank"
    \/ form = "discover" /\ (At(body, "subnet_id") = "blank" \/ At(body, "target_ips") = "none")
    \/ /\ form = "discover" /\ At(body, "scan_type") # "snmp"
       /\ At(body, "winrm_credential_id") = "absent"

Save ==
    /\ phase = "sent"
    /\ IF Refused
       THEN phase' = "failed" /\ UNCHANGED stored
       ELSE phase' = "saved" /\ stored' = Merged
    /\ UNCHANGED <<form, mode, row, values, touched, body>>

FormsNext ==
    \/ \E f \in Shown(values) : \E x \in Mounts(mode)[f].typed : Enter(f, x)
    \/ FillNeeded \/ Submit \/ Refuse \/ Save

FormsSpec == FormsInit /\ [][FormsNext]_formVars

-----------------------------------------------------------------------------
FormsTypeOK ==
    /\ form \in Form /\ mode \in {1, 2}
    /\ \A record \in {row, values, body, stored} : \A f \in DOMAIN record : record[f] \in Value
    /\ touched \subseteq DOMAIN values
    /\ phase \in {"open", "refused", "sent", "saved", "failed"}

(* Whatever the user does, what the resolver and the submit handlers let   *)
(* through is a body of types/api.ts, with every key the interface wants:  *)
(* CrudPage and most pages pass it on as any, so no compiler looks.        *)
SentFitsTheApi ==
    phase # "open" /\ phase # "refused" =>
        \A f \in DOMAIN D.bodies[mode] : At(body, f) \in D.bodies[mode][f]

\* null, the empty string and no elements all mean that nothing is there.
Means(v) == IF v \in {"null", "blank", "none"} THEN "absent" ELSE v

\* An SNMP row without the v3 columns is given their defaults.
FilledIn(f) == form = "snmp" /\ f \in V3Choices /\ row[f] = "null"
FollowsVip(f) == form \in VipDialogs /\ "is_vip" \in touched /\ f \in {"vip_type", "node_bindings"}

\* Inputs whose value the update schema, or the endpoint, does not have.
NotStored == {<<"aggregate", "network_address">>, <<"aggregate", "prefix_length">>,
              <<"asn", "asn">>, <<"range", "subnet_id">>, <<"user", "email">>}
NeverStored == {<<"scan", "snmp_credential_id">>}
Dropped(f) == <<form, f>> \in NeverStored \cup (IF mode = 2 THEN NotStored ELSE {})

\* What the server has for f is what the input says; where one value stands
\* for many, that takes that the endpoint got it and set it.
Carried(f) ==
    /\ Means(stored[f]) = Means(IF f = "port" /\ values[f] = "text" THEN "num" ELSE values[f])
    /\ values[f] \in Many => Taken(f)

(* What a user enters and saves is stored, no key lost between the input,  *)
(* the schema, the handler and the endpoint, but for the inputs named      *)
(* above.  And an edit, which sends the whole dialog, loaded from a row    *)
(* with nulls and passed through schemas with defaults, leaves all that    *)
(* was not touched meaning what it meant, but for the defaults of SNMP v3. *)
(* A VIP that is unticked and saved keeps neither type nor bindings.       *)
SavedAsEntered ==
    phase = "saved" =>
        \A f \in DOMAIN row :
            IF FollowsVip(f) THEN values.is_vip = "true" \/ Means(stored[f]) = "absent"
            ELSE IF f \in touched
            THEN Dropped(f) \/ (form = "discover" /\ f \notin Shown(values)) \/ Carried(f)
            ELSE mode = 2 => FilledIn(f) \/ Means(stored[f]) = Means(row[f])

\* The values that make a dialog with everything required refuse to submit,
\* whatever it edits.
Refusing ==
    {<<"site", "latitude", "NaN">>, <<"site", "longitude", "NaN">>,
     <<"vlan", "site_id", "blank">>, <<"subnet", "site_id", "blank">>,
     <<"subnet", "vlan_id", "blank">>, <<"aggregate", "rir_id", "blank">>,
     <<"asn", "rir_id", "blank">>, <<"asn", "site_id", "blank">>,
     <<"customField", "weight", "NaN">>, <<"rule", "weight", "NaN">>,
     <<"webhook", "timeout", "NaN">>, <<"webhook", "retry_count", "NaN">>,
     <<"webhook", "http_method", "blank">>, <<"webhook", "events", "blank">>,
     <<"webhook", "events", "text">>, <<"customField", "field_type", "blank">>,
     <<"scan", "snmp_credential_id", "blank">>, <<"scan", "interval_minutes", "NaN">>,
     <<"winrm", "password", "blank">>, <<"winrm", "port", "blank">>}

\* A column has a value its dialog does not know, and it was left alone.
KeptForeign(f) == f \notin touched /\ At(row, f) = "other" /\ At(values, f) = "other"

Complete == Missing(values) = {} /\ \A f \in touched : values[f] \notin {"blank", "NaN"}

(* A dialog with everything required is refused only for the values named  *)
(* above, for a value of the row that the dialog does not know, or for the *)
(* type of a VIP.  Most of them are no mistake of a user: the value of an  *)
(* optional input that was left alone, often shown without an error; the   *)
(* role of an operator or an engineer; an IPv6 address; the type of a VIP  *)
(* that was unticked, which docs/ONBOARDING.md:167 says is cleared.        *)
RefusedForAReason ==
    phase = "refused" /\ Complete =>
        \/ \E c \in Refusing : c[1] = form /\ At(values, c[2]) = c[3]
        \/ \E f \in DOMAIN row : KeptForeign(f)
        \/ form = "ip" /\ values.vip_type # IF values.is_vip = "true" THEN "text" ELSE "absent"
        \/ form = "record" /\ values.is_vip = "true" /\ values.vip_type = "blank"
=============================================================================
