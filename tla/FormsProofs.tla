----------------------------- MODULE FormsProofs -----------------------------
(***************************************************************************)
(* Proofs about Forms, for any set of dialogs and any number of inputs     *)
(* changed: what is sent fits the API, what is saved is what was entered,  *)
(* and what is refused is refused for one of the values Forms names.       *)
(*                                                                         *)
(* What each dialog's tables say of one field is looked up once, in the    *)
(* lemmas SiteTables to WebhookTables.  The invariant says which values a  *)
(* field can have, and the two together give the properties.               *)
(***************************************************************************)
EXTENDS Forms, TLAPS

Inputs(n, m) == Dialog[n].inputs[m]
Zod(n, m) == Dialog[n].schemas[m]
Bodies(n, m) == Dialog[n].bodies[m]

\* What a row can have for a field.
RowHas(n, f) ==
    LET type == Dialog[n].row IN
    IF f \notin DOMAIN type THEN {"absent"}
    ELSE type[f] \cup {v \in {"blank"} : {"text", "null"} \subseteq type[f]}

\* What the page makes of that.
FromRow(n, f, r) ==
    IF n = "webhook" /\ f = "events" THEN IF r = "some" THEN "text" ELSE "blank"
    ELSE IF f \notin DOMAIN Dialog[n].load THEN "absent"
    ELSE IF r \in {"null", "absent"} THEN Dialog[n].load[f] ELSE r

\* The value before any input: the default of a creation, or the row's.
Starts(n, m, f, v) ==
    IF m = 1 THEN v = At(Dialog[n].empty, f) ELSE \E r \in RowHas(n, f) : v = FromRow(n, f, r)

\* What a change of another input makes of it.
Besides(n, f) ==
    IF n \in VipDialogs /\ f = "node_bindings" THEN {"none"}
    ELSE IF n = "scan" /\ f = "schedule_time" THEN {"null", "text"}
    ELSE IF n = "scan" /\ f = "interval_minutes" THEN {"null", "num"}
    ELSE IF n = "scan" /\ f \in {"is_scheduled", "is_recursive"} THEN {"true", "false"}
    ELSE {}

Wants(n, m, f) == f \in DOMAIN Bodies(n, m) /\ "absent" \notin Bodies(n, m)[f]

\* The values of a field whose input the user did not change, and of one that
\* was changed.
Untouched(n, m, f, v) ==
    \/ Starts(n, m, f, v)
    \/ f \in DOMAIN Inputs(n, m) /\ v = Inputs(n, m)[f].empty /\ Starts(n, m, f, "absent")
    \/ Wants(n, m, f) /\ v \in {"text", "uuid", "num"} /\ v \in Inputs(n, m)[f].typed
    \/ v \in Besides(n, f)

Entered(n, m, f, v) == f \in DOMAIN Inputs(n, m) /\ v \in Inputs(n, m)[f].typed

\* What the resolver and the submit handlers make of a value.
SentAs(n, f, v) ==
    IF n = "webhook" /\ f = "events" THEN IF v = "text" THEN "some" ELSE "null"
    ELSE IF v = "absent" THEN "absent"
    ELSE IF f = "port" THEN "num"
    ELSE IF n = "record" /\ v = "blank" THEN "null"
    ELSE v

-----------------------------------------------------------------------------
(* What the tables of the dialog n say in its mode m.                      *)

RowTyped(n) ==
    \A f \in DOMAIN Dialog[n].row : /\ Dialog[n].row[f] \subseteq Value \ {"absent"}
                                    /\ \E v \in Dialog[n].row[f] : Set(v)

\* A value the dialog does not know comes from the row only.
Known == Value \ {"other"}

InputsTyped(n, m) ==
    \A f \in DOMAIN Inputs(n, m) : /\ Inputs(n, m)[f].typed \subseteq Known \ {"absent"}
                                   /\ Inputs(n, m)[f].empty \in Known

DefaultsTyped(n, m) ==
    /\ m \in {1, 2}
    /\ m = 1 => \A f \in DOMAIN Dialog[n].empty : Dialog[n].empty[f] \in Known
    /\ m = 2 => \A f \in DOMAIN Dialog[n].load : Dialog[n].load[f] \in Known

\* What a body must have can be filled, and in an edit it is there.
Fillable(n, m) ==
    \A f : Wants(n, m, f) => /\ m = 1 /\ f \in DOMAIN Inputs(n, m)
                             /\ \E v \in Inputs(n, m)[f].typed : v \in {"text", "uuid", "num"}

\* What the schema lets through fits the body.
Sendable(n, m) ==
    \A f \in DOMAIN Bodies(n, m) :
        IF f \in DOMAIN Zod(n, m)
        THEN \A v \in Zod(n, m)[f] :
                Untouched(n, m, f, v) \/ Entered(n, m, f, v) => SentAs(n, f, v) \in Bodies(n, m)[f]
        ELSE SentAs(n, f, "absent") \in Bodies(n, m)[f]

\* What the schema does not let through is named, or one of those.
Excusable(n, m) ==
    \A f \in DOMAIN Zod(n, m) : \A v :
        /\ v \notin Zod(n, m)[f]
        /\ Untouched(n, m, f, v) \/ (Entered(n, m, f, v) /\ v \notin {"blank", "NaN"})
        => \/ <<n, f, v>> \in Refusing \/ v = "other"
           \/ n = "ip" /\ f = "vip_type" /\ v \notin {"text", "absent"}
           \/ Wants(n, m, f) /\ v \in {"absent", "blank", "NaN"}

\* Every column that has an input is in the schema, and what an edit loads
\* and sends back means the same.
Storable(n, m) ==
    /\ \A f \in DOMAIN Dialog[n].row \cap DOMAIN Inputs(n, m) :
         f \in DOMAIN Zod(n, m) \/ <<n, f>> \in NeverStored \cup (IF m = 2 THEN NotStored ELSE {})
    /\ m = 2 => \A f \in DOMAIN Dialog[n].row \cap DOMAIN Zod(n, m) :
         \A r \in RowHas(n, f), v \in Zod(n, m)[f] :
             /\ v # "absent"
             /\ \/ v = FromRow(n, f, r)
                \/ FromRow(n, f, r) = "absent" /\ f \in DOMAIN Inputs(n, m)
                   /\ v = Inputs(n, m)[f].empty
             => \/ Means(SentAs(n, f, v)) = Means(r)
                \/ n = "snmp" /\ f \in V3Choices /\ r = "null"

\* The fields that a handler or another input looks at.
Linked(n, m) ==
    /\ "schedule_preset" \in DOMAIN Inputs(n, m) => n = "scan"
    /\ "is_vip" \in DOMAIN Inputs(n, m) => n \in VipDialogs
    /\ n \in {"scan", "discover"} => m = 1
    /\ "port" \in DOMAIN Zod(n, m) =>
          n = "winrm" /\ \A v \in Zod(n, m)["port"] : Entered(n, m, "port", v) => v = "text"

VipLinks(n, m) ==
    LET vip == {"is_vip", "vip_type", "node_bindings"} IN
    /\ vip \subseteq DOMAIN Inputs(n, m) \cap DOMAIN Dialog[n].row
    /\ "is_vip" \in DOMAIN Zod(n, m)
    /\ Inputs(n, m)["is_vip"].typed = {"true", "false"} /\ Inputs(n, m)["is_vip"].empty # "true"
    /\ Inputs(n, m)["node_bindings"].empty = "none"
    /\ m = 1 => At(Dialog[n].empty, "node_bindings") # "some"
    /\ m = 2 => /\ {"is_vip", "node_bindings"} \subseteq DOMAIN Dialog[n].load
                /\ Dialog[n].load["node_bindings"] = "none"
    /\ "vip_type" \in DOMAIN Bodies(n, m) => "null" \in Bodies(n, m)["vip_type"]
    /\ "node_bindings" \in DOMAIN Bodies(n, m) => "none" \in Bodies(n, m)["node_bindings"]

RunLinks(n, m) ==
    /\ "scan_type" \in DOMAIN Inputs(n, m) \cap DOMAIN Dialog[n].row
    /\ \A f \in DOMAIN Bodies(n, m) \ {"scan_type"} : "absent" \in Bodies(n, m)[f]

EventLinks(n, m) ==
    /\ "events" \in DOMAIN Dialog[n].row
    /\ m = 2 => "events" \in DOMAIN Dialog[n].load
    /\ "events" \in DOMAIN Inputs(n, m) \cap DOMAIN Zod(n, m)
    /\ Inputs(n, m)["events"].typed = {"blank", "text"}
    /\ Zod(n, m)["events"] \cap {"blank", "text"} = {}

Tables(n, m) ==
    /\ RowTyped(n) /\ InputsTyped(n, m) /\ DefaultsTyped(n, m)
    /\ Fillable(n, m) /\ Sendable(n, m) /\ Excusable(n, m) /\ Storable(n, m) /\ Linked(n, m)
    /\ n \in VipDialogs => VipLinks(n, m)
    /\ n = "discover" => RunLinks(n, m)
    /\ n = "webhook" => EventLinks(n, m)

LEMMA Kinds ==
    /\ NumberInput.typed = {"NaN", "num"} /\ NumberInput.empty = "NaN"
    /\ TextInput.typed = {"blank", "text"} /\ TextInput.empty = "blank"
    /\ RefSelect.typed = {"blank", "uuid"} /\ RefSelect.empty = "blank"
    /\ Select.typed = {"text"} /\ Select.empty = "text"
    /\ Checkbox.typed = {"true", "false"} /\ Checkbox.empty = "false"
    /\ \A e, t : Input(e, t).typed = t /\ Input(e, t).empty = e
  BY DEF NumberInput, TextInput, RefSelect, Select, Checkbox, Input, Boolean

LEMMA SiteTables == \A m \in DOMAIN Dialog["site"].schemas : Tables("site", m)
<1>1. /\ DOMAIN Dialog["site"].schemas = {1, 2}
      /\ Dialog["site"].row = Site
      /\ Inputs("site", 1) = All({"latitude", "longitude"}, NumberInput) ++ All(DOMAIN Site,
          TextInput)
      /\ Inputs("site", 2) = Inputs("site", 1)
      /\ Dialog["site"].empty = NoDefaults
      /\ Dialog["site"].load = [name |-> "null", code |-> "null", address |-> "blank",
          city |-> "blank", country |-> "blank", latitude |-> "absent", longitude |-> "absent"]
      /\ Zod("site", 1) = siteCreateSchema
      /\ Bodies("site", 1) = SiteCreate
      /\ Zod("site", 2) = siteUpdateSchema
      /\ Bodies("site", 2) = SiteUpdate
  BY DEF Inputs, Zod, Bodies, Dialog, SiteFormModal
<1>2. /\ DOMAIN Inputs("site", 1) = {"address", "city", "code", "country", "latitude",
            "longitude", "name"}
      /\ \A f \in {"address", "city", "code", "country", "name"} : Inputs("site",
            1)[f] = TextInput
      /\ \A f \in {"latitude", "longitude"} : Inputs("site", 1)[f] = NumberInput
  BY <1>1 DEF ++, All, Site
<1>3. /\ DOMAIN Dialog["site"].empty = {}
  BY <1>1 DEF NoDefaults
<1>4. /\ DOMAIN Zod("site", 2) = {"address", "city", "code", "country", "latitude", "longitude",
            "name"}
      /\ \A f \in {"address", "city", "country"} : Zod("site", 2)[f] = Blank(Str)
      /\ \A f \in {"code", "name"} : Zod("site", 2)[f] = Opt(Required)
      /\ \A f \in {"latitude", "longitude"} : Zod("site", 2)[f] = Nullable(ZNum)
  BY <1>1 DEF siteUpdateSchema, Optional, siteCreateSchema
<1>5. /\ DOMAIN Bodies("site", 2) = {"address", "city", "code", "country", "latitude",
            "longitude", "name"}
      /\ \A f \in {"address", "city", "code", "country", "name"} : Bodies("site",
            2)[f] = Opt(String)
      /\ \A f \in {"latitude", "longitude"} : Bodies("site", 2)[f] = Opt(Number)
  BY <1>1 DEF SiteUpdate, SiteCreate
<1>6. {<<"site", "latitude", "NaN">>, <<"site", "longitude", "NaN">>} \subseteq Refusing
  BY DEF Refusing
<1> USE DEF Opt, OrNull, Required, Blank, Str, Nullable, ZNum, Text, Choice, AnyNum, Num, Number,
    Named, String, Wants, Untouched, Entered, Starts, Besides, RowHas, FromRow, SentAs, At, Set,
    Means, VipDialogs, NeverStored, NotStored, V3Choices, Known
<1>7. RowTyped("site")
  BY <1>1 DEF RowTyped, Value, Site
<1>8. Tables("site", 1)
  <2>1. InputsTyped("site", 1)
    BY Kinds, <1>1, <1>2 DEF InputsTyped, Value
  <2>2. DefaultsTyped("site", 1)
    BY <1>1, <1>3 DEF DefaultsTyped, Value
  <2>3. Fillable("site", 1)
    BY Kinds, <1>1, <1>2 DEF Fillable, SiteCreate
  <2>4. Linked("site", 1)
    BY Kinds, <1>1, <1>2 DEF Linked, siteCreateSchema
  <2>5. Sendable("site", 1)
    BY Kinds, <1>1, <1>2, <1>3 DEF Sendable, Site, siteCreateSchema, SiteCreate
  <2>6. Excusable("site", 1)
    BY Kinds, <1>1, <1>2, <1>3, <1>6 DEF Excusable, Site, siteCreateSchema, SiteCreate
  <2>7. Storable("site", 1)
    BY Kinds, <1>1, <1>2, <1>3 DEF Storable, Site, siteCreateSchema
  <2>8. QED
    BY <1>7, <2>1, <2>2, <2>3, <2>4, <2>5, <2>6, <2>7 DEF Tables
<1>9. Tables("site", 2)
  <2>1. /\ InputsTyped("site", 2)
       /\ DefaultsTyped("site", 2)
       /\ Fillable("site", 2)
       /\ Linked("site", 2)
    BY Kinds, <1>1, <1>2, <1>4, <1>5 DEF InputsTyped, DefaultsTyped, Fillable, Linked, Value
  <2>2. Sendable("site", 2)
    BY Kinds, <1>1, <1>2, <1>4, <1>5 DEF Sendable, Site
  <2>3. Excusable("site", 2)
    BY Kinds, <1>1, <1>2, <1>4, <1>5, <1>6 DEF Excusable, Site
  <2>4. Storable("site", 2)
    BY Kinds, <1>1, <1>2, <1>4 DEF Storable, Site
  <2>5. QED
    BY <1>7, <2>1, <2>2, <2>3, <2>4 DEF Tables
<1>10. QED
  BY <1>1, <1>8, <1>9

LEMMA VlanTables == \A m \in DOMAIN Dialog["vlan"].schemas : Tables("vlan", m)
<1>1. /\ DOMAIN Dialog["vlan"].schemas = {1, 2}
      /\ Dialog["vlan"].row = VLAN
      /\ Inputs("vlan", 1) = [vlan_id |-> NumberInput, name |-> TextInput,
          description |-> TextInput, site_id |-> RefSelect]
      /\ Inputs("vlan", 2) = Inputs("vlan", 1)
      /\ Dialog["vlan"].empty = NoDefaults
      /\ Dialog["vlan"].load = [vlan_id |-> "null", name |-> "null", description |-> "blank",
          site_id |-> "absent"]
      /\ Zod("vlan", 1) = vlanCreateSchema
      /\ Bodies("vlan", 1) = VLANCreate
      /\ Zod("vlan", 2) = vlanUpdateSchema
      /\ Bodies("vlan", 2) = VLANUpdate
  BY DEF Inputs, Zod, Bodies, Dialog, VlanFormModal
<1>2. /\ DOMAIN Inputs("vlan", 1) = {"description", "name", "site_id", "vlan_id"}
      /\ \A f \in {"description", "name"} : Inputs("vlan", 1)[f] = TextInput
      /\ Inputs("vlan", 1)["site_id"] = RefSelect
      /\ Inputs("vlan", 1)["vlan_id"] = NumberInput
  BY <1>1
<1>3. /\ DOMAIN Dialog["vlan"].empty = {}
  BY <1>1 DEF NoDefaults
<1>4. /\ DOMAIN Zod("vlan", 2) = {"description", "name", "site_id", "vlan_id"}
      /\ Zod("vlan", 2)["description"] = Blank(Str)
      /\ Zod("vlan", 2)["name"] = Opt(Required)
      /\ Zod("vlan", 2)["site_id"] = Nullable(Uuid)
      /\ Zod("vlan", 2)["vlan_id"] = Opt(ZNum)
  BY <1>1 DEF vlanUpdateSchema, Optional, vlanCreateSchema
<1>5. /\ DOMAIN Bodies("vlan", 2) = {"description", "name", "site_id", "vlan_id"}
      /\ \A f \in {"description", "site_id"} : Bodies("vlan", 2)[f] = Opt(Opt(String))
      /\ Bodies("vlan", 2)["name"] = Opt(String)
      /\ Bodies("vlan", 2)["vlan_id"] = Opt(Number)
  BY <1>1 DEF VLANUpdate, VLANCreate
<1>6. {<<"vlan", "site_id", "blank">>} \subseteq Refusing
  BY DEF Refusing
<1> USE DEF Opt, OrNull, Required, Blank, Str, Nullable, ZNum, Uuid, Text, Choice, AnyNum, Num, Id,
    Number, Named, String, Wants, Untouched, Entered, Starts, Besides, RowHas, FromRow, SentAs, At,
    Set, Means, VipDialogs, NeverStored, NotStored, V3Choices, Known
<1>7. RowTyped("vlan")
  BY <1>1 DEF RowTyped, Value, VLAN
<1>8. Tables("vlan", 1)
  <2>1. InputsTyped("vlan", 1)
    BY Kinds, <1>1, <1>2 DEF InputsTyped, Value
  <2>2. DefaultsTyped("vlan", 1)
    BY <1>1, <1>3 DEF DefaultsTyped, Value
  <2>3. Fillable("vlan", 1)
    BY Kinds, <1>1, <1>2 DEF Fillable, VLANCreate
  <2>4. Linked("vlan", 1)
    BY Kinds, <1>1, <1>2 DEF Linked, vlanCreateSchema
  <2>5. Sendable("vlan", 1)
    BY Kinds, <1>1, <1>2, <1>3 DEF Sendable, VLAN, vlanCreateSchema, VLANCreate
  <2>6. Excusable("vlan", 1)
    BY Kinds, <1>1, <1>2, <1>3, <1>6 DEF Excusable, VLAN, vlanCreateSchema, VLANCreate
  <2>7. Storable("vlan", 1)
    BY Kinds, <1>1, <1>2, <1>3 DEF Storable, VLAN, vlanCreateSchema
  <2>8. QED
    BY <1>7, <2>1, <2>2, <2>3, <2>4, <2>5, <2>6, <2>7 DEF Tables
<1>9. Tables("vlan", 2)
  <2>1. /\ InputsTyped("vlan", 2)
       /\ DefaultsTyped("vlan", 2)
       /\ Fillable("vlan", 2)
       /\ Linked("vlan", 2)
    BY Kinds, <1>1, <1>2, <1>4, <1>5 DEF InputsTyped, DefaultsTyped, Fillable, Linked, Value
  <2>2. Sendable("vlan", 2)
    BY Kinds, <1>1, <1>2, <1>4, <1>5 DEF Sendable, VLAN
  <2>3. Excusable("vlan", 2)
    BY Kinds, <1>1, <1>2, <1>4, <1>5, <1>6 DEF Excusable, VLAN
  <2>4. Storable("vlan", 2)
    BY Kinds, <1>1, <1>2, <1>4 DEF Storable, VLAN
  <2>5. QED
    BY <1>7, <2>1, <2>2, <2>3, <2>4 DEF Tables
<1>10. QED
  BY <1>1, <1>8, <1>9

LEMMA SubnetTables == \A m \in DOMAIN Dialog["subnet"].schemas : Tables("subnet", m)
<1>1. /\ DOMAIN Dialog["subnet"].schemas = {1, 2}
      /\ Dialog["subnet"].row = Subnet
      /\ Inputs("subnet", 1) = (All({"name", "description", "gateway", "dns_servers"},
          TextInput) ++ All({"site_id", "vlan_id"}, RefSelect)) ++ [network_address |-> TextInput,
          prefix_length |-> NumberInput]
      /\ Inputs("subnet", 2) = All({"name", "description", "gateway", "dns_servers"},
          TextInput) ++ All({"site_id", "vlan_id"}, RefSelect)
      /\ Dialog["subnet"].empty = NoDefaults
      /\ Dialog["subnet"].load = [name |-> "null", description |-> "blank", gateway |-> "blank",
          dns_servers |-> "blank", site_id |-> "absent", vlan_id |-> "absent",
          parent_subnet_id |-> "absent"]
      /\ Zod("subnet", 1) = subnetCreateSchema
      /\ Bodies("subnet", 1) = SubnetCreate
      /\ Zod("subnet", 2) = subnetUpdateSchema
      /\ Bodies("subnet", 2) = SubnetUpdate
  BY DEF Inputs, Zod, Bodies, Dialog, SubnetFormModal
<1>2. /\ DOMAIN Inputs("subnet", 1) = {"description", "dns_servers", "gateway", "name",
            "network_address", "prefix_length", "site_id", "vlan_id"}
      /\ \A f \in {"description", "dns_servers", "gateway", "name",
            "network_address"} : Inputs("subnet", 1)[f] = TextInput
      /\ Inputs("subnet", 1)["prefix_length"] = NumberInput
      /\ \A f \in {"site_id", "vlan_id"} : Inputs("subnet", 1)[f] = RefSelect
  BY <1>1 DEF ++, All
<1>3. /\ DOMAIN Inputs("subnet", 2) = {"description", "dns_servers", "gateway", "name", "site_id",
            "vlan_id"}
      /\ \A f \in {"description", "dns_servers", "gateway", "name"} : Inputs("subnet",
            2)[f] = TextInput
      /\ \A f \in {"site_id", "vlan_id"} : Inputs("subnet", 2)[f] = RefSelect
  BY <1>1 DEF ++, All
<1>4. /\ DOMAIN Dialog["subnet"].empty = {}
  BY <1>1 DEF NoDefaults
<1>5. /\ DOMAIN Zod("subnet", 1) = {"description", "dns_servers", "gateway", "name",
            "network_address", "parent_subnet_id", "prefix_length", "site_id", "vlan_id"}
      /\ \A f \in {"description", "dns_servers"} : Zod("subnet", 1)[f] = Blank(Str)
      /\ Zod("subnet", 1)["gateway"] = Blank(Required)
      /\ \A f \in {"name", "network_address"} : Zod("subnet", 1)[f] = Required
      /\ \A f \in {"parent_subnet_id", "site_id", "vlan_id"} : Zod("subnet",
            1)[f] = Nullable(Uuid)
      /\ Zod("subnet", 1)["prefix_length"] = ZNum
  BY <1>1 DEF subnetCreateSchema, subnetUpdateSchema
<1>6. /\ DOMAIN Bodies("subnet", 1) = {"description", "dns_servers", "gateway", "name",
            "network_address", "parent_subnet_id", "prefix_length", "site_id", "vlan_id"}
      /\ \A f \in {"description", "dns_servers", "gateway", "parent_subnet_id", "site_id",
            "vlan_id"} : Bodies("subnet", 1)[f] = Opt(String)
      /\ \A f \in {"name", "network_address"} : Bodies("subnet", 1)[f] = String
      /\ Bodies("subnet", 1)["prefix_length"] = Number
  BY <1>1 DEF SubnetCreate, SubnetUpdate
<1>7. {<<"subnet", "site_id", "blank">>, <<"subnet", "vlan_id", "blank">>} \subseteq Refusing
  BY DEF Refusing
<1> USE DEF Opt, OrNull, Required, Blank, Str, Nullable, ZNum, Uuid, Text, Choice, AnyNum, Num, Id,
    Number, Named, String, Wants, Untouched, Entered, Starts, Besides, RowHas, FromRow, SentAs, At,
    Set, Means, VipDialogs, NeverStored, NotStored, V3Choices, Known
<1>8. RowTyped("subnet")
  BY <1>1 DEF RowTyped, Value, Subnet
<1>9. Tables("subnet", 1)
  <2>1. InputsTyped("subnet", 1)
    BY Kinds, <1>1, <1>2 DEF InputsTyped, Value
  <2>2. DefaultsTyped("subnet", 1)
    BY <1>1, <1>4 DEF DefaultsTyped, Value
  <2>3. Fillable("subnet", 1)
    BY Kinds, <1>1, <1>2, <1>6 DEF Fillable
  <2>4. Linked("subnet", 1)
    BY Kinds, <1>1, <1>2, <1>5 DEF Linked
  <2>5. Sendable("subnet", 1)
    BY Kinds, <1>1, <1>2, <1>4, <1>5, <1>6 DEF Sendable, Subnet
  <2>6. Excusable("subnet", 1)
    BY Kinds, <1>1, <1>2, <1>4, <1>5, <1>6, <1>7 DEF Excusable, Subnet
  <2>7. Storable("subnet", 1)
    BY Kinds, <1>1, <1>2, <1>4, <1>5 DEF Storable, Subnet
  <2>8. QED
    BY <1>8, <2>1, <2>2, <2>3, <2>4, <2>5, <2>6, <2>7 DEF Tables
<1>10. Tables("subnet", 2)
  <2>1. InputsTyped("subnet", 2)
    BY Kinds, <1>1, <1>3 DEF InputsTyped, Value
  <2>2. DefaultsTyped("subnet", 2)
    BY <1>1 DEF DefaultsTyped, Value
  <2>3. Fillable("subnet", 2)
    BY Kinds, <1>1, <1>3 DEF Fillable, SubnetUpdate
  <2>4. Linked("subnet", 2)
    BY Kinds, <1>1, <1>3 DEF Linked, subnetUpdateSchema
  <2>5. Sendable("subnet", 2)
    BY Kinds, <1>1, <1>3 DEF Sendable, Subnet, subnetUpdateSchema, SubnetUpdate
  <2>6. Excusable("subnet", 2)
    BY Kinds, <1>1, <1>3, <1>7 DEF Excusable, Subnet, subnetUpdateSchema, SubnetUpdate
  <2>7. Storable("subnet", 2)
    BY Kinds, <1>1, <1>3 DEF Storable, Subnet, subnetUpdateSchema
  <2>8. QED
    BY <1>8, <2>1, <2>2, <2>3, <2>4, <2>5, <2>6, <2>7 DEF Tables
<1>11. QED
  BY <1>1, <1>9, <1>10

LEMMA IpTables == \A m \in DOMAIN Dialog["ip"].schemas : Tables("ip", m)
<1>1. /\ DOMAIN Dialog["ip"].schemas = {1, 2}
      /\ Dialog["ip"].row = IPAddress
      /\ Inputs("ip", 1) = ((All(IpTexts,
          TextInput) ++ [status |-> Select]) ++ VipInputs) ++ [address |-> TextInput,
          subnet_id |-> RefSelect]
      /\ Inputs("ip", 2) = (All(IpTexts, TextInput) ++ [status |-> Select]) ++ VipInputs
      /\ Dialog["ip"].empty = [node_bindings |-> "none"]
      /\ Dialog["ip"].load = All(IpTexts, "blank") ++ [status |-> "null", subnet_id |-> "null",
          is_vip |-> "false", vip_type |-> "absent", node_bindings |-> "none"]
      /\ Zod("ip", 1) = ipAddressCreateSchema
      /\ Bodies("ip", 1) = IPAddressCreate
      /\ Zod("ip", 2) = ipAddressUpdateSchema
      /\ Bodies("ip", 2) = IPAddressUpdate
  BY DEF Inputs, Zod, Bodies, Dialog, IpFormModal
<1>2. /\ DOMAIN Inputs("ip", 1) = {"address", "assigned_to", "description", "device_type",
            "hostname", "is_vip", "mac_address", "node_bindings", "status", "subnet_id",
            "vip_type"}
      /\ \A f \in {"address", "assigned_to", "description", "device_type", "hostname",
            "mac_address", "vip_type"} : Inputs("ip", 1)[f] = TextInput
      /\ Inputs("ip", 1)["is_vip"] = Input("absent", Boolean)
      /\ Inputs("ip", 1)["node_bindings"] = Input("none", List)
      /\ Inputs("ip", 1)["status"] = Select
      /\ Inputs("ip", 1)["subnet_id"] = RefSelect
  BY <1>1 DEF ++, All, IpTexts, VipInputs
<1>3. /\ DOMAIN Inputs("ip", 2) = {"assigned_to", "description", "device_type", "hostname",
            "is_vip", "mac_address", "node_bindings", "status", "vip_type"}
      /\ \A f \in {"assigned_to", "description", "device_type", "hostname", "mac_address",
            "vip_type"} : Inputs("ip", 2)[f] = TextInput
      /\ Inputs("ip", 2)["is_vip"] = Input("absent", Boolean)
      /\ Inputs("ip", 2)["node_bindings"] = Input("none", List)
      /\ Inputs("ip", 2)["status"] = Select
  BY <1>1 DEF ++, All, IpTexts, VipInputs
<1>4. /\ DOMAIN Dialog["ip"].load = {"assigned_to", "description", "device_type", "hostname",
            "is_vip", "mac_address", "node_bindings", "status", "subnet_id", "vip_type"}
      /\ \A f \in {"assigned_to", "description", "device_type", "hostname",
            "mac_address"} : Dialog["ip"].load[f] = "blank"
      /\ Dialog["ip"].load["is_vip"] = "false"
      /\ Dialog["ip"].load["node_bindings"] = "none"
      /\ \A f \in {"status", "subnet_id"} : Dialog["ip"].load[f] = "null"
      /\ Dialog["ip"].load["vip_type"] = "absent"
  BY <1>1 DEF ++, All, IpTexts
<1>5. /\ DOMAIN Zod("ip", 2) = {"assigned_to", "description", "device_type", "hostname", "is_vip",
            "mac_address", "node_bindings", "status", "subnet_id", "vip_type"}
      /\ \A f \in {"assigned_to", "description", "device_type", "hostname"} : Zod("ip",
            2)[f] = Blank(Str)
      /\ Zod("ip", 2)["is_vip"] = Default(Boolean)
      /\ Zod("ip", 2)["mac_address"] = Blank(Required)
      /\ Zod("ip", 2)["node_bindings"] = Nullable(List)
      /\ Zod("ip", 2)["status"] = Opt(Enum)
      /\ Zod("ip", 2)["subnet_id"] = Opt(Uuid)
      /\ Zod("ip", 2)["vip_type"] = Nullable(Enum)
  BY <1>1 DEF ipAddressUpdateSchema, ipAddressCreateSchema
<1>6. /\ DOMAIN Bodies("ip", 2) = {"assigned_to", "custom_fields", "description", "device_type",
            "hostname", "is_vip", "mac_address", "node_bindings", "status", "subnet_id", "tags",
            "vip_type", "vrf_id"}
      /\ \A f \in {"assigned_to", "description", "device_type", "hostname", "mac_address",
            "vrf_id"} : Bodies("ip", 2)[f] = Opt(OrNull(String))
      /\ \A f \in {"custom_fields", "tags"} : Bodies("ip", 2)[f] = Opt(List)
      /\ Bodies("ip", 2)["is_vip"] = Opt(Boolean)
      /\ Bodies("ip", 2)["node_bindings"] = Opt(OrNull(List))
      /\ \A f \in {"status", "subnet_id"} : Bodies("ip", 2)[f] = Opt(String)
      /\ Bodies("ip", 2)["vip_type"] = Opt(OrNull(Text))
  BY <1>1 DEF IPAddressUpdate, IPAddress, IPAddressCreate
<1> USE DEF Opt, OrNull, Required, Blank, Str, Nullable, Default, Uuid, Enum, Text, Choice, AnyNum,
    Id, List, Boolean, Named, String, Wants, Untouched, Entered, Starts, Besides, RowHas, FromRow,
    SentAs, At, Set, Means, VipDialogs, NeverStored, NotStored, V3Choices, Known
<1>7. RowTyped("ip")
  BY <1>1 DEF RowTyped, Value, IPAddress
<1>8. Tables("ip", 1)
  <2>1. /\ InputsTyped("ip", 1)
       /\ DefaultsTyped("ip", 1)
       /\ Fillable("ip", 1)
       /\ Linked("ip", 1)
    BY Kinds, <1>1, <1>2 DEF InputsTyped, DefaultsTyped, Fillable, Linked, ipAddressCreateSchema,
       IPAddressCreate, Value
  <2>2. Sendable("ip", 1)
    BY Kinds, <1>1, <1>2 DEF Sendable, IPAddress, ipAddressCreateSchema, IPAddressCreate
  <2>3. Excusable("ip", 1)
    BY Kinds, <1>1, <1>2 DEF Excusable, IPAddress, ipAddressCreateSchema, IPAddressCreate
  <2>4. Storable("ip", 1)
    BY Kinds, <1>1, <1>2 DEF Storable, IPAddress, ipAddressCreateSchema
  <2>5. VipLinks("ip", 1)
    BY Kinds, <1>1, <1>2 DEF VipLinks, IPAddress, ipAddressCreateSchema, IPAddressCreate
  <2>6. QED
    BY <1>7, <2>1, <2>2, <2>3, <2>4, <2>5 DEF Tables
<1>9. Tables("ip", 2)
  <2>1. /\ InputsTyped("ip", 2)
       /\ DefaultsTyped("ip", 2)
       /\ Fillable("ip", 2)
       /\ Linked("ip", 2)
    BY Kinds, <1>1, <1>3, <1>4, <1>5, <1>6 DEF InputsTyped, DefaultsTyped, Fillable, Linked, Value
  <2>2. Sendable("ip", 2)
    BY Kinds, <1>1, <1>3, <1>4, <1>5, <1>6 DEF Sendable, IPAddress
  <2>3. Excusable("ip", 2)
    BY Kinds, <1>1, <1>3, <1>4, <1>5, <1>6, SMTT(30) DEF Excusable, IPAddress
  <2>4. Storable("ip", 2)
    BY Kinds, <1>1, <1>3, <1>4, <1>5 DEF Storable, IPAddress
  <2>5. VipLinks("ip", 2)
    BY Kinds, <1>1, <1>3, <1>4, <1>5, <1>6 DEF VipLinks, IPAddress
  <2>6. QED
    BY <1>7, <2>1, <2>2, <2>3, <2>4, <2>5 DEF Tables
<1>10. QED
  BY <1>1, <1>8, <1>9

LEMMA RecordTables == \A m \in DOMAIN Dialog["record"].schemas : Tables("record", m)
<1>1. /\ DOMAIN Dialog["record"].schemas = {2}
      /\ Dialog["record"].row = IPAddress
      /\ Inputs("record", 2) = (All(IpTexts,
          TextInput) ++ VipOfRecord) ++ [custom_fields |-> CustomFieldsEditor,
          tags |-> TagSelector, status |-> Select, subnet_id |-> Input("uuid", {"uuid"}),
          vrf_id |-> RefSelect]
      /\ Dialog["record"].load = RecordLoaded
      /\ Zod("record", 2) = All(DOMAIN Inputs("record", 2), Value)
      /\ Bodies("record", 2) = IPAddressUpdate
  BY DEF Inputs, Zod, Bodies, Dialog, EditIpModal, Edited, All, ++
<1>2. /\ DOMAIN Inputs("record", 2) = {"assigned_to", "custom_fields", "description",
            "device_type", "hostname", "is_vip", "mac_address", "node_bindings", "status",
            "subnet_id", "tags", "vip_type", "vrf_id"}
      /\ \A f \in {"assigned_to", "description", "device_type", "hostname", "mac_address",
            "vip_type"} : Inputs("record", 2)[f] = TextInput
      /\ \A f \in {"custom_fields", "node_bindings", "tags"} : Inputs("record",
            2)[f] = Input("none", List)
      /\ Inputs("record", 2)["is_vip"] = Checkbox
      /\ Inputs("record", 2)["status"] = Select
      /\ Inputs("record", 2)["subnet_id"] = Input("uuid", {"uuid"})
      /\ Inputs("record", 2)["vrf_id"] = RefSelect
  BY <1>1 DEF ++, All, IpTexts, VipOfRecord, CustomFieldsEditor, TagSelector
<1>3. /\ DOMAIN Dialog["record"].load = {"assigned_to", "custom_fields", "description",
            "device_type", "hostname", "is_vip", "mac_address", "node_bindings", "status",
            "subnet_id", "tags", "vip_type", "vrf_id"}
      /\ \A f \in {"assigned_to", "description", "device_type", "hostname", "mac_address",
            "vip_type", "vrf_id"} : Dialog["record"].load[f] = "blank"
      /\ \A f \in {"custom_fields", "node_bindings", "tags"} : Dialog["record"].load[f] = "none"
      /\ Dialog["record"].load["is_vip"] = "false"
      /\ \A f \in {"status", "subnet_id"} : Dialog["record"].load[f] = "null"
  BY <1>1 DEF ++, RecordLoaded, All, IpTexts
<1>4. /\ DOMAIN Zod("record", 2) = {"assigned_to", "custom_fields", "description", "device_type",
            "hostname", "is_vip", "mac_address", "node_bindings", "status", "subnet_id", "tags",
            "vip_type", "vrf_id"}
      /\ \A f \in {"assigned_to", "custom_fields", "description", "device_type", "hostname",
            "is_vip", "mac_address", "node_bindings", "status", "subnet_id", "tags", "vip_type",
            "vrf_id"} : Zod("record", 2)[f] = Value
  BY <1>1, <1>2 DEF All
<1>5. /\ DOMAIN Bodies("record", 2) = {"assigned_to", "custom_fields", "description",
            "device_type", "hostname", "is_vip", "mac_address", "node_bindings", "status",
            "subnet_id", "tags", "vip_type", "vrf_id"}
      /\ \A f \in {"assigned_to", "description", "device_type", "hostname", "mac_address",
            "vrf_id"} : Bodies("record", 2)[f] = Opt(OrNull(String))
      /\ \A f \in {"custom_fields", "tags"} : Bodies("record", 2)[f] = Opt(List)
      /\ Bodies("record", 2)["is_vip"] = Opt(Boolean)
      /\ Bodies("record", 2)["node_bindings"] = Opt(OrNull(List))
      /\ \A f \in {"status", "subnet_id"} : Bodies("record", 2)[f] = Opt(String)
      /\ Bodies("record", 2)["vip_type"] = Opt(OrNull(Text))
  BY <1>1 DEF IPAddressUpdate, IPAddress, IPAddressCreate
<1> USE DEF Opt, OrNull, Text, Choice, AnyNum, Id, Object, List, Boolean, Number, Named, String,
    Wants, Untouched, Entered, Starts, Besides, RowHas, FromRow, SentAs, At, Set, Means,
    VipDialogs, NeverStored, NotStored, V3Choices, Known
<1>6. RowTyped("record")
  BY <1>1 DEF RowTyped, Value, IPAddress
<1>7. Tables("record", 2)
  <2>1. InputsTyped("record", 2)
    BY Kinds, <1>1, <1>2 DEF InputsTyped, Value
  <2>2. DefaultsTyped("record", 2)
    BY <1>1, <1>3 DEF DefaultsTyped, Value
  <2>3. Fillable("record", 2)
    BY Kinds, <1>1, <1>2, <1>5 DEF Fillable
  <2>4. Linked("record", 2)
    BY Kinds, <1>1, <1>2, <1>4 DEF Linked
  <2>5. Sendable("record", 2)
    BY Kinds, <1>1, <1>2, <1>3, <1>4, <1>5 DEF Sendable, IPAddress
  <2>6. Excusable("record", 2)
    BY Kinds, <1>1, <1>2, <1>3, <1>4, <1>5, <1>6, <2>1, <2>2, SMTT(30) DEF Excusable, InputsTyped,
       DefaultsTyped, RowTyped, Value
  <2>7. Storable("record", 2)
    BY Kinds, <1>1, <1>2, <1>3, <1>4 DEF Storable, IPAddress
  <2>8. VipLinks("record", 2)
    BY Kinds, <1>1, <1>2, <1>3, <1>4, <1>5 DEF VipLinks, IPAddress
  <2>9. QED
    BY <1>6, <2>1, <2>2, <2>3, <2>4, <2>5, <2>6, <2>7, <2>8 DEF Tables
<1>8. QED
  BY <1>1, <1>7

LEMMA AllocateTables == \A m \in DOMAIN Dialog["allocate"].schemas : Tables("allocate", m)
<1>1. /\ DOMAIN Dialog["allocate"].schemas = {1}
      /\ Dialog["allocate"].row = IPAddress
      /\ Inputs("allocate", 1) = All(IpTexts \ {"mac_address"},
          TextInput) ++ [subnet_id |-> RefSelect]
      /\ Dialog["allocate"].empty = NoDefaults
      /\ Zod("allocate", 1) = ipAllocationSchema
      /\ Bodies("allocate", 1) = IPAllocationRequest
  BY DEF Inputs, Zod, Bodies, Dialog, AllocateIpModal
<1>2. /\ DOMAIN Inputs("allocate", 1) = {"assigned_to", "description", "device_type", "hostname",
            "subnet_id"}
      /\ \A f \in {"assigned_to", "description", "device_type", "hostname"} : Inputs("allocate",
            1)[f] = TextInput
      /\ Inputs("allocate", 1)["subnet_id"] = RefSelect
  BY <1>1 DEF ++, All, IpTexts
<1>3. /\ DOMAIN Dialog["allocate"].empty = {}
  BY <1>1 DEF NoDefaults
<1> USE DEF Opt, OrNull, Blank, Str, Uuid, Text, Choice, AnyNum, Id, List, Boolean, Named, String,
    Wants, Untouched, Entered, Starts, Besides, RowHas, FromRow, SentAs, At, Set, Means,
    VipDialogs, NeverStored, NotStored, V3Choices, Known
<1>4. RowTyped("allocate")
  BY <1>1 DEF RowTyped, Value, IPAddress
<1>5. Tables("allocate", 1)
  <2>1. InputsTyped("allocate", 1)
    BY Kinds, <1>1, <1>2 DEF InputsTyped, Value
  <2>2. DefaultsTyped("allocate", 1)
    BY <1>1, <1>3 DEF DefaultsTyped, Value
  <2>3. Fillable("allocate", 1)
    BY Kinds, <1>1, <1>2 DEF Fillable, IPAllocationRequest
  <2>4. Linked("allocate", 1)
    BY Kinds, <1>1, <1>2 DEF Linked, ipAllocationSchema
  <2>5. Sendable("allocate", 1)
    BY Kinds, <1>1, <1>2, <1>3 DEF Sendable, IPAddress, ipAllocationSchema, IPAllocationRequest
  <2>6. Excusable("allocate", 1)
    BY Kinds, <1>1, <1>2, <1>3 DEF Excusable, IPAddress, ipAllocationSchema, IPAllocationRequest
  <2>7. Storable("allocate", 1)
    BY Kinds, <1>1, <1>2, <1>3 DEF Storable, IPAddress, ipAllocationSchema
  <2>8. QED
    BY <1>4, <2>1, <2>2, <2>3, <2>4, <2>5, <2>6, <2>7 DEF Tables
<1>6. QED
  BY <1>1, <1>5

LEMMA ScanTables == \A m \in DOMAIN Dialog["scan"].schemas : Tables("scan", m)
<1>1. /\ DOMAIN Dialog["scan"].schemas = {1}
      /\ Dialog["scan"].row = DiscoveryScan
      /\ Inputs("scan", 1) = [subnet_id |-> RefSelect, scan_type |-> Input("text", {"text",
          "snmp"}), snmp_credential_id |-> RefSelect, schedule_time |-> TextInput,
          schedule_preset |-> Input("off", {"off", "daily", "custom"}),
          interval_minutes |-> NumberInput]
      /\ Dialog["scan"].empty = [is_scheduled |-> "false", is_recursive |-> "false",
          schedule_preset |-> "off"]
      /\ Zod("scan", 1) = discoveryScanCreateSchema
      /\ Bodies("scan", 1) = DiscoveryScanCreate
  BY DEF Inputs, Zod, Bodies, Dialog, ScanForm
<1>2. /\ DOMAIN Inputs("scan", 1) = {"interval_minutes", "scan_type", "schedule_preset",
            "schedule_time", "snmp_credential_id", "subnet_id"}
      /\ Inputs("scan", 1)["interval_minutes"] = NumberInput
      /\ Inputs("scan", 1)["scan_type"] = Input("text", {"snmp", "text"})
      /\ Inputs("scan", 1)["schedule_preset"] = Input("off", {"custom", "daily", "off"})
      /\ Inputs("scan", 1)["schedule_time"] = TextInput
      /\ \A f \in {"snmp_credential_id", "subnet_id"} : Inputs("scan", 1)[f] = RefSelect
  BY <1>1
<1>3. {<<"scan", "snmp_credential_id", "blank">>, <<"scan", "interval_minutes",
        "NaN">>} \subseteq Refusing
  BY DEF Refusing
<1> USE DEF Opt, OrNull, Str, Nullable, Default, ZNum, Uuid, Enum, Text, Choice, AnyNum, Num, Id,
    Boolean, Number, Named, String, Wants, Untouched, Entered, Starts, Besides, RowHas, FromRow,
    SentAs, At, Set, Means, VipDialogs, NeverStored, NotStored, V3Choices, Known
<1>4. RowTyped("scan")
  BY <1>1 DEF RowTyped, Value, DiscoveryScan
<1>5. Tables("scan", 1)
  <2>1. /\ InputsTyped("scan", 1)
       /\ DefaultsTyped("scan", 1)
       /\ Fillable("scan", 1)
       /\ Linked("scan", 1)
    BY Kinds, <1>1, <1>2 DEF InputsTyped, DefaultsTyped, Fillable, Linked,
       discoveryScanCreateSchema, DiscoveryScanCreate, Value
  <2>2. Sendable("scan", 1)
    BY Kinds, <1>1, <1>2 DEF Sendable, DiscoveryScan, discoveryScanCreateSchema,
       DiscoveryScanCreate
  <2>3. Excusable("scan", 1)
    BY Kinds, <1>1, <1>2, <1>3 DEF Excusable, DiscoveryScan, discoveryScanCreateSchema,
       DiscoveryScanCreate
  <2>4. Storable("scan", 1)
    BY Kinds, <1>1, <1>2 DEF Storable, DiscoveryScan, discoveryScanCreateSchema
  <2>5. QED
    BY <1>4, <2>1, <2>2, <2>3, <2>4 DEF Tables
<1>6. QED
  BY <1>1, <1>5

LEMMA DiscoverTables == \A m \in DOMAIN Dialog["discover"].schemas : Tables("discover", m)
<1>1. /\ DOMAIN Dialog["discover"].schemas = {1}
      /\ Dialog["discover"].row = DiscoveryRun
      /\ Inputs("discover", 1) = All({"subnet_id", "snmp_credential_id", "winrm_credential_id"},
          RefSelect) ++ [scan_type |-> Input("snmp", {"text", "snmp"}), by_subnet |-> Checkbox,
          target_ips |-> Input("none", List), snmp_community |-> TextInput]
      /\ Dialog["discover"].empty = All({"subnet_id", "snmp_credential_id",
          "winrm_credential_id"}, "blank") ++ [scan_type |-> "snmp", by_subnet |-> "false",
          target_ips |-> "none", snmp_community |-> "text"]
      /\ Zod("discover", 1) = All(DOMAIN Dialog["discover"].empty, Value)
      /\ Bodies("discover", 1) = DiscoveryRunRequest
  BY DEF Inputs, Zod, Bodies, Dialog, RunDiscoveryModal, All, ++
<1>2. /\ DOMAIN Inputs("discover", 1) = {"by_subnet", "scan_type", "snmp_community",
            "snmp_credential_id", "subnet_id", "target_ips", "winrm_credential_id"}
      /\ Inputs("discover", 1)["by_subnet"] = Checkbox
      /\ Inputs("discover", 1)["scan_type"] = Input("snmp", {"snmp", "text"})
      /\ Inputs("discover", 1)["snmp_community"] = TextInput
      /\ \A f \in {"snmp_credential_id", "subnet_id", "winrm_credential_id"} : Inputs("discover",
            1)[f] = RefSelect
      /\ Inputs("discover", 1)["target_ips"] = Input("none", List)
  BY <1>1 DEF ++, All
<1>3. /\ DOMAIN Dialog["discover"].empty = {"by_subnet", "scan_type", "snmp_community",
            "snmp_credential_id", "subnet_id", "target_ips", "winrm_credential_id"}
      /\ Dialog["discover"].empty["by_subnet"] = "false"
      /\ Dialog["discover"].empty["scan_type"] = "snmp"
      /\ Dialog["discover"].empty["snmp_community"] = "text"
      /\ \A f \in {"snmp_credential_id", "subnet_id",
            "winrm_credential_id"} : Dialog["discover"].empty[f] = "blank"
      /\ Dialog["discover"].empty["target_ips"] = "none"
  BY <1>1 DEF ++, All
<1>4. /\ DOMAIN Zod("discover", 1) = {"by_subnet", "scan_type", "snmp_community",
            "snmp_credential_id", "subnet_id", "target_ips", "winrm_credential_id"}
      /\ \A f \in {"by_subnet", "scan_type", "snmp_community", "snmp_credential_id", "subnet_id",
            "target_ips", "winrm_credential_id"} : Zod("discover", 1)[f] = Value
  BY <1>1, <1>3 DEF All
<1>5. /\ DOMAIN Bodies("discover", 1) = {"scan_type", "snmp_community", "snmp_credential_id",
            "subnet_id", "target_ips", "winrm_credential_id"}
      /\ Bodies("discover", 1)["scan_type"] = String
      /\ \A f \in {"snmp_community", "snmp_credential_id", "subnet_id",
            "winrm_credential_id"} : Bodies("discover", 1)[f] = Opt(String)
      /\ Bodies("discover", 1)["target_ips"] = Opt(List)
  BY <1>1 DEF DiscoveryRunRequest, DiscoveryRun
<1> USE DEF Opt, OrNull, Required, Blank, Str, Nullable, Default, ZNum, Uuid, Enum, Text, Choice,
    AnyNum, Num, Id, Object, List, Boolean, Number, Named, String, Wants, Untouched, Entered,
    Starts, Besides, RowHas, FromRow, SentAs, At, Set, Means, VipDialogs, NeverStored, NotStored,
    V3Choices, Known
<1>6. RowTyped("discover")
  BY <1>1 DEF RowTyped, Value, DiscoveryRun
<1>7. Tables("discover", 1)
  <2>1. InputsTyped("discover", 1)
    BY Kinds, <1>1, <1>2 DEF InputsTyped, Value
  <2>2. DefaultsTyped("discover", 1)
    BY <1>1, <1>3 DEF DefaultsTyped, Value
  <2>3. Fillable("discover", 1)
    BY Kinds, <1>1, <1>2, <1>5 DEF Fillable
  <2>4. Linked("discover", 1)
    BY Kinds, <1>1, <1>2, <1>4 DEF Linked
  <2>5. Sendable("discover", 1)
    BY Kinds, <1>1, <1>2, <1>3, <1>4, <1>5 DEF Sendable, DiscoveryRun
  <2>6. Excusable("discover", 1)
    BY Kinds, <1>1, <1>2, <1>3, <1>4, <1>5, <1>6, <2>1, <2>2, SMTT(30) DEF Excusable, InputsTyped,
       DefaultsTyped, RowTyped, Value
  <2>7. Storable("discover", 1)
    BY Kinds, <1>1, <1>2, <1>3, <1>4 DEF Storable, DiscoveryRun
  <2>8. RunLinks("discover", 1)
    BY Kinds, <1>1, <1>2, <1>3, <1>4, <1>5 DEF RunLinks, DiscoveryRun
  <2>9. QED
    BY <1>6, <2>1, <2>2, <2>3, <2>4, <2>5, <2>6, <2>7, <2>8 DEF Tables
<1>8. QED
  BY <1>1, <1>7

LEMMA UserTables == \A m \in DOMAIN Dialog["user"].schemas : Tables("user", m)
<1>1. /\ DOMAIN Dialog["user"].schemas = {1, 2}
      /\ Dialog["user"].row = UserRow
      /\ Inputs("user", 1) = (All({"display_name", "email"},
          TextInput) ++ [role |-> Select]) ++ [password |-> TextInput]
      /\ Inputs("user", 2) = (All({"display_name", "email"},
          TextInput) ++ [role |-> Select]) ++ InputsOfEdit
      /\ Dialog["user"].empty = NoDefaults
      /\ Dialog["user"].load = All(DOMAIN UserRow, "null")
      /\ Zod("user", 1) = adminUserCreateSchema
      /\ Bodies("user", 1) = UserCreate
      /\ Zod("user", 2) = adminUserUpdateSchema
      /\ Bodies("user", 2) = UserUpdate
  BY DEF Inputs, Zod, Bodies, Dialog, UserFormModal
<1>2. /\ DOMAIN Inputs("user", 1) = {"display_name", "email", "password", "role"}
      /\ \A f \in {"display_name", "email", "password"} : Inputs("user", 1)[f] = TextInput
      /\ Inputs("user", 1)["role"] = Select
  BY <1>1 DEF ++, All
<1>3. /\ DOMAIN Inputs("user", 2) = {"display_name", "email", "is_active", "mfa_enforced",
            "password", "role"}
      /\ \A f \in {"display_name", "email", "password"} : Inputs("user", 2)[f] = TextInput
      /\ \A f \in {"is_active", "mfa_enforced"} : Inputs("user", 2)[f] = Checkbox
      /\ Inputs("user", 2)["role"] = Select
  BY <1>1 DEF ++, All, InputsOfEdit
<1>4. /\ DOMAIN Dialog["user"].empty = {}
  BY <1>1 DEF NoDefaults
<1>5. /\ DOMAIN Dialog["user"].load = {"display_name", "email", "is_active", "mfa_enforced",
            "role"}
      /\ \A f \in {"display_name", "email", "is_active", "mfa_enforced",
            "role"} : Dialog["user"].load[f] = "null"
  BY <1>1 DEF All, UserRow
<1> USE DEF Opt, Str, Required, Blank, Enum, Text, Choice, Boolean, Named, String, Wants,
    Untouched, Entered, Starts, Besides, RowHas, FromRow, SentAs, At, Set, Means, VipDialogs,
    NeverStored, NotStored, V3Choices, Known
<1>6. RowTyped("user")
  BY <1>1 DEF RowTyped, Value, UserRow
<1>7. Tables("user", 1)
  <2>1. InputsTyped("user", 1)
    BY Kinds, <1>1, <1>2 DEF InputsTyped, Value
  <2>2. DefaultsTyped("user", 1)
    BY <1>1, <1>4 DEF DefaultsTyped, Value
  <2>3. Fillable("user", 1)
    BY Kinds, <1>1, <1>2 DEF Fillable, UserCreate
  <2>4. Linked("user", 1)
    BY Kinds, <1>1, <1>2 DEF Linked, adminUserCreateSchema
  <2>5. Sendable("user", 1)
    BY Kinds, <1>1, <1>2, <1>4 DEF Sendable, UserRow, adminUserCreateSchema, UserCreate
  <2>6. Excusable("user", 1)
    BY Kinds, <1>1, <1>2, <1>4 DEF Excusable, UserRow, adminUserCreateSchema, UserCreate
  <2>7. Storable("user", 1)
    BY Kinds, <1>1, <1>2, <1>4 DEF Storable, UserRow, adminUserCreateSchema
  <2>8. QED
    BY <1>6, <2>1, <2>2, <2>3, <2>4, <2>5, <2>6, <2>7 DEF Tables
<1>8. Tables("user", 2)
  <2>1. /\ InputsTyped("user", 2)
       /\ DefaultsTyped("user", 2)
       /\ Fillable("user", 2)
       /\ Linked("user", 2)
    BY Kinds, <1>1, <1>3, <1>5 DEF InputsTyped, DefaultsTyped, Fillable, Linked,
       adminUserUpdateSchema, UserUpdate, Value
  <2>2. Sendable("user", 2)
    BY Kinds, <1>1, <1>3, <1>5 DEF Sendable, UserRow, adminUserUpdateSchema, UserUpdate
  <2>3. Excusable("user", 2)
    BY Kinds, <1>1, <1>3, <1>5 DEF Excusable, UserRow, adminUserUpdateSchema, UserUpdate
  <2>4. Storable("user", 2)
    BY Kinds, <1>1, <1>3, <1>5 DEF Storable, UserRow, adminUserUpdateSchema
  <2>5. QED
    BY <1>6, <2>1, <2>2, <2>3, <2>4 DEF Tables
<1>9. QED
  BY <1>1, <1>7, <1>8

LEMMA SnmpTables == \A m \in DOMAIN Dialog["snmp"].schemas : Tables("snmp", m)
<1>1. /\ DOMAIN Dialog["snmp"].schemas = {1, 2}
      /\ Dialog["snmp"].row = SnmpCredential
      /\ Inputs("snmp", 1) = (All({"name", "community_string"},
          TextInput) ++ [version |-> Input("text", {"text", "v3"})]) ++ V3Inputs
      /\ Inputs("snmp", 2) = Inputs("snmp", 1)
      /\ Dialog["snmp"].empty = [version |-> "text"]
      /\ Dialog["snmp"].load = ([version |-> "null", name |-> "null",
          community_string |-> "blank", v3_security_level |-> "authPriv"] ++ All(V3Texts,
          "blank")) ++ All(V3Choices, "text")
      /\ Zod("snmp", 1) = snmpCreateSchema
      /\ Bodies("snmp", 1) = SnmpCredentialCreate
      /\ Zod("snmp", 2) = snmpCreateSchema
      /\ Bodies("snmp", 2) = SnmpCredentialUpdate
  BY DEF Inputs, Zod, Bodies, Dialog, SnmpFormModal
<1>2. /\ DOMAIN Inputs("snmp", 1) = {"community_string", "name", "v3_auth_passphrase",
            "v3_auth_protocol", "v3_priv_passphrase", "v3_priv_protocol", "v3_security_level",
            "v3_username", "version"}
      /\ \A f \in {"community_string", "name", "v3_auth_passphrase", "v3_priv_passphrase",
            "v3_username"} : Inputs("snmp", 1)[f] = TextInput
      /\ \A f \in {"v3_auth_protocol", "v3_priv_protocol"} : Inputs("snmp", 1)[f] = Select
      /\ Inputs("snmp", 1)["v3_security_level"] = Input("text", {"authPriv", "text"})
      /\ Inputs("snmp", 1)["version"] = Input("text", {"text", "v3"})
  BY <1>1 DEF ++, All, V3Inputs, V3Texts, V3Choices
<1>3. /\ DOMAIN Dialog["snmp"].load = {"community_string", "name", "v3_auth_passphrase",
            "v3_auth_protocol", "v3_priv_passphrase", "v3_priv_protocol", "v3_security_level",
            "v3_username", "version"}
      /\ \A f \in {"community_string", "v3_auth_passphrase", "v3_priv_passphrase",
            "v3_username"} : Dialog["snmp"].load[f] = "blank"
      /\ \A f \in {"name", "version"} : Dialog["snmp"].load[f] = "null"
      /\ \A f \in {"v3_auth_protocol", "v3_priv_protocol"} : Dialog["snmp"].load[f] = "text"
      /\ Dialog["snmp"].load["v3_security_level"] = "authPriv"
  BY <1>1 DEF ++, All, V3Texts, V3Choices
<1>4. /\ DOMAIN Bodies("snmp", 1) = {"community_string", "name", "v3_auth_passphrase",
            "v3_auth_protocol", "v3_priv_passphrase", "v3_priv_protocol", "v3_security_level",
            "v3_username", "version"}
      /\ \A f \in {"community_string", "v3_auth_passphrase", "v3_auth_protocol",
            "v3_priv_passphrase", "v3_priv_protocol", "v3_security_level",
            "v3_username"} : Bodies("snmp", 1)[f] = Opt(String)
      /\ \A f \in {"name", "version"} : Bodies("snmp", 1)[f] = String
  BY <1>1 DEF SnmpCredentialCreate, SnmpCredential
<1>5. /\ DOMAIN Bodies("snmp", 2) = {"community_string", "name", "v3_auth_passphrase",
            "v3_auth_protocol", "v3_priv_passphrase", "v3_priv_protocol", "v3_security_level",
            "v3_username", "version"}
      /\ \A f \in {"community_string", "name", "v3_auth_passphrase", "v3_auth_protocol",
            "v3_priv_passphrase", "v3_priv_protocol", "v3_security_level", "v3_username",
            "version"} : Bodies("snmp", 2)[f] = Opt(String)
  BY <1>1 DEF SnmpCredentialUpdate, SnmpCredential
<1> USE DEF Opt, OrNull, Required, Blank, Str, Enum, Text, Choice, AnyNum, Named, String, Wants,
    Untouched, Entered, Starts, Besides, RowHas, FromRow, SentAs, At, Set, Means, VipDialogs,
    NeverStored, NotStored, V3Choices, Known
<1>6. RowTyped("snmp")
  BY <1>1 DEF RowTyped, Value, SnmpCredential
<1>7. Tables("snmp", 1)
  <2>1. /\ InputsTyped("snmp", 1)
       /\ DefaultsTyped("snmp", 1)
       /\ Fillable("snmp", 1)
       /\ Linked("snmp", 1)
    BY Kinds, <1>1, <1>2, <1>4 DEF InputsTyped, DefaultsTyped, Fillable, Linked, snmpCreateSchema,
       Value
  <2>2. Sendable("snmp", 1)
    BY Kinds, <1>1, <1>2, <1>4 DEF Sendable, SnmpCredential, snmpCreateSchema
  <2>3. Excusable("snmp", 1)
    BY Kinds, <1>1, <1>2, <1>4 DEF Excusable, SnmpCredential, snmpCreateSchema
  <2>4. Storable("snmp", 1)
    BY Kinds, <1>1, <1>2 DEF Storable, SnmpCredential, snmpCreateSchema
  <2>5. QED
    BY <1>6, <2>1, <2>2, <2>3, <2>4 DEF Tables
<1>8. Tables("snmp", 2)
  <2>1. /\ InputsTyped("snmp", 2)
       /\ DefaultsTyped("snmp", 2)
       /\ Fillable("snmp", 2)
       /\ Linked("snmp", 2)
    BY Kinds, <1>1, <1>2, <1>3, <1>5 DEF InputsTyped, DefaultsTyped, Fillable, Linked,
       snmpCreateSchema, Value
  <2>2. Sendable("snmp", 2)
    BY Kinds, <1>1, <1>2, <1>3, <1>5 DEF Sendable, SnmpCredential, snmpCreateSchema
  <2>3. Excusable("snmp", 2)
    BY Kinds, <1>1, <1>2, <1>3, <1>5 DEF Excusable, SnmpCredential, snmpCreateSchema
  <2>4. Storable("snmp", 2)
    BY Kinds, <1>1, <1>2, <1>3 DEF Storable, SnmpCredential, snmpCreateSchema
  <2>5. QED
    BY <1>6, <2>1, <2>2, <2>3, <2>4 DEF Tables
<1>9. QED
  BY <1>1, <1>7, <1>8

LEMMA WinrmTables == \A m \in DOMAIN Dialog["winrm"].schemas : Tables("winrm", m)
<1>1. /\ DOMAIN Dialog["winrm"].schemas = {1, 2}
      /\ Dialog["winrm"].row = WinRMCredential
      /\ Inputs("winrm", 1) = All({"name", "username", "password", "port", "domain"},
          TextInput) ++ [auth_type |-> Select, use_ssl |-> Checkbox]
      /\ Inputs("winrm", 2) = Inputs("winrm", 1)
      /\ Dialog["winrm"].empty = [port |-> "num", use_ssl |-> "false", auth_type |-> "text"]
      /\ Dialog["winrm"].load = All(DOMAIN WinRMCredential \ {"domain"}, "null") ++ All({"domain",
          "password"}, "blank")
      /\ Zod("winrm", 1) = winrmCreateSchema
      /\ Bodies("winrm", 1) = WinRMCredentialCreate
      /\ Zod("winrm", 2) = winrmCreateSchema
      /\ Bodies("winrm", 2) = WinRMCredentialUpdate
  BY DEF Inputs, Zod, Bodies, Dialog, WinrmFormModal
<1>2. /\ DOMAIN Inputs("winrm", 1) = {"auth_type", "domain", "name", "password", "port",
            "use_ssl", "username"}
      /\ Inputs("winrm", 1)["auth_type"] = Select
      /\ \A f \in {"domain", "name", "password", "port", "username"} : Inputs("winrm",
            1)[f] = TextInput
      /\ Inputs("winrm", 1)["use_ssl"] = Checkbox
  BY <1>1 DEF ++, All
<1>3. /\ DOMAIN Dialog["winrm"].load = {"auth_type", "domain", "name", "password", "port",
            "use_ssl", "username"}
      /\ \A f \in {"auth_type", "name", "port", "use_ssl",
            "username"} : Dialog["winrm"].load[f] = "null"
      /\ \A f \in {"domain", "password"} : Dialog["winrm"].load[f] = "blank"
  BY <1>1 DEF ++, All, WinRMCredential
<1>4. /\ DOMAIN Bodies("winrm", 2) = {"auth_type", "domain", "name", "password", "port",
            "use_ssl", "username"}
      /\ \A f \in {"auth_type", "domain"} : Bodies("winrm", 2)[f] = Opt(Opt(String))
      /\ \A f \in {"name", "password", "username"} : Bodies("winrm", 2)[f] = Opt(String)
      /\ Bodies("winrm", 2)["port"] = Opt(Opt(Number))
      /\ Bodies("winrm", 2)["use_ssl"] = Opt(Opt(Boolean))
  BY <1>1 DEF WinRMCredentialUpdate, WinRMCredentialCreate
<1>5. {<<"winrm", "password", "blank">>, <<"winrm", "port", "blank">>} \subseteq Refusing
  BY DEF Refusing
<1> USE DEF Opt, OrNull, Required, Blank, Str, Default, ZNum, Enum, Text, Choice, AnyNum, Num,
    Boolean, Number, Named, String, Wants, Untouched, Entered, Starts, Besides, RowHas, FromRow,
    SentAs, At, Set, Means, VipDialogs, NeverStored, NotStored, V3Choices, Known
<1>6. RowTyped("winrm")
  BY <1>1 DEF RowTyped, Value, WinRMCredential
<1>7. Tables("winrm", 1)
  <2>1. /\ InputsTyped("winrm", 1)
       /\ DefaultsTyped("winrm", 1)
       /\ Fillable("winrm", 1)
       /\ Linked("winrm", 1)
    BY Kinds, <1>1, <1>2 DEF InputsTyped, DefaultsTyped, Fillable, Linked, winrmCreateSchema,
       WinRMCredentialCreate, Value
  <2>2. Sendable("winrm", 1)
    BY Kinds, <1>1, <1>2 DEF Sendable, WinRMCredential, winrmCreateSchema, WinRMCredentialCreate
  <2>3. Excusable("winrm", 1)
    BY Kinds, <1>1, <1>2, <1>5 DEF Excusable, WinRMCredential, winrmCreateSchema,
       WinRMCredentialCreate
  <2>4. Storable("winrm", 1)
    BY Kinds, <1>1, <1>2 DEF Storable, WinRMCredential, winrmCreateSchema
  <2>5. QED
    BY <1>6, <2>1, <2>2, <2>3, <2>4 DEF Tables
<1>8. Tables("winrm", 2)
  <2>1. /\ InputsTyped("winrm", 2)
       /\ DefaultsTyped("winrm", 2)
       /\ Fillable("winrm", 2)
       /\ Linked("winrm", 2)
    BY Kinds, <1>1, <1>2, <1>3, <1>4 DEF InputsTyped, DefaultsTyped, Fillable, Linked,
       winrmCreateSchema, Value
  <2>2. Sendable("winrm", 2)
    BY Kinds, <1>1, <1>2, <1>3, <1>4 DEF Sendable, WinRMCredential, winrmCreateSchema
  <2>3. Excusable("winrm", 2)
    BY Kinds, <1>1, <1>2, <1>3, <1>4, <1>5 DEF Excusable, WinRMCredential, winrmCreateSchema
  <2>4. Storable("winrm", 2)
    BY Kinds, <1>1, <1>2, <1>3 DEF Storable, WinRMCredential, winrmCreateSchema
  <2>5. QED
    BY <1>6, <2>1, <2>2, <2>3, <2>4 DEF Tables
<1>9. QED
  BY <1>1, <1>7, <1>8

LEMMA TagTables == \A m \in DOMAIN Dialog["tag"].schemas : Tables("tag", m)
<1>1. /\ DOMAIN Dialog["tag"].schemas = {1, 2}
      /\ Dialog["tag"].row = Tag
      /\ Inputs("tag", 1) = All({"name", "slug", "description"}, TextInput) ++ [color |-> Select]
      /\ Inputs("tag", 2) = Inputs("tag", 1)
      /\ Dialog["tag"].empty = All({"name", "slug", "description"}, "blank") ++ [color |-> "text"]
      /\ Dialog["tag"].load = All({"name", "slug", "color"}, "null") ++ [description |-> "blank"]
      /\ Zod("tag", 1) = tagCreateSchema
      /\ Bodies("tag", 1) = TagCreate
      /\ Zod("tag", 2) = tagUpdateSchema
      /\ Bodies("tag", 2) = TagUpdate
  BY DEF Inputs, Zod, Bodies, Dialog, TagForm, CrudFormModal
<1>2. /\ DOMAIN Inputs("tag", 1) = {"color", "description", "name", "slug"}
      /\ Inputs("tag", 1)["color"] = Select
      /\ \A f \in {"description", "name", "slug"} : Inputs("tag", 1)[f] = TextInput
  BY <1>1 DEF ++, All
<1>3. /\ DOMAIN Dialog["tag"].empty = {"color", "description", "name", "slug"}
      /\ Dialog["tag"].empty["color"] = "text"
      /\ \A f \in {"description", "name", "slug"} : Dialog["tag"].empty[f] = "blank"
  BY <1>1 DEF ++, All
<1>4. /\ DOMAIN Dialog["tag"].load = {"color", "description", "name", "slug"}
      /\ \A f \in {"color", "name", "slug"} : Dialog["tag"].load[f] = "null"
      /\ Dialog["tag"].load["description"] = "blank"
  BY <1>1 DEF ++, All
<1>5. /\ DOMAIN Zod("tag", 2) = {"color", "description", "name", "slug"}
      /\ Zod("tag", 2)["color"] = Blank(Required)
      /\ Zod("tag", 2)["description"] = Blank(Str)
      /\ \A f \in {"name", "slug"} : Zod("tag", 2)[f] = Opt(Required)
  BY <1>1 DEF tagUpdateSchema, Optional, tagCreateSchema
<1>6. /\ DOMAIN Bodies("tag", 2) = {"color", "description", "name", "slug"}
      /\ Bodies("tag", 2)["color"] = Opt(Opt(String))
      /\ Bodies("tag", 2)["description"] = Opt(Opt(OrNull(String)))
      /\ \A f \in {"name", "slug"} : Bodies("tag", 2)[f] = Opt(String)
  BY <1>1 DEF TagUpdate, TagCreate
<1> USE DEF Opt, OrNull, Required, Blank, Str, Text, Choice, AnyNum, Named, String, Wants,
    Untouched, Entered, Starts, Besides, RowHas, FromRow, SentAs, At, Set, Means, VipDialogs,
    NeverStored, NotStored, V3Choices, Known
<1>7. RowTyped("tag")
  BY <1>1 DEF RowTyped, Value, Tag
<1>8. Tables("tag", 1)
  <2>1. /\ InputsTyped("tag", 1)
       /\ DefaultsTyped("tag", 1)
       /\ Fillable("tag", 1)
       /\ Linked("tag", 1)
    BY Kinds, <1>1, <1>2, <1>3 DEF InputsTyped, DefaultsTyped, Fillable, Linked, tagCreateSchema,
       TagCreate, Value
  <2>2. Sendable("tag", 1)
    BY Kinds, <1>1, <1>2, <1>3 DEF Sendable, Tag, tagCreateSchema, TagCreate
  <2>3. Excusable("tag", 1)
    BY Kinds, <1>1, <1>2, <1>3 DEF Excusable, Tag, tagCreateSchema, TagCreate
  <2>4. Storable("tag", 1)
    BY Kinds, <1>1, <1>2, <1>3 DEF Storable, Tag, tagCreateSchema
  <2>5. QED
    BY <1>7, <2>1, <2>2, <2>3, <2>4 DEF Tables
<1>9. Tables("tag", 2)
  <2>1. /\ InputsTyped("tag", 2)
       /\ DefaultsTyped("tag", 2)
       /\ Fillable("tag", 2)
       /\ Linked("tag", 2)
    BY Kinds, <1>1, <1>2, <1>4, <1>5, <1>6 DEF InputsTyped, DefaultsTyped, Fillable, Linked, Value
  <2>2. Sendable("tag", 2)
    BY Kinds, <1>1, <1>2, <1>4, <1>5, <1>6 DEF Sendable, Tag
  <2>3. Excusable("tag", 2)
    BY Kinds, <1>1, <1>2, <1>4, <1>5, <1>6 DEF Excusable, Tag
  <2>4. Storable("tag", 2)
    BY Kinds, <1>1, <1>2, <1>4, <1>5 DEF Storable, Tag
  <2>5. QED
    BY <1>7, <2>1, <2>2, <2>3, <2>4 DEF Tables
<1>10. QED
  BY <1>1, <1>8, <1>9

LEMMA VrfTables == \A m \in DOMAIN Dialog["vrf"].schemas : Tables("vrf", m)
<1>1. /\ DOMAIN Dialog["vrf"].schemas = {1, 2}
      /\ Dialog["vrf"].row = VRF
      /\ Inputs("vrf", 1) = All({"name", "rd", "description"},
          TextInput) ++ [enforce_unique |-> Checkbox]
      /\ Inputs("vrf", 2) = Inputs("vrf", 1)
      /\ Dialog["vrf"].empty = All({"name", "rd", "description"},
          "blank") ++ [enforce_unique |-> "true"]
      /\ Dialog["vrf"].load = All({"name", "enforce_unique"}, "null") ++ All({"rd",
          "description"}, "blank")
      /\ Zod("vrf", 1) = vrfCreateSchema
      /\ Bodies("vrf", 1) = VRFCreate
      /\ Zod("vrf", 2) = vrfUpdateSchema
      /\ Bodies("vrf", 2) = VRFUpdate
  BY DEF Inputs, Zod, Bodies, Dialog, VrfForm, CrudFormModal
<1>2. /\ DOMAIN Inputs("vrf", 1) = {"description", "enforce_unique", "name", "rd"}
      /\ \A f \in {"description", "name", "rd"} : Inputs("vrf", 1)[f] = TextInput
      /\ Inputs("vrf", 1)["enforce_unique"] = Checkbox
  BY <1>1 DEF ++, All
<1>3. /\ DOMAIN Dialog["vrf"].empty = {"description", "enforce_unique", "name", "rd"}
      /\ \A f \in {"description", "name", "rd"} : Dialog["vrf"].empty[f] = "blank"
      /\ Dialog["vrf"].empty["enforce_unique"] = "true"
  BY <1>1 DEF ++, All
<1>4. /\ DOMAIN Dialog["vrf"].load = {"description", "enforce_unique", "name", "rd"}
      /\ \A f \in {"description", "rd"} : Dialog["vrf"].load[f] = "blank"
      /\ \A f \in {"enforce_unique", "name"} : Dialog["vrf"].load[f] = "null"
  BY <1>1 DEF ++, All
<1>5. /\ DOMAIN Zod("vrf", 2) = {"description", "enforce_unique", "name", "rd"}
      /\ \A f \in {"description", "rd"} : Zod("vrf", 2)[f] = Blank(Str)
      /\ Zod("vrf", 2)["enforce_unique"] = Default(Boolean)
      /\ Zod("vrf", 2)["name"] = Opt(Required)
  BY <1>1 DEF vrfUpdateSchema, Optional, vrfCreateSchema
<1>6. /\ DOMAIN Bodies("vrf", 2) = {"description", "enforce_unique", "name", "rd"}
      /\ \A f \in {"description", "rd"} : Bodies("vrf", 2)[f] = Opt(OrNull(String))
      /\ Bodies("vrf", 2)["enforce_unique"] = Opt(Boolean)
      /\ Bodies("vrf", 2)["name"] = Opt(String)
  BY <1>1 DEF VRFUpdate, VRFCreate
<1> USE DEF Opt, OrNull, Required, Blank, Str, Default, Text, Choice, AnyNum, Boolean, Named,
    String, Wants, Untouched, Entered, Starts, Besides, RowHas, FromRow, SentAs, At, Set, Means,
    VipDialogs, NeverStored, NotStored, V3Choices, Known
<1>7. RowTyped("vrf")
  BY <1>1 DEF RowTyped, Value, VRF
<1>8. Tables("vrf", 1)
  <2>1. /\ InputsTyped("vrf", 1)
       /\ DefaultsTyped("vrf", 1)
       /\ Fillable("vrf", 1)
       /\ Linked("vrf", 1)
    BY Kinds, <1>1, <1>2, <1>3 DEF InputsTyped, DefaultsTyped, Fillable, Linked, vrfCreateSchema,
       VRFCreate, Value
  <2>2. Sendable("vrf", 1)
    BY Kinds, <1>1, <1>2, <1>3 DEF Sendable, VRF, vrfCreateSchema, VRFCreate
  <2>3. Excusable("vrf", 1)
    BY Kinds, <1>1, <1>2, <1>3 DEF Excusable, VRF, vrfCreateSchema, VRFCreate
  <2>4. Storable("vrf", 1)
    BY Kinds, <1>1, <1>2, <1>3 DEF Storable, VRF, vrfCreateSchema
  <2>5. QED
    BY <1>7, <2>1, <2>2, <2>3, <2>4 DEF Tables
<1>9. Tables("vrf", 2)
  <2>1. /\ InputsTyped("vrf", 2)
       /\ DefaultsTyped("vrf", 2)
       /\ Fillable("vrf", 2)
       /\ Linked("vrf", 2)
    BY Kinds, <1>1, <1>2, <1>4, <1>5, <1>6 DEF InputsTyped, DefaultsTyped, Fillable, Linked, Value
  <2>2. Sendable("vrf", 2)
    BY Kinds, <1>1, <1>2, <1>4, <1>5, <1>6 DEF Sendable, VRF
  <2>3. Excusable("vrf", 2)
    BY Kinds, <1>1, <1>2, <1>4, <1>5, <1>6 DEF Excusable, VRF
  <2>4. Storable("vrf", 2)
    BY Kinds, <1>1, <1>2, <1>4, <1>5 DEF Storable, VRF
  <2>5. QED
    BY <1>7, <2>1, <2>2, <2>3, <2>4 DEF Tables
<1>10. QED
  BY <1>1, <1>8, <1>9

LEMMA RirTables == \A m \in DOMAIN Dialog["rir"].schemas : Tables("rir", m)
<1>1. /\ DOMAIN Dialog["rir"].schemas = {1, 2}
      /\ Dialog["rir"].row = RIR
      /\ Inputs("rir", 1) = All(DOMAIN RIR, TextInput)
      /\ Inputs("rir", 2) = Inputs("rir", 1)
      /\ Dialog["rir"].empty = All(DOMAIN RIR, "blank")
      /\ Dialog["rir"].load = All({"name", "slug"}, "null") ++ [description |-> "blank"]
      /\ Zod("rir", 1) = rirCreateSchema
      /\ Bodies("rir", 1) = RIRCreate
      /\ Zod("rir", 2) = rirUpdateSchema
      /\ Bodies("rir", 2) = RIRUpdate
  BY DEF Inputs, Zod, Bodies, Dialog, RirForm, CrudFormModal
<1>2. /\ DOMAIN Inputs("rir", 1) = {"description", "name", "slug"}
      /\ \A f \in {"description", "name", "slug"} : Inputs("rir", 1)[f] = TextInput
  BY <1>1 DEF All, RIR
<1>3. /\ DOMAIN Dialog["rir"].empty = {"description", "name", "slug"}
      /\ \A f \in {"description", "name", "slug"} : Dialog["rir"].empty[f] = "blank"
  BY <1>1 DEF All, RIR
<1>4. /\ DOMAIN Dialog["rir"].load = {"description", "name", "slug"}
      /\ Dialog["rir"].load["description"] = "blank"
      /\ \A f \in {"name", "slug"} : Dialog["rir"].load[f] = "null"
  BY <1>1 DEF ++, All
<1>5. /\ DOMAIN Zod("rir", 2) = {"description", "name", "slug"}
      /\ Zod("rir", 2)["description"] = Blank(Str)
      /\ \A f \in {"name", "slug"} : Zod("rir", 2)[f] = Opt(Required)
  BY <1>1 DEF rirUpdateSchema, Optional, rirCreateSchema
<1>6. /\ DOMAIN Bodies("rir", 2) = {"description", "name", "slug"}
      /\ Bodies("rir", 2)["description"] = Opt(Opt(OrNull(String)))
      /\ \A f \in {"name", "slug"} : Bodies("rir", 2)[f] = Opt(String)
  BY <1>1 DEF RIRUpdate, RIRCreate
<1> USE DEF Opt, OrNull, Required, Blank, Str, Text, Choice, AnyNum, Named, String, Wants,
    Untouched, Entered, Starts, Besides, RowHas, FromRow, SentAs, At, Set, Means, VipDialogs,
    NeverStored, NotStored, V3Choices, Known
<1>7. RowTyped("rir")
  BY <1>1 DEF RowTyped, Value, RIR
<1>8. Tables("rir", 1)
  <2>1. /\ InputsTyped("rir", 1)
       /\ DefaultsTyped("rir", 1)
       /\ Fillable("rir", 1)
       /\ Linked("rir", 1)
    BY Kinds, <1>1, <1>2, <1>3 DEF InputsTyped, DefaultsTyped, Fillable, Linked, rirCreateSchema,
       RIRCreate, Value
  <2>2. Sendable("rir", 1)
    BY Kinds, <1>1, <1>2, <1>3 DEF Sendable, RIR, rirCreateSchema, RIRCreate
  <2>3. Excusable("rir", 1)
    BY Kinds, <1>1, <1>2, <1>3 DEF Excusable, RIR, rirCreateSchema, RIRCreate
  <2>4. Storable("rir", 1)
    BY Kinds, <1>1, <1>2, <1>3 DEF Storable, RIR, rirCreateSchema
  <2>5. QED
    BY <1>7, <2>1, <2>2, <2>3, <2>4 DEF Tables
<1>9. Tables("rir", 2)
  <2>1. /\ InputsTyped("rir", 2)
       /\ DefaultsTyped("rir", 2)
       /\ Fillable("rir", 2)
       /\ Linked("rir", 2)
    BY Kinds, <1>1, <1>2, <1>4, <1>5, <1>6 DEF InputsTyped, DefaultsTyped, Fillable, Linked, Value
  <2>2. Sendable("rir", 2)
    BY Kinds, <1>1, <1>2, <1>4, <1>5, <1>6 DEF Sendable, RIR
  <2>3. Excusable("rir", 2)
    BY Kinds, <1>1, <1>2, <1>4, <1>5, <1>6 DEF Excusable, RIR
  <2>4. Storable("rir", 2)
    BY Kinds, <1>1, <1>2, <1>4, <1>5 DEF Storable, RIR
  <2>5. QED
    BY <1>7, <2>1, <2>2, <2>3, <2>4 DEF Tables
<1>10. QED
  BY <1>1, <1>8, <1>9

LEMMA AggregateTables == \A m \in DOMAIN Dialog["aggregate"].schemas : Tables("aggregate", m)
<1>1. /\ DOMAIN Dialog["aggregate"].schemas = {1, 2}
      /\ Dialog["aggregate"].row = Aggregate
      /\ Inputs("aggregate", 1) = [network_address |-> TextInput, prefix_length |-> NumberInput,
          rir_id |-> RefSelect, description |-> TextInput]
      /\ Inputs("aggregate", 2) = Inputs("aggregate", 1)
      /\ Dialog["aggregate"].empty = [network_address |-> "blank", prefix_length |-> "num",
          rir_id |-> "blank", description |-> "blank"]
      /\ Dialog["aggregate"].load = All({"description", "rir_id"}, "blank")
      /\ Zod("aggregate", 1) = aggregateCreateSchema
      /\ Bodies("aggregate", 1) = AggregateCreate
      /\ Zod("aggregate", 2) = aggregateUpdateSchema
      /\ Bodies("aggregate", 2) = AggregateUpdate
  BY DEF Inputs, Zod, Bodies, Dialog, AggregateForm, CrudFormModal
<1>2. /\ DOMAIN Inputs("aggregate", 1) = {"description", "network_address", "prefix_length",
            "rir_id"}
      /\ \A f \in {"description", "network_address"} : Inputs("aggregate", 1)[f] = TextInput
      /\ Inputs("aggregate", 1)["prefix_length"] = NumberInput
      /\ Inputs("aggregate", 1)["rir_id"] = RefSelect
  BY <1>1
<1>3. /\ DOMAIN Dialog["aggregate"].load = {"description", "rir_id"}
      /\ \A f \in {"description", "rir_id"} : Dialog["aggregate"].load[f] = "blank"
  BY <1>1 DEF All
<1>4. /\ DOMAIN Zod("aggregate", 2) = {"description", "rir_id"}
      /\ Zod("aggregate", 2)["description"] = Blank(Str)
      /\ Zod("aggregate", 2)["rir_id"] = Nullable(Uuid)
  BY <1>1 DEF aggregateUpdateSchema, aggregateCreateSchema
<1>5. /\ DOMAIN Bodies("aggregate", 2) = {"description", "rir_id"}
      /\ \A f \in {"description", "rir_id"} : Bodies("aggregate", 2)[f] = Opt(OrNull(String))
  BY <1>1 DEF AggregateUpdate, AggregateCreate
<1>6. {<<"aggregate", "rir_id", "blank">>} \subseteq Refusing
  BY DEF Refusing
<1> USE DEF Opt, OrNull, Required, Blank, Str, Nullable, ZNum, Uuid, Text, Choice, AnyNum, Num, Id,
    Number, Named, String, Wants, Untouched, Entered, Starts, Besides, RowHas, FromRow, SentAs, At,
    Set, Means, VipDialogs, NeverStored, NotStored, V3Choices, Known
<1>7. RowTyped("aggregate")
  BY <1>1 DEF RowTyped, Value, Aggregate
<1>8. Tables("aggregate", 1)
  <2>1. /\ InputsTyped("aggregate", 1)
       /\ DefaultsTyped("aggregate", 1)
       /\ Fillable("aggregate", 1)
       /\ Linked("aggregate", 1)
    BY Kinds, <1>1, <1>2 DEF InputsTyped, DefaultsTyped, Fillable, Linked, aggregateCreateSchema,
       AggregateCreate, Value
  <2>2. Sendable("aggregate", 1)
    BY Kinds, <1>1, <1>2 DEF Sendable, Aggregate, aggregateCreateSchema, AggregateCreate
  <2>3. Excusable("aggregate", 1)
    BY Kinds, <1>1, <1>2, <1>6 DEF Excusable, Aggregate, aggregateCreateSchema, AggregateCreate
  <2>4. Storable("aggregate", 1)
    BY Kinds, <1>1, <1>2 DEF Storable, Aggregate, aggregateCreateSchema
  <2>5. QED
    BY <1>7, <2>1, <2>2, <2>3, <2>4 DEF Tables
<1>9. Tables("aggregate", 2)
  <2>1. /\ InputsTyped("aggregate", 2)
       /\ DefaultsTyped("aggregate", 2)
       /\ Fillable("aggregate", 2)
       /\ Linked("aggregate", 2)
    BY Kinds, <1>1, <1>2, <1>3, <1>4, <1>5 DEF InputsTyped, DefaultsTyped, Fillable, Linked, Value
  <2>2. Sendable("aggregate", 2)
    BY Kinds, <1>1, <1>2, <1>3, <1>4, <1>5 DEF Sendable, Aggregate
  <2>3. Excusable("aggregate", 2)
    BY Kinds, <1>1, <1>2, <1>3, <1>4, <1>5, <1>6 DEF Excusable, Aggregate
  <2>4. Storable("aggregate", 2)
    BY Kinds, <1>1, <1>2, <1>3, <1>4 DEF Storable, Aggregate
  <2>5. QED
    BY <1>7, <2>1, <2>2, <2>3, <2>4 DEF Tables
<1>10. QED
  BY <1>1, <1>8, <1>9

LEMMA RangeTables == \A m \in DOMAIN Dialog["range"].schemas : Tables("range", m)
<1>1. /\ DOMAIN Dialog["range"].schemas = {1, 2}
      /\ Dialog["range"].row = IPRange
      /\ Inputs("range", 1) = [subnet_id |-> RefSelect] ++ All(DOMAIN IPRange, TextInput)
      /\ Inputs("range", 2) = Inputs("range", 1)
      /\ Dialog["range"].empty = All(DOMAIN IPRange \ {"status"}, "blank") ++ [status |-> "text"]
      /\ Dialog["range"].load = All({"start_address", "end_address", "status"},
          "null") ++ [description |-> "blank"]
      /\ Zod("range", 1) = ipRangeCreateSchema
      /\ Bodies("range", 1) = IPRangeCreate
      /\ Zod("range", 2) = ipRangeUpdateSchema
      /\ Bodies("range", 2) = IPRangeUpdate
  BY DEF Inputs, Zod, Bodies, Dialog, IpRangeForm, CrudFormModal
<1>2. /\ DOMAIN Inputs("range", 1) = {"description", "end_address", "start_address", "status",
            "subnet_id"}
      /\ \A f \in {"description", "end_address", "start_address", "status"} : Inputs("range",
            1)[f] = TextInput
      /\ Inputs("range", 1)["subnet_id"] = RefSelect
  BY <1>1 DEF ++, All, IPRange
<1>3. /\ DOMAIN Dialog["range"].empty = {"description", "end_address", "start_address", "status",
            "subnet_id"}
      /\ \A f \in {"description", "end_address", "start_address",
            "subnet_id"} : Dialog["range"].empty[f] = "blank"
      /\ Dialog["range"].empty["status"] = "text"
  BY <1>1 DEF ++, All, IPRange
<1>4. /\ DOMAIN Dialog["range"].load = {"description", "end_address", "start_address", "status"}
      /\ Dialog["range"].load["description"] = "blank"
      /\ \A f \in {"end_address", "start_address", "status"} : Dialog["range"].load[f] = "null"
  BY <1>1 DEF ++, All
<1>5. /\ DOMAIN Zod("range", 2) = {"description", "end_address", "start_address", "status"}
      /\ \A f \in {"description", "status"} : Zod("range", 2)[f] = Opt(Blank(Str))
      /\ \A f \in {"end_address", "start_address"} : Zod("range", 2)[f] = Opt(Required)
  BY <1>1 DEF ipRangeUpdateSchema, ipRangeCreateSchema
<1>6. /\ DOMAIN Bodies("range", 2) = {"description", "end_address", "start_address", "status"}
      /\ Bodies("range", 2)["description"] = Opt(Opt(OrNull(String)))
      /\ \A f \in {"end_address", "start_address"} : Bodies("range", 2)[f] = Opt(String)
      /\ Bodies("range", 2)["status"] = Opt(Opt(String))
  BY <1>1 DEF IPRangeUpdate, IPRangeCreate
<1> USE DEF Opt, OrNull, Required, Blank, Str, Uuid, Text, Choice, AnyNum, Id, Named, String,
    Wants, Untouched, Entered, Starts, Besides, RowHas, FromRow, SentAs, At, Set, Means,
    VipDialogs, NeverStored, NotStored, V3Choices, Known
<1>7. RowTyped("range")
  BY <1>1 DEF RowTyped, Value, IPRange
<1>8. Tables("range", 1)
  <2>1. /\ InputsTyped("range", 1)
       /\ DefaultsTyped("range", 1)
       /\ Fillable("range", 1)
       /\ Linked("range", 1)
    BY Kinds, <1>1, <1>2, <1>3 DEF InputsTyped, DefaultsTyped, Fillable, Linked,
       ipRangeCreateSchema, IPRangeCreate, Value
  <2>2. Sendable("range", 1)
    BY Kinds, <1>1, <1>2, <1>3 DEF Sendable, IPRange, ipRangeCreateSchema, IPRangeCreate
  <2>3. Excusable("range", 1)
    BY Kinds, <1>1, <1>2, <1>3 DEF Excusable, IPRange, ipRangeCreateSchema, IPRangeCreate
  <2>4. Storable("range", 1)
    BY Kinds, <1>1, <1>2, <1>3 DEF Storable, IPRange, ipRangeCreateSchema
  <2>5. QED
    BY <1>7, <2>1, <2>2, <2>3, <2>4 DEF Tables
<1>9. Tables("range", 2)
  <2>1. /\ InputsTyped("range", 2)
       /\ DefaultsTyped("range", 2)
       /\ Fillable("range", 2)
       /\ Linked("range", 2)
    BY Kinds, <1>1, <1>2, <1>4, <1>5, <1>6 DEF InputsTyped, DefaultsTyped, Fillable, Linked, Value
  <2>2. Sendable("range", 2)
    BY Kinds, <1>1, <1>2, <1>4, <1>5, <1>6 DEF Sendable, IPRange
  <2>3. Excusable("range", 2)
    BY Kinds, <1>1, <1>2, <1>4, <1>5, <1>6 DEF Excusable, IPRange
  <2>4. Storable("range", 2)
    BY Kinds, <1>1, <1>2, <1>4, <1>5 DEF Storable, IPRange
  <2>5. QED
    BY <1>7, <2>1, <2>2, <2>3, <2>4 DEF Tables
<1>10. QED
  BY <1>1, <1>8, <1>9

LEMMA AsnTables == \A m \in DOMAIN Dialog["asn"].schemas : Tables("asn", m)
<1>1. /\ DOMAIN Dialog["asn"].schemas = {1, 2}
      /\ Dialog["asn"].row = ASN
      /\ Inputs("asn", 1) = [asn |-> NumberInput, description |-> TextInput] ++ All({"rir_id",
          "site_id"}, RefSelect)
      /\ Inputs("asn", 2) = Inputs("asn", 1)
      /\ Dialog["asn"].empty = All({"rir_id", "site_id", "description"},
          "blank") ++ [asn |-> "num"]
      /\ Dialog["asn"].load = All({"rir_id", "site_id", "description"}, "blank")
      /\ Zod("asn", 1) = asnCreateSchema
      /\ Bodies("asn", 1) = ASNCreate
      /\ Zod("asn", 2) = asnUpdateSchema
      /\ Bodies("asn", 2) = ASNUpdate
  BY DEF Inputs, Zod, Bodies, Dialog, AsnForm, CrudFormModal
<1>2. /\ DOMAIN Inputs("asn", 1) = {"asn", "description", "rir_id", "site_id"}
      /\ Inputs("asn", 1)["asn"] = NumberInput
      /\ Inputs("asn", 1)["description"] = TextInput
      /\ \A f \in {"rir_id", "site_id"} : Inputs("asn", 1)[f] = RefSelect
  BY <1>1 DEF ++, All
<1>3. /\ DOMAIN Dialog["asn"].empty = {"asn", "description", "rir_id", "site_id"}
      /\ Dialog["asn"].empty["asn"] = "num"
      /\ \A f \in {"description", "rir_id", "site_id"} : Dialog["asn"].empty[f] = "blank"
  BY <1>1 DEF ++, All
<1>4. /\ DOMAIN Dialog["asn"].load = {"description", "rir_id", "site_id"}
      /\ \A f \in {"description", "rir_id", "site_id"} : Dialog["asn"].load[f] = "blank"
  BY <1>1 DEF All
<1>5. /\ DOMAIN Zod("asn", 2) = {"description", "rir_id", "site_id"}
      /\ Zod("asn", 2)["description"] = Blank(Str)
      /\ \A f \in {"rir_id", "site_id"} : Zod("asn", 2)[f] = Nullable(Uuid)
  BY <1>1 DEF asnUpdateSchema, asnCreateSchema
<1>6. /\ DOMAIN Bodies("asn", 2) = {"description", "rir_id", "site_id"}
      /\ \A f \in {"description", "rir_id", "site_id"} : Bodies("asn", 2)[f] = Opt(OrNull(String))
  BY <1>1 DEF ASNUpdate, ASNCreate
<1>7. {<<"asn", "rir_id", "blank">>, <<"asn", "site_id", "blank">>} \subseteq Refusing
  BY DEF Refusing
<1> USE DEF Opt, OrNull, Blank, Str, Nullable, ZNum, Uuid, Text, Choice, AnyNum, Num, Id, Number,
    Named, String, Wants, Untouched, Entered, Starts, Besides, RowHas, FromRow, SentAs, At, Set,
    Means, VipDialogs, NeverStored, NotStored, V3Choices, Known
<1>8. RowTyped("asn")
  BY <1>1 DEF RowTyped, Value, ASN
<1>9. Tables("asn", 1)
  <2>1. /\ InputsTyped("asn", 1)
       /\ DefaultsTyped("asn", 1)
       /\ Fillable("asn", 1)
       /\ Linked("asn", 1)
    BY Kinds, <1>1, <1>2, <1>3 DEF InputsTyped, DefaultsTyped, Fillable, Linked, asnCreateSchema,
       ASNCreate, Value
  <2>2. Sendable("asn", 1)
    BY Kinds, <1>1, <1>2, <1>3 DEF Sendable, ASN, asnCreateSchema, ASNCreate
  <2>3. Excusable("asn", 1)
    BY Kinds, <1>1, <1>2, <1>3, <1>7 DEF Excusable, ASN, asnCreateSchema, ASNCreate
  <2>4. Storable("asn", 1)
    BY Kinds, <1>1, <1>2, <1>3 DEF Storable, ASN, asnCreateSchema
  <2>5. QED
    BY <1>8, <2>1, <2>2, <2>3, <2>4 DEF Tables
<1>10. Tables("asn", 2)
  <2>1. /\ InputsTyped("asn", 2)
       /\ DefaultsTyped("asn", 2)
       /\ Fillable("asn", 2)
       /\ Linked("asn", 2)
    BY Kinds, <1>1, <1>2, <1>4, <1>5, <1>6 DEF InputsTyped, DefaultsTyped, Fillable, Linked, Value
  <2>2. Sendable("asn", 2)
    BY Kinds, <1>1, <1>2, <1>4, <1>5, <1>6 DEF Sendable, ASN
  <2>3. Excusable("asn", 2)
    BY Kinds, <1>1, <1>2, <1>4, <1>5, <1>6, <1>7 DEF Excusable, ASN
  <2>4. Storable("asn", 2)
    BY Kinds, <1>1, <1>2, <1>4, <1>5 DEF Storable, ASN
  <2>5. QED
    BY <1>8, <2>1, <2>2, <2>3, <2>4 DEF Tables
<1>11. QED
  BY <1>1, <1>9, <1>10

LEMMA CustomFieldTables == \A m \in DOMAIN Dialog["customField"].schemas : Tables("customField", m)
<1>1. /\ DOMAIN Dialog["customField"].schemas = {1, 2}
      /\ Dialog["customField"].row = CustomField
      /\ Inputs("customField", 1) = All({"label", "default_value", "description"} \cup {"name",
          "applies_to", "field_type"}, TextInput) ++ [required |-> Checkbox,
          weight |-> NumberInput]
      /\ Inputs("customField", 2) = Inputs("customField", 1)
      /\ Dialog["customField"].empty = All({"label", "default_value",
          "description"} \cup {"name"}, "blank") ++ All({"applies_to", "field_type"},
          "text") ++ [required |-> "false", weight |-> "num"]
      /\ Dialog["customField"].load = All({"label", "default_value", "description"},
          "blank") ++ All(DOMAIN CustomField, "null")
      /\ Zod("customField", 1) = customFieldCreateSchema
      /\ Bodies("customField", 1) = CustomFieldCreate
      /\ Zod("customField", 2) = customFieldUpdateSchema
      /\ Bodies("customField", 2) = CustomFieldUpdate
  BY DEF Inputs, Zod, Bodies, Dialog, CustomFieldForm, CrudFormModal
<1>2. /\ DOMAIN Inputs("customField", 1) = {"applies_to", "default_value", "description",
            "field_type", "label", "name", "required", "weight"}
      /\ \A f \in {"applies_to", "default_value", "description", "field_type", "label",
            "name"} : Inputs("customField", 1)[f] = TextInput
      /\ Inputs("customField", 1)["required"] = Checkbox
      /\ Inputs("customField", 1)["weight"] = NumberInput
  BY <1>1 DEF ++, All
<1>3. /\ DOMAIN Dialog["customField"].empty = {"applies_to", "default_value", "description",
            "field_type", "label", "name", "required", "weight"}
      /\ \A f \in {"applies_to", "field_type"} : Dialog["customField"].empty[f] = "text"
      /\ \A f \in {"default_value", "description", "label",
            "name"} : Dialog["customField"].empty[f] = "blank"
      /\ Dialog["customField"].empty["required"] = "false"
      /\ Dialog["customField"].empty["weight"] = "num"
  BY <1>1 DEF ++, All
<1>4. /\ DOMAIN Dialog["customField"].load = {"applies_to", "default_value", "description",
            "field_type", "label", "name", "required", "weight"}
      /\ \A f \in {"applies_to", "field_type", "name", "required",
            "weight"} : Dialog["customField"].load[f] = "null"
      /\ \A f \in {"default_value", "description",
            "label"} : Dialog["customField"].load[f] = "blank"
  BY <1>1 DEF ++, All, CustomField
<1>5. /\ DOMAIN Zod("customField", 2) = {"applies_to", "default_value", "description",
            "field_type", "label", "name", "required", "weight"}
      /\ \A f \in {"applies_to", "field_type"} : Zod("customField", 2)[f] = Opt(Enum)
      /\ \A f \in {"default_value", "description", "label"} : Zod("customField",
            2)[f] = Blank(Str)
      /\ Zod("customField", 2)["name"] = Opt(Required)
      /\ Zod("customField", 2)["required"] = Default(Boolean)
      /\ Zod("customField", 2)["weight"] = Opt(ZNum)
  BY <1>1 DEF customFieldUpdateSchema, Optional, customFieldCreateSchema
<1>6. /\ DOMAIN Bodies("customField", 2) = {"applies_to", "default_value", "description",
            "field_type", "label", "name", "required", "weight"}
      /\ \A f \in {"applies_to", "name"} : Bodies("customField", 2)[f] = Opt(String)
      /\ \A f \in {"default_value", "description", "label"} : Bodies("customField",
            2)[f] = Opt(Opt(OrNull(String)))
      /\ Bodies("customField", 2)["field_type"] = Opt(Opt(String))
      /\ Bodies("customField", 2)["required"] = Opt(Opt(Boolean))
      /\ Bodies("customField", 2)["weight"] = Opt(Opt(Number))
  BY <1>1 DEF CustomFieldUpdate, CustomFieldCreate
<1>7. {<<"customField", "weight", "NaN">>, <<"customField", "field_type", "blank">>}
        \subseteq Refusing
  BY DEF Refusing
<1> USE DEF Opt, OrNull, Required, Blank, Str, Default, ZNum, Enum, Text, Choice, AnyNum, Num,
    Boolean, Number, Named, String, Wants, Untouched, Entered, Starts, Besides, RowHas, FromRow,
    SentAs, At, Set, Means, VipDialogs, NeverStored, NotStored, V3Choices, Known
<1>8. RowTyped("customField")
  BY <1>1 DEF RowTyped, Value, CustomField
<1>9. Tables("customField", 1)
  <2>1. /\ InputsTyped("customField", 1)
       /\ DefaultsTyped("customField", 1)
       /\ Fillable("customField", 1)
       /\ Linked("customField", 1)
    BY Kinds, <1>1, <1>2, <1>3 DEF InputsTyped, DefaultsTyped, Fillable, Linked,
       customFieldCreateSchema, CustomFieldCreate, Value
  <2>2. Sendable("customField", 1)
    BY Kinds, <1>1, <1>2, <1>3 DEF Sendable, CustomField, customFieldCreateSchema,
       CustomFieldCreate
  <2>3. Excusable("customField", 1)
    BY Kinds, <1>1, <1>2, <1>3, <1>7 DEF Excusable, CustomField, customFieldCreateSchema,
       CustomFieldCreate
  <2>4. Storable("customField", 1)
    BY Kinds, <1>1, <1>2, <1>3 DEF Storable, CustomField, customFieldCreateSchema
  <2>5. QED
    BY <1>8, <2>1, <2>2, <2>3, <2>4 DEF Tables
<1>10. Tables("customField", 2)
  <2>1. /\ InputsTyped("customField", 2)
       /\ DefaultsTyped("customField", 2)
       /\ Fillable("customField", 2)
       /\ Linked("customField", 2)
    BY Kinds, <1>1, <1>2, <1>4, <1>5, <1>6 DEF InputsTyped, DefaultsTyped, Fillable, Linked, Value
  <2>2. Sendable("customField", 2)
    BY Kinds, <1>1, <1>2, <1>4, <1>5, <1>6 DEF Sendable, CustomField
  <2>3. Excusable("customField", 2)
    BY Kinds, <1>1, <1>2, <1>4, <1>5, <1>6, <1>7 DEF Excusable, CustomField
  <2>4. Storable("customField", 2)
    BY Kinds, <1>1, <1>2, <1>4, <1>5 DEF Storable, CustomField
  <2>5. QED
    BY <1>8, <2>1, <2>2, <2>3, <2>4 DEF Tables
<1>11. QED
  BY <1>1, <1>9, <1>10

LEMMA RuleTables == \A m \in DOMAIN Dialog["rule"].schemas : Tables("rule", m)
<1>1. /\ DOMAIN Dialog["rule"].schemas = {1, 2}
      /\ Dialog["rule"].row = ValidationRule
      /\ Inputs("rule", 1) = All({"name", "entity_type", "error_message"},
          TextInput) ++ [weight |-> NumberInput] ++ All({"enabled", "enforce_on_delete"},
          Checkbox)
      /\ Inputs("rule", 2) = Inputs("rule", 1)
      /\ Dialog["rule"].empty = [name |-> "blank", entity_type |-> "text", condition |-> "null",
          error_message |-> "blank", enabled |-> "true", enforce_on_delete |-> "false",
          weight |-> "num"]
      /\ Dialog["rule"].load = All(DOMAIN ValidationRule, "null")
      /\ Zod("rule", 1) = validationRuleCreateSchema
      /\ Bodies("rule", 1) = ValidationRuleCreate
      /\ Zod("rule", 2) = validationRuleUpdateSchema
      /\ Bodies("rule", 2) = ValidationRuleUpdate
  BY DEF Inputs, Zod, Bodies, Dialog, ValidationRuleForm, CrudFormModal
<1>2. /\ DOMAIN Inputs("rule", 1) = {"enabled", "enforce_on_delete", "entity_type",
            "error_message", "name", "weight"}
      /\ \A f \in {"enabled", "enforce_on_delete"} : Inputs("rule", 1)[f] = Checkbox
      /\ \A f \in {"entity_type", "error_message", "name"} : Inputs("rule", 1)[f] = TextInput
      /\ Inputs("rule", 1)["weight"] = NumberInput
  BY <1>1 DEF ++, All
<1>3. /\ DOMAIN Dialog["rule"].load = {"condition", "enabled", "enforce_on_delete", "entity_type",
            "error_message", "name", "weight"}
      /\ \A f \in {"condition", "enabled", "enforce_on_delete", "entity_type", "error_message",
            "name", "weight"} : Dialog["rule"].load[f] = "null"
  BY <1>1 DEF All, ValidationRule
<1>4. /\ DOMAIN Zod("rule", 2) = {"condition", "enabled", "enforce_on_delete", "entity_type",
            "error_message", "name", "weight"}
      /\ Zod("rule", 2)["condition"] = Nullable(Object)
      /\ \A f \in {"enabled", "enforce_on_delete"} : Zod("rule", 2)[f] = Default(Boolean)
      /\ Zod("rule", 2)["entity_type"] = Opt(Enum)
      /\ \A f \in {"error_message", "name"} : Zod("rule", 2)[f] = Opt(Required)
      /\ Zod("rule", 2)["weight"] = Opt(ZNum)
  BY <1>1 DEF validationRuleUpdateSchema, Optional, validationRuleCreateSchema
<1>5. /\ DOMAIN Bodies("rule", 2) = {"condition", "enabled", "enforce_on_delete", "entity_type",
            "error_message", "name", "weight"}
      /\ Bodies("rule", 2)["condition"] = Opt(Opt(OrNull(Object)))
      /\ \A f \in {"enabled", "enforce_on_delete"} : Bodies("rule", 2)[f] = Opt(Opt(Boolean))
      /\ \A f \in {"entity_type", "error_message", "name"} : Bodies("rule", 2)[f] = Opt(String)
      /\ Bodies("rule", 2)["weight"] = Opt(Opt(Number))
  BY <1>1 DEF ValidationRuleUpdate, ValidationRuleCreate
<1>6. {<<"rule", "weight", "NaN">>} \subseteq Refusing
  BY DEF Refusing
<1> USE DEF Opt, OrNull, Str, Required, Nullable, Default, ZNum, Enum, Choice, AnyNum, Num,
    Object, Boolean, Number, Named, String, Wants, Untouched, Entered, Starts, Besides, RowHas,
    FromRow, SentAs, At, Set, Means, VipDialogs, NeverStored, NotStored, V3Choices, Known
<1>7. RowTyped("rule")
  BY <1>1 DEF RowTyped, Value, ValidationRule
<1>8. Tables("rule", 1)
  <2>1. /\ InputsTyped("rule", 1)
       /\ DefaultsTyped("rule", 1)
       /\ Fillable("rule", 1)
       /\ Linked("rule", 1)
    BY Kinds, <1>1, <1>2 DEF InputsTyped, DefaultsTyped, Fillable, Linked,
       validationRuleCreateSchema, ValidationRuleCreate, Value
  <2>2. Sendable("rule", 1)
    BY Kinds, <1>1, <1>2 DEF Sendable, ValidationRule, validationRuleCreateSchema,
       ValidationRuleCreate
  <2>3. Excusable("rule", 1)
    BY Kinds, <1>1, <1>2, <1>6 DEF Excusable, ValidationRule, validationRuleCreateSchema,
       ValidationRuleCreate
  <2>4. Storable("rule", 1)
    BY Kinds, <1>1, <1>2 DEF Storable, ValidationRule, validationRuleCreateSchema
  <2>5. QED
    BY <1>7, <2>1, <2>2, <2>3, <2>4 DEF Tables
<1>9. Tables("rule", 2)
  <2>1. /\ InputsTyped("rule", 2)
       /\ DefaultsTyped("rule", 2)
       /\ Fillable("rule", 2)
       /\ Linked("rule", 2)
    BY Kinds, <1>1, <1>2, <1>3, <1>4, <1>5 DEF InputsTyped, DefaultsTyped, Fillable, Linked, Value
  <2>2. Sendable("rule", 2)
    BY Kinds, <1>1, <1>2, <1>3, <1>4, <1>5 DEF Sendable, ValidationRule
  <2>3. Excusable("rule", 2)
    BY Kinds, <1>1, <1>2, <1>3, <1>4, <1>5, <1>6 DEF Excusable, ValidationRule
  <2>4. Storable("rule", 2)
    BY Kinds, <1>1, <1>2, <1>3, <1>4 DEF Storable, ValidationRule
  <2>5. QED
    BY <1>7, <2>1, <2>2, <2>3, <2>4 DEF Tables
<1>10. QED
  BY <1>1, <1>8, <1>9

LEMMA WebhookTables == \A m \in DOMAIN Dialog["webhook"].schemas : Tables("webhook", m)
<1>1. /\ DOMAIN Dialog["webhook"].schemas = {1, 2}
      /\ Dialog["webhook"].row = Webhook
      /\ Inputs("webhook", 1) = All({"name", "url", "http_method", "secret", "events"},
          TextInput) ++ All({"timeout", "retry_count"}, NumberInput) ++ All({"enabled",
          "ssl_verify"}, Checkbox)
      /\ Inputs("webhook", 2) = Inputs("webhook", 1)
      /\ Dialog["webhook"].empty = [name |-> "blank", url |-> "blank", http_method |-> "text",
          secret |-> "blank", events |-> "none", enabled |-> "true", ssl_verify |-> "true",
          timeout |-> "num", retry_count |-> "num"]
      /\ Dialog["webhook"].load = [secret |-> "blank"] ++ All(DOMAIN Webhook, "null")
      /\ Zod("webhook", 1) = webhookCreateSchema
      /\ Bodies("webhook", 1) = WebhookCreate
      /\ Zod("webhook", 2) = webhookUpdateSchema
      /\ Bodies("webhook", 2) = WebhookUpdate
  BY DEF Inputs, Zod, Bodies, Dialog, WebhookForm, CrudFormModal
<1>2. /\ DOMAIN Inputs("webhook", 1) = {"enabled", "events", "http_method", "name", "retry_count",
            "secret", "ssl_verify", "timeout", "url"}
      /\ \A f \in {"enabled", "ssl_verify"} : Inputs("webhook", 1)[f] = Checkbox
      /\ \A f \in {"events", "http_method", "name", "secret", "url"} : Inputs("webhook",
            1)[f] = TextInput
      /\ \A f \in {"retry_count", "timeout"} : Inputs("webhook", 1)[f] = NumberInput
  BY <1>1 DEF ++, All
<1>3. /\ DOMAIN Dialog["webhook"].load = {"enabled", "events", "http_method", "name",
            "retry_count", "secret", "ssl_verify", "timeout", "url"}
      /\ \A f \in {"enabled", "events", "http_method", "name", "retry_count", "ssl_verify",
            "timeout", "url"} : Dialog["webhook"].load[f] = "null"
      /\ Dialog["webhook"].load["secret"] = "blank"
  BY <1>1 DEF ++, All, Webhook
<1>4. /\ DOMAIN Zod("webhook", 2) = {"enabled", "events", "http_method", "name", "retry_count",
            "secret", "ssl_verify", "timeout", "url"}
      /\ \A f \in {"enabled", "ssl_verify"} : Zod("webhook", 2)[f] = Default(Boolean)
      /\ Zod("webhook", 2)["events"] = Opt(List)
      /\ Zod("webhook", 2)["http_method"] = Default(Enum)
      /\ \A f \in {"name", "url"} : Zod("webhook", 2)[f] = Opt(Required)
      /\ \A f \in {"retry_count", "timeout"} : Zod("webhook", 2)[f] = Default(ZNum)
      /\ Zod("webhook", 2)["secret"] = Blank(Str)
  BY <1>1 DEF webhookUpdateSchema, Optional, webhookCreateSchema
<1>5. /\ DOMAIN Bodies("webhook", 2) = {"enabled", "events", "http_method", "name", "retry_count",
            "secret", "ssl_verify", "timeout", "url"}
      /\ \A f \in {"enabled", "ssl_verify"} : Bodies("webhook", 2)[f] = Opt(Opt(Boolean))
      /\ Bodies("webhook", 2)["events"] = Opt(Opt(OrNull(List)))
      /\ Bodies("webhook", 2)["http_method"] = Opt(Opt(String))
      /\ \A f \in {"name", "url"} : Bodies("webhook", 2)[f] = Opt(String)
      /\ \A f \in {"retry_count", "timeout"} : Bodies("webhook", 2)[f] = Opt(Opt(Number))
      /\ Bodies("webhook", 2)["secret"] = Opt(Opt(OrNull(String)))
  BY <1>1 DEF WebhookUpdate, WebhookCreate
<1>6. {<<"webhook", "timeout", "NaN">>, <<"webhook", "retry_count", "NaN">>, <<"webhook",
        "http_method", "blank">>, <<"webhook", "events", "blank">>, <<"webhook", "events",
        "text">>} \subseteq Refusing
  BY DEF Refusing
<1> USE DEF Opt, OrNull, Required, Blank, Str, Default, ZNum, Enum, Text, Choice, AnyNum, Num,
    List, Boolean, Number, Named, String, Wants, Untouched, Entered, Starts, Besides, RowHas,
    FromRow, SentAs, At, Set, Means, VipDialogs, NeverStored, NotStored, V3Choices, Known
<1>7. RowTyped("webhook")
  BY <1>1 DEF RowTyped, Value, Webhook
<1>8. Tables("webhook", 1)
  <2>1. /\ InputsTyped("webhook", 1)
       /\ DefaultsTyped("webhook", 1)
       /\ Fillable("webhook", 1)
       /\ Linked("webhook", 1)
    BY Kinds, <1>1, <1>2 DEF InputsTyped, DefaultsTyped, Fillable, Linked, webhookCreateSchema,
       WebhookCreate, Value
  <2>2. Sendable("webhook", 1)
    BY Kinds, <1>1, <1>2 DEF Sendable, Webhook, webhookCreateSchema, WebhookCreate
  <2>3. Excusable("webhook", 1)
    BY Kinds, <1>1, <1>2, <1>6 DEF Excusable, Webhook, webhookCreateSchema, WebhookCreate
  <2>4. Storable("webhook", 1)
    BY Kinds, <1>1, <1>2 DEF Storable, Webhook, webhookCreateSchema
  <2>5. EventLinks("webhook", 1)
    BY Kinds, <1>1, <1>2 DEF EventLinks, Webhook, webhookCreateSchema, WebhookCreate
  <2>6. QED
    BY <1>7, <2>1, <2>2, <2>3, <2>4, <2>5 DEF Tables
<1>9. Tables("webhook", 2)
  <2>1. /\ InputsTyped("webhook", 2)
       /\ DefaultsTyped("webhook", 2)
       /\ Fillable("webhook", 2)
       /\ Linked("webhook", 2)
    BY Kinds, <1>1, <1>2, <1>3, <1>4, <1>5 DEF InputsTyped, DefaultsTyped, Fillable, Linked, Value
  <2>2. Sendable("webhook", 2)
    BY Kinds, <1>1, <1>2, <1>3, <1>4, <1>5 DEF Sendable, Webhook
  <2>3. Excusable("webhook", 2)
    BY Kinds, <1>1, <1>2, <1>3, <1>4, <1>5, <1>6 DEF Excusable, Webhook
  <2>4. Storable("webhook", 2)
    BY Kinds, <1>1, <1>2, <1>3, <1>4 DEF Storable, Webhook
  <2>5. EventLinks("webhook", 2)
    BY Kinds, <1>1, <1>2, <1>3, <1>4, <1>5 DEF EventLinks, Webhook
  <2>6. QED
    BY <1>7, <2>1, <2>2, <2>3, <2>4, <2>5 DEF Tables
<1>10. QED
  BY <1>1, <1>8, <1>9

LEMMA AllTables == \A n \in DOMAIN Dialog : \A m \in DOMAIN Dialog[n].schemas : Tables(n, m)
<1>1. DOMAIN Dialog = {"site", "vlan", "subnet", "ip", "record", "allocate", "scan", "discover",
                       "user", "snmp", "winrm", "tag", "vrf", "rir", "aggregate", "range", "asn",
                       "customField", "rule", "webhook"}
  BY DEF Dialog
<1>2. QED
  BY <1>1, SiteTables, VlanTables, SubnetTables, IpTables, RecordTables, AllocateTables,
     ScanTables, DiscoverTables, UserTables, SnmpTables, WinrmTables, TagTables, VrfTables,
     RirTables, AggregateTables, RangeTables, AsnTables, CustomFieldTables, RuleTables,
     WebhookTables

LEMMA VipRows == \A n \in VipDialogs : Dialog[n].row = IPAddress
  BY DEF VipDialogs, Dialog, IpFormModal, EditIpModal

-----------------------------------------------------------------------------
(* The invariant, of the dialog n in mode m with the row r, of which the   *)
(* inputs t were changed and the values are v.                             *)

Loads(n, m, r, f) == IF m = 1 THEN At(Dialog[n].empty, f) ELSE FromRow(n, f, At(r, f))

\* The row has what its table allows; only a VIP has a type and bindings.
RowFits(n, m, r) ==
    IF m = 1 THEN r = [f \in DOMAIN Dialog[n].row |-> "absent"]
    ELSE /\ DOMAIN r = DOMAIN Dialog[n].row
         /\ \A f \in DOMAIN r : r[f] \in RowHas(n, f)
         /\ n \in VipDialogs =>
               \/ r.is_vip = "true"
               \/ r.is_vip = "false" /\ r.vip_type = "null" /\ r.node_bindings = "null"

\* x, of an input nobody changed, is what it started from, what the mounted
\* element reads, or what a required field was first filled with.
Alone(n, m, r, f, x) ==
    \/ x = Loads(n, m, r, f)
    \/ /\ Loads(n, m, r, f) = "absent"
       /\ f \in DOMAIN Inputs(n, m) /\ x = Inputs(n, m)[f].empty
    \/ Wants(n, m, f) /\ x \in {"text", "uuid", "num"} /\ x \in Inputs(n, m)[f].typed

\* The input whose change also sets f.
Trigger(f) == IF f = "node_bindings" THEN "is_vip" ELSE "schedule_preset"

Field(n, m, r, t, f, x) ==
    \/ x \in Besides(n, f) /\ Trigger(f) \in t
    \/ f \in t /\ x \in Inputs(n, m)[f].typed
    \/ f \notin t /\ Alone(n, m, r, f, x)

ValuesFit(n, m, r, t, v) ==
    /\ DOMAIN v = DOMAIN Inputs(n, m)
                  \cup DOMAIN (IF m = 1 THEN Dialog[n].empty ELSE Dialog[n].load)
    /\ t \subseteq DOMAIN Inputs(n, m)
    /\ \A f \in DOMAIN v : Field(n, m, r, t, f, v[f])

\* What only a VIP has is changed in a VIP only, and goes with the VIP.
VipFits(n, t, v) ==
    n \in VipDialogs =>
        /\ t \cap {"vip_type", "node_bindings"} # {} => "is_vip" \in t \/ v.is_vip = "true"
        /\ v.is_vip # "true" => v.node_bindings # "some"

SentFits ==
    /\ phase \in {"open", "refused", "sent", "saved", "failed"}
    /\ phase = "refused" => ~Accepted
    /\ phase \in {"sent", "saved", "failed"} => Accepted /\ body = Submitted(Parsed)
    /\ phase \in {"open", "refused"} => body = <<>>
    /\ stored = IF phase = "saved" THEN Merged ELSE row

Opened == form \in Form /\ mode \in DOMAIN D.schemas

FormsInv ==
    /\ Opened /\ RowFits(form, mode, row) /\ ValuesFit(form, mode, row, touched, values)
    /\ VipFits(form, touched, values) /\ SentFits

LEMMA Looked ==
  ASSUME Opened
  PROVE  /\ Tables(form, mode) /\ D = Dialog[form] /\ Mounts(mode) = Inputs(form, mode)
         /\ Schema = Zod(form, mode) /\ D.bodies[mode] = Bodies(form, mode)
  BY AllTables, FormsAssumption DEF Opened, D, Mounts, Schema, Inputs, Zod, Bodies

LEMMA RowsFit ==
  ASSUME NEW n \in DOMAIN Dialog, RowTyped(n), NEW r \in Rows(Dialog[n].row)
  PROVE  RowFits(n, 2, r)
<1> DEFINE type == Dialog[n].row
           some == {Filled(type), Bare(type), Blanked(type)}
                   \cup {Foreign(type, g) : g \in {f \in DOMAIN type : "other" \in type[f]}}
<1>1. ASSUME NEW s \in some
      PROVE  DOMAIN s = DOMAIN type /\ \A f \in DOMAIN type : s[f] \in RowHas(n, f)
  <2>1. ASSUME NEW f \in DOMAIN type PROVE Filled(type)[f] \in type[f]
    BY DEF Filled, RowTyped
  <2>2. ASSUME NEW f \in DOMAIN type PROVE Bare(type)[f] \in type[f]
    BY <2>1 DEF Bare
  <2>3. ASSUME NEW f \in DOMAIN type PROVE Blanked(type)[f] \in RowHas(n, f)
    BY <2>1 DEF Blanked, RowHas
  <2>4. ASSUME NEW g \in DOMAIN type, "other" \in type[g], NEW f \in DOMAIN type
        PROVE  Foreign(type, g)[f] \in type[f]
    BY <2>1, <2>4 DEF Foreign, Filled
  <2>5. \A f \in DOMAIN type : type[f] \subseteq RowHas(n, f)
    BY DEF RowHas
  <2>6. DOMAIN s = DOMAIN type
    BY DEF Filled, Bare, Blanked, Foreign
  <2>7. QED
    BY <2>1, <2>2, <2>3, <2>4, <2>5, <2>6
<1>2. CASE type # IPAddress
  <2>1. r \in some
    BY <1>2 DEF Rows
  <2>2. n \notin VipDialogs
    BY <1>2, VipRows
  <2>3. QED
    BY <1>1, <2>1, <2>2 DEF RowFits
<1>3. CASE type = IPAddress
  <2>1. PICK s \in some :
           \/ r = [s EXCEPT !.is_vip = "true", !.vip_type = "text", !.node_bindings = "some"]
           \/ r = [s EXCEPT !.is_vip = "false", !.vip_type = "null", !.node_bindings = "null"]
    BY <1>3 DEF Rows
  <2>2. /\ {"is_vip", "vip_type", "node_bindings"} \subseteq DOMAIN type
        /\ type["is_vip"] = Boolean /\ type["vip_type"] = OrNull(Text)
        /\ type["node_bindings"] = OrNull(List)
    BY <1>3 DEF IPAddress
  <2>3. DOMAIN s = DOMAIN type /\ \A f \in DOMAIN type : s[f] \in RowHas(n, f)
    BY <1>1
  <2>4. DOMAIN r = DOMAIN type
    BY <2>1, <2>3
  <2>5. \A f \in DOMAIN type \ {"is_vip", "vip_type", "node_bindings"} : r[f] = s[f]
    BY <2>1, <2>3
  <2>6. \/ r.is_vip = "true" /\ r.vip_type = "text" /\ r.node_bindings = "some"
        \/ r.is_vip = "false" /\ r.vip_type = "null" /\ r.node_bindings = "null"
    BY <2>1, <2>2, <2>3
  <2>7. /\ r["is_vip"] \in RowHas(n, "is_vip") /\ r["vip_type"] \in RowHas(n, "vip_type")
        /\ r["node_bindings"] \in RowHas(n, "node_bindings")
    BY <2>2, <2>6 DEF RowHas, Boolean, OrNull, Text, List
  <2>8. \A f \in DOMAIN type : r[f] \in RowHas(n, f)
    BY <2>3, <2>5, <2>7
  <2>9. QED
    BY <2>4, <2>6, <2>8 DEF RowFits
<1>4. QED
  BY <1>2, <1>3

LEMMA DefaultsLoad ==
  ASSUME Opened, RowFits(form, mode, row)
  PROVE  /\ DOMAIN Defaults = DOMAIN (IF mode = 1 THEN D.empty ELSE D.load)
         /\ \A f : At(Defaults, f) = Loads(form, mode, row, f)
<1>1. Tables(form, mode) /\ D = Dialog[form]
  BY Looked
<1>2. CASE mode = 1
  BY <1>1, <1>2 DEF Defaults, Loads
<1>3. CASE mode # 1
  <2>1. mode = 2 /\ DOMAIN row = DOMAIN D.row
    BY <1>1, <1>3 DEF Tables, DefaultsTyped, RowFits
  <2>2. ASSUME NEW f, form # "webhook" \/ f # "events"
        PROVE  At(Loaded(row), f) = FromRow(form, f, At(row, f))
    BY <1>1, <2>2 DEF Loaded, FromRow, At
  <2>3. CASE form = "webhook"
    <3>1. "events" \in DOMAIN D.load /\ "events" \in DOMAIN row
      BY <1>1, <2>1, <2>3 DEF Tables, EventLinks
    <3>2. At(Loaded(row), "events") = FromRow(form, "events", At(row, "events"))
      BY <2>3, <3>1 DEF Loaded, FromRow, At
    <3>3. QED
      BY <1>1, <1>3, <2>2, <3>2 DEF Defaults, Loads, Loaded
  <2>4. CASE form # "webhook"
    BY <1>1, <1>3, <2>2, <2>4 DEF Defaults, Loads, Loaded
  <2>5. QED
    BY <2>3, <2>4
<1>4. QED
  BY <1>2, <1>3

LEMMA MountedReads ==
  ASSUME NEW v
  PROVE  /\ DOMAIN Mounted(v) = DOMAIN v
         /\ \A f \in DOMAIN v : \/ Mounted(v)[f] = v[f]
                                \/ /\ v[f] = "absent" /\ f \in DOMAIN Mounts(mode)
                                   /\ Mounted(v)[f] = Mounts(mode)[f].empty
<1>1. Shown(v) \subseteq DOMAIN Mounts(mode)
  BY DEF Shown
<1>2. QED
  BY <1>1 DEF Mounted

LEMMA FieldReads ==
  ASSUME NEW n, NEW m, Tables(n, m), NEW r, NEW t, NEW f, NEW x, Field(n, m, r, t, f, x),
         t \subseteq DOMAIN Inputs(n, m), x = "absent", f \in DOMAIN Inputs(n, m)
  PROVE  Field(n, m, r, t, f, Inputs(n, m)[f].empty)
  BY DEF Tables, InputsTyped, Field, Alone, Besides

LEMMA ValuesRead ==
  ASSUME Opened, NEW t, NEW v, ValuesFit(form, mode, row, t, v)
  PROVE  ValuesFit(form, mode, row, t, Mounted(v))
  BY Looked, MountedReads, FieldReads DEF ValuesFit

LEMMA StartFits ==
  ASSUME Opened, RowFits(form, mode, row), values = Start, touched = {}
  PROVE  ValuesFit(form, mode, row, {}, values) /\ VipFits(form, {}, values)
<1>1. Tables(form, mode) /\ D = Dialog[form] /\ Mounts(mode) = Inputs(form, mode)
  BY Looked
<1> DEFINE v == [f \in DOMAIN Mounts(mode) \cup DOMAIN Defaults |-> At(Defaults, f)]
<1>2. ValuesFit(form, mode, row, {}, v)
  <2>1. \A f \in DOMAIN v : Field(form, mode, row, {}, f, v[f])
    BY DefaultsLoad DEF Field, Alone
  <2>2. QED
    BY <1>1, <2>1, DefaultsLoad DEF ValuesFit
<1>3. ValuesFit(form, mode, row, {}, values)
  <2>1. ValuesFit(form, mode, row, {}, Mounted(v))
    BY <1>2, ValuesRead
  <2>2. ValuesFit(form, mode, row, {}, Mounted(Mounted(v)))
    BY <2>1, ValuesRead
  <2>3. QED
    BY <2>2 DEF Start
<1>4. ASSUME form \in VipDialogs, values.is_vip # "true" PROVE values.node_bindings # "some"
  <2>1. VipLinks(form, mode) /\ mode \in {1, 2}
    BY <1>1, <1>4 DEF Tables, DefaultsTyped
  <2>2. {"is_vip", "node_bindings"} \subseteq DOMAIN values
    BY <1>3, <2>1 DEF VipLinks, ValuesFit
  <2>3. SUFFICES ASSUME values.node_bindings = "some" PROVE FALSE
    OBVIOUS
  <2>4. Loads(form, mode, row, "node_bindings") = "some"
    BY <1>3, <2>1, <2>2, <2>3 DEF ValuesFit, Field, Alone, VipLinks, Besides
  <2>5. mode = 2 /\ At(row, "node_bindings") = "some"
    BY <1>4, <2>1, <2>4 DEF Loads, VipLinks, FromRow, VipDialogs
  <2>6. row.is_vip = "true" /\ "is_vip" \in DOMAIN row
    BY <1>4, <2>1, <2>5 DEF RowFits, At, VipLinks
  <2>7. Loads(form, mode, row, "is_vip") = "true"
    BY <1>4, <2>1, <2>5, <2>6 DEF Loads, FromRow, At, VipLinks, VipDialogs
  <2>8. QED
    BY <1>3, <1>4, <2>1, <2>2, <2>7 DEF ValuesFit, Field, Alone, VipLinks, Besides
<1>5. QED
  BY <1>3, <1>4 DEF VipFits

LEMMA FormsInvInit == FormsInit => FormsInv
<1> SUFFICES ASSUME FormsInit PROVE FormsInv
  OBVIOUS
<1>1. Opened /\ Tables(form, mode)
  BY Looked DEF FormsInit, Opened
<1>2. RowFits(form, mode, row)
  <2>1. CASE mode = 1
    BY <2>1 DEF FormsInit, RowFits, D
  <2>2. CASE mode # 1
    <3>1. mode = 2 /\ RowTyped(form) /\ row \in Rows(Dialog[form].row) /\ form \in DOMAIN Dialog
      BY <1>1, <2>2, FormsAssumption DEF FormsInit, Tables, DefaultsTyped, D, Opened
    <3>2. QED
      BY <3>1, RowsFit
  <2>3. QED
    BY <2>1, <2>2
<1>3. SentFits
  BY DEF FormsInit, SentFits
<1>4. QED
  BY <1>1, <1>2, <1>3, StartFits DEF FormsInit, FormsInv

\* What a change of f to x makes of the other values.
LEMMA EffectsOf ==
  ASSUME NEW v, NEW f, NEW x
  PROVE  LET w == Effects(v, f, x) IN
         /\ DOMAIN w = DOMAIN v
         /\ \A g \in DOMAIN v :
              \/ w[g] = v[g]
              \/ f = "is_vip" /\ g = "node_bindings" /\ w[g] = "none"
              \/ f = "schedule_preset" /\ g \in {"is_scheduled", "is_recursive"}
                 /\ w[g] \in {"true", "false"}
              \/ f = "schedule_preset" /\ g = "schedule_time" /\ w[g] \in {"null", "text"}
              \/ f = "schedule_preset" /\ g = "interval_minutes" /\ w[g] \in {"null", "num"}
         /\ f = "is_vip" /\ x = "false" /\ "node_bindings" \in DOMAIN v
                => w["node_bindings"] = "none"
<1>1. CASE f = "is_vip" /\ x = "false"
  BY <1>1 DEF Effects
<1>2. CASE f = "schedule_preset" /\ x = "off"
  BY <1>2 DEF Effects
<1>3. CASE f = "schedule_preset" /\ x # "off"
  BY <1>3 DEF Effects
<1>4. CASE ~(f = "is_vip" /\ x = "false") /\ f # "schedule_preset"
  BY <1>4 DEF Effects
<1>5. QED
  BY <1>1, <1>2, <1>3, <1>4

\* What is sent depends on the dialog and its values only.
LEMMA SentKept ==
  ASSUME UNCHANGED <<form, mode, row, values, touched>>
  PROVE  (Accepted' <=> Accepted) /\ Submitted(Parsed)' = Submitted(Parsed)
<1>1. D' = D /\ Schema' = Schema /\ Mounts(mode)' = Mounts(mode)
  BY DEF D, Schema, Mounts
<1>2. Accepted' <=> Accepted
  BY <1>1 DEF Accepted, Refined
<1>3. Parsed' = Parsed /\ Shown(values)' = Shown(values)
  BY <1>1 DEF Parsed, Shown
<1>4. QED
  BY <1>1, <1>2, <1>3 DEF Submitted, NotVip, Run

LEMMA EnterKeeps ==
  ASSUME FormsInv, NEW f \in Shown(values), NEW x \in Mounts(mode)[f].typed, Enter(f, x)
  PROVE  FormsInv'
<1> DEFINE v == [values EXCEPT ![f] = x]
           w == Effects(v, f, x)
           t == touched \cup {f}
<1>1. /\ Opened /\ Tables(form, mode) /\ Mounts(mode) = Inputs(form, mode)
      /\ RowFits(form, mode, row) /\ ValuesFit(form, mode, row, touched, values)
      /\ VipFits(form, touched, values) /\ SentFits
  BY Looked DEF FormsInv
<1>2. /\ phase = "open" /\ values' = Mounted(w) /\ touched' = t
      /\ UNCHANGED <<form, mode, row, phase, body, stored>>
  BY DEF Enter
<1>3. f \in DOMAIN Inputs(form, mode) /\ x \in Inputs(form, mode)[f].typed
  BY <1>1 DEF Shown
<1>4. /\ DOMAIN v = DOMAIN values /\ f \in DOMAIN values
      /\ v[f] = x /\ \A g \in DOMAIN values \ {f} : v[g] = values[g]
  BY <1>1, <1>3 DEF ValuesFit
<1>5. f = "is_vip" => form \in VipDialogs
  BY <1>1, <1>3 DEF Tables, Linked
<1>6. f = "schedule_preset" => form = "scan"
  BY <1>1, <1>3 DEF Tables, Linked
<1>7. ValuesFit(form, mode, row, t, w)
  <2>1. ASSUME NEW g \in DOMAIN values, g # f, w[g] = v[g] PROVE Field(form, mode, row, t, g, w[g])
    BY <1>1, <1>4, <2>1 DEF ValuesFit, Field
  <2>2. ASSUME w[f] = v[f] PROVE Field(form, mode, row, t, f, w[f])
    BY <1>3, <1>4, <2>2 DEF Field
  <2>3. ASSUME NEW g \in DOMAIN values, w[g] # v[g] PROVE Field(form, mode, row, t, g, w[g])
    <3>1. w[g] \in Besides(form, g) /\ Trigger(g) = f
      BY <1>4, <1>5, <1>6, <2>3, EffectsOf DEF Besides, Trigger, VipDialogs
    <3>2. QED
      BY <3>1 DEF Field
  <2>4. DOMAIN w = DOMAIN values
    BY <1>4, EffectsOf
  <2>5. QED
    BY <1>1, <1>3, <2>1, <2>2, <2>3, <2>4 DEF ValuesFit
<1>8. ValuesFit(form, mode, row, t, Mounted(w))
  BY <1>1, <1>7, ValuesRead
<1>9. VipFits(form, t, Mounted(w))
  <2> SUFFICES ASSUME form \in VipDialogs PROVE VipFits(form, t, Mounted(w))
    BY DEF VipFits
  <2> DEFINE u == Mounted(w)
  <2>1. VipLinks(form, mode) /\ {"is_vip", "vip_type", "node_bindings"} \subseteq DOMAIN values
    BY <1>1 DEF Tables, VipLinks, ValuesFit
  <2>2. DOMAIN w = DOMAIN values /\ DOMAIN u = DOMAIN values
    BY <1>4, EffectsOf, MountedReads
  <2>3. ASSUME f # "is_vip" PROVE u.is_vip = "true" <=> values.is_vip = "true"
    <3>1. w.is_vip = values.is_vip
      BY <1>4, <2>1, <2>3, EffectsOf
    <3>2. QED
      BY <1>1, <2>1, <2>2, <3>1, MountedReads DEF VipLinks
  <2>4. ASSUME f \in {"vip_type", "node_bindings"} PROVE values.is_vip = "true"
    BY <2>4 DEF Shown, VipDialogs
  <2>5. t \cap {"vip_type", "node_bindings"} # {} => "is_vip" \in t \/ u.is_vip = "true"
    BY <1>1, <2>3, <2>4 DEF VipFits
  <2>6. ASSUME u.is_vip # "true" PROVE u.node_bindings # "some"
    <3>1. w.node_bindings # "some"
      <4>1. CASE f = "is_vip"
        <5>1. x # "true"
          <6>1. w.is_vip = x
            BY <1>4, <2>1, <4>1, EffectsOf
          <6>2. QED
            BY <2>1, <2>2, <2>6, <6>1, MountedReads
        <5>2. x = "false"
          BY <1>3, <2>1, <4>1, <5>1 DEF VipLinks
        <5>3. w["node_bindings"] = "none"
          BY <1>4, <2>1, <4>1, <5>2, EffectsOf
        <5>4. QED
          BY <5>3
      <4>2. CASE f # "is_vip"
        <5>1. values.is_vip # "true" /\ f # "node_bindings"
          BY <2>3, <2>4, <2>6, <4>2
        <5>2. w.node_bindings = values.node_bindings
          BY <1>4, <1>6, <2>1, <4>2, <5>1, EffectsOf
        <5>3. QED
          BY <1>1, <5>1, <5>2 DEF VipFits
      <4>3. QED
        BY <4>1, <4>2
    <3>2. QED
      BY <1>1, <2>1, <2>2, <3>1, MountedReads DEF VipLinks
  <2>7. QED
    BY <2>5, <2>6 DEF VipFits
<1>10. SentFits'
  BY <1>1, <1>2 DEF SentFits
<1>11. Opened'
  BY <1>1, <1>2 DEF Opened, D
<1>12. QED
  BY <1>1, <1>2, <1>8, <1>9, <1>10, <1>11 DEF FormsInv

LEMMA FillNeededKeeps ==
  ASSUME FormsInv, FillNeeded
  PROVE  FormsInv'
<1>1. /\ Opened /\ Tables(form, mode) /\ Mounts(mode) = Inputs(form, mode)
      /\ D.bodies[mode] = Bodies(form, mode) /\ RowFits(form, mode, row)
      /\ ValuesFit(form, mode, row, touched, values) /\ VipFits(form, touched, values) /\ SentFits
  BY Looked DEF FormsInv
<1>2. /\ phase = "open" /\ touched = {} /\ touched' = {}
      /\ UNCHANGED <<form, mode, row, phase, body, stored>>
      /\ values' = [f \in DOMAIN values |-> IF f \in Missing(values)
                                            THEN Good(Mounts(mode)[f]) ELSE values[f]]
  BY DEF FillNeeded
<1>3. ASSUME NEW f \in DOMAIN values, f \in Missing(values)
      PROVE  /\ Wants(form, mode, f) /\ values[f] \in {"absent", "blank", "NaN"}
             /\ f \in DOMAIN Inputs(form, mode)
             /\ values'[f] \in Inputs(form, mode)[f].typed \cap {"text", "uuid", "num"}
  <2>1. Wants(form, mode, f) /\ values[f] \in {"absent", "blank", "NaN"}
    BY <1>1, <1>3 DEF Missing, Needed, Wants, At
  <2>2. /\ f \in DOMAIN Inputs(form, mode)
        /\ \E v \in Inputs(form, mode)[f].typed : v \in {"text", "uuid", "num"}
    BY <1>1, <2>1 DEF Tables, Fillable
  <2>3. Good(Mounts(mode)[f]) \in Inputs(form, mode)[f].typed \cap {"text", "uuid", "num"}
    BY <1>1, <2>2 DEF Good
  <2>4. QED
    BY <1>2, <1>3, <2>1, <2>2, <2>3
<1>4. ValuesFit(form, mode, row, {}, values')
  BY <1>1, <1>2, <1>3 DEF ValuesFit, Field, Alone
<1>5. VipFits(form, {}, values')
  <2> SUFFICES ASSUME form \in VipDialogs, values'.is_vip # "true"
               PROVE  values'.node_bindings # "some"
    BY DEF VipFits
  <2>1. {"is_vip", "node_bindings"} \subseteq DOMAIN values
    BY <1>1 DEF Tables, VipLinks, ValuesFit
  <2>2. values.is_vip # "true"
    BY <1>2, <1>3, <2>1
  <2>3. values.node_bindings # "some"
    BY <1>1, <2>2 DEF VipFits
  <2>4. QED
    BY <1>2, <1>3, <2>1, <2>3
<1>6. SentFits'
  BY <1>1, <1>2 DEF SentFits
<1>7. Opened'
  BY <1>1, <1>2 DEF Opened, D
<1>8. QED
  BY <1>1, <1>2, <1>4, <1>5, <1>6, <1>7 DEF FormsInv

LEMMA FormsInvNext == FormsInv /\ [FormsNext]_formVars => FormsInv'
<1> SUFFICES ASSUME FormsInv, [FormsNext]_formVars PROVE FormsInv'
  OBVIOUS
<1>1. ASSUME UNCHANGED <<form, mode, row, values, touched>>, SentFits' PROVE FormsInv'
  BY <1>1 DEF FormsInv, Opened, D
<1>2. ASSUME NEW f \in Shown(values), NEW x \in Mounts(mode)[f].typed, Enter(f, x)
      PROVE  FormsInv'
  BY <1>2, EnterKeeps
<1>3. CASE FillNeeded
  BY <1>3, FillNeededKeeps
<1>4. CASE Submit
  <2>1. /\ Accepted /\ phase' = "sent" /\ body' = Submitted(Parsed) /\ stored' = row'
        /\ UNCHANGED <<form, mode, row, values, touched>>
    BY <1>4 DEF Submit, FormsInv, SentFits
  <2>2. SentFits'
    BY <2>1, SentKept DEF SentFits
  <2>3. QED
    BY <1>1, <2>1, <2>2
<1>5. CASE Refuse
  <2>1. /\ ~Accepted /\ phase' = "refused" /\ body' = <<>> /\ stored' = row'
        /\ UNCHANGED <<form, mode, row, values, touched>>
    BY <1>5 DEF Refuse, FormsInv, SentFits
  <2>2. SentFits'
    BY <2>1, SentKept DEF SentFits
  <2>3. QED
    BY <1>1, <2>1, <2>2
<1>6. CASE Save
  <2>1. /\ Accepted /\ body = Submitted(Parsed) /\ stored = row
        /\ UNCHANGED <<form, mode, row, values, touched, body>>
        /\ \/ phase' = "failed" /\ stored' = stored
           \/ phase' = "saved" /\ stored' = Merged
    BY <1>6 DEF Save, FormsInv, SentFits
  <2>2. Merged' = Merged
    BY <2>1 DEF Merged, Taken, Ignored
  <2>3. SentFits'
    BY <2>1, <2>2, SentKept DEF SentFits
  <2>4. QED
    BY <1>1, <2>1, <2>3
<1>7. CASE UNCHANGED formVars
  <2>1. UNCHANGED <<form, mode, row, values, touched, phase, body, stored>>
    BY <1>7 DEF formVars
  <2>2. Merged' = Merged
    BY <2>1 DEF Merged, Taken, Ignored
  <2>3. SentFits'
    BY <2>1, <2>2, SentKept DEF SentFits, FormsInv
  <2>4. QED
    BY <1>1, <2>1, <2>3
<1>8. QED
  BY <1>2, <1>3, <1>4, <1>5, <1>6, <1>7 DEF FormsNext

LEMMA FormsInvAlways == FormsSpec => []FormsInv
  BY FormsInvInit, FormsInvNext, PTL DEF FormsSpec

-----------------------------------------------------------------------------
(* What the invariant says of one value, and of one field of the body.     *)

LEMMA ValueOf ==
  ASSUME FormsInv, NEW f
  PROVE  \/ Untouched(form, mode, f, At(values, f))
         \/ f \in touched /\ Entered(form, mode, f, At(values, f))
<1>1. /\ Tables(form, mode) /\ RowFits(form, mode, row) /\ mode \in {1, 2}
      /\ ValuesFit(form, mode, row, touched, values)
  BY Looked DEF FormsInv, Tables, DefaultsTyped
<1>2. ASSUME NEW x, x = Loads(form, mode, row, f) PROVE Starts(form, mode, f, x)
  <2>1. CASE mode = 1
    BY <1>2, <2>1 DEF Loads, Starts
  <2>2. CASE mode = 2
    <3>1. At(row, f) \in RowHas(form, f)
      BY <1>1, <2>2 DEF RowFits, At, RowHas
    <3>2. QED
      BY <1>2, <2>2, <3>1 DEF Loads, Starts
  <2>3. QED
    BY <1>1, <2>1, <2>2
<1>3. CASE f \in DOMAIN values
  <2>1. Field(form, mode, row, touched, f, values[f])
    BY <1>1, <1>3 DEF ValuesFit
  <2>2. CASE values[f] \in Besides(form, f)
    BY <1>3, <2>2 DEF Untouched, At
  <2>3. CASE f \in touched /\ values[f] \in Inputs(form, mode)[f].typed
    BY <1>1, <1>3, <2>3 DEF Entered, At, ValuesFit
  <2>4. CASE Alone(form, mode, row, f, values[f])
    BY <1>2, <1>3, <2>4 DEF Alone, Untouched, At
  <2>5. QED
    BY <2>1, <2>2, <2>3, <2>4 DEF Field
<1>4. CASE f \notin DOMAIN values
  <2>1. f \notin DOMAIN (IF mode = 1 THEN Dialog[form].empty ELSE Dialog[form].load)
    BY <1>1, <1>4 DEF ValuesFit
  <2>2. Loads(form, mode, row, f) = "absent"
    BY <1>1, <2>1 DEF Loads, FromRow, At, Tables, EventLinks
  <2>3. QED
    BY <1>2, <1>4, <2>2 DEF Untouched, At
<1>5. QED
  BY <1>3, <1>4

\* The values that a run does not send.
NotSent(f) ==
    \/ f \notin Shown(values) \cap DOMAIN D.row
    \/ f \in {"snmp_credential_id", "winrm_credential_id"} /\ At(values, f) = "blank"

Resolved(f) == IF f \in DOMAIN Schema THEN At(values, f) ELSE "absent"

LEMMA BodyOf ==
  ASSUME FormsInv, NEW f
  PROVE  LET b == Submitted(Parsed) IN
         /\ f \in DOMAIN b => b[f] # "absent"
         /\ \/ At(b, f) = SentAs(form, f, Resolved(f))
            \/ /\ form \in VipDialogs /\ Resolved("is_vip") # "true"
               /\ \/ f = "vip_type" /\ At(b, f) = "null"
                  \/ f = "node_bindings" /\ At(b, f) = "none"
            \/ form = "discover" /\ NotSent(f) /\ At(b, f) = "absent"
<1> DEFINE c == [g \in DOMAIN Parsed |-> IF Parsed[g] = "blank" THEN "null" ELSE Parsed[g]]
<1>1. ASSUME NEW g
      PROVE  /\ g \in DOMAIN Parsed => Parsed[g] # "absent" /\ Resolved(g) # "absent"
             /\ At(Parsed, g) = IF Resolved(g) # "absent" /\ g = "port" THEN "num" ELSE Resolved(g)
  BY DEF Parsed, At, Resolved
<1>2. ASSUME NEW g
      PROVE  /\ g \in DOMAIN c => c[g] # "absent"
             /\ At(c, g) = IF At(Parsed, g) = "blank" THEN "null" ELSE At(Parsed, g)
  BY <1>1 DEF At
<1>3. ASSUME NEW b, \A g \in DOMAIN b : b[g] # "absent", NEW g
      PROVE  /\ g \in DOMAIN NotVip(b) => NotVip(b)[g] # "absent"
             /\ \/ At(NotVip(b), g) = At(b, g)
                \/ /\ At(b, "is_vip") # "true"
                   /\ \/ g = "vip_type" /\ At(NotVip(b), g) = "null"
                      \/ g = "node_bindings" /\ At(NotVip(b), g) = "none"
  BY <1>3 DEF NotVip, At, ++
<1>4. CASE form = "ip"
  BY <1>1, <1>3, <1>4 DEF Submitted, SentAs, VipDialogs
<1>5. CASE form = "record"
  <2>1. At(c, "is_vip") = "true" => Resolved("is_vip") = "true"
    BY <1>1, <1>2
  <2>2. Submitted(Parsed) = NotVip(c)
    BY <1>5 DEF Submitted
  <2>3. At(c, f) = SentAs(form, f, Resolved(f))
    BY <1>1, <1>2, <1>5 DEF SentAs
  <2>4. At(c, "is_vip") # "true" => Resolved("is_vip") # "true"
    BY <1>1, <1>2
  <2>5. QED
    BY <1>2, <1>3, <1>5, <2>2, <2>3, <2>4 DEF VipDialogs
<1>6. CASE form = "discover"
  <2>1. Submitted(Parsed) = Run(Parsed)
    BY <1>6 DEF Submitted
  <2>2. CASE f \in DOMAIN Run(Parsed)
    BY <1>1, <1>6, <2>1, <2>2 DEF Run, SentAs, At
  <2>3. CASE f \notin DOMAIN Run(Parsed)
    <3>1. f \notin DOMAIN Parsed \/ NotSent(f)
      BY <1>1, <2>3 DEF Run, NotSent, Parsed, At
    <3>2. QED
      BY <1>1, <1>6, <2>1, <2>3, <3>1 DEF SentAs, At
  <2>4. QED
    BY <2>2, <2>3
<1>7. CASE form = "webhook"
  BY <1>1, <1>7 DEF Submitted, SentAs, At, ++
<1>8. CASE form \notin {"ip", "record", "discover", "webhook"}
  BY <1>1, <1>8 DEF Submitted, SentAs
<1>9. QED
  BY <1>4, <1>5, <1>6, <1>7, <1>8

(* Whatever the user does in whatever dialog, the body that is sent is one *)
(* of types/api.ts: each key has a value of its type, and none that the    *)
(* interface wants is missing.                                             *)
LEMMA SentFitsBy == FormsInv => SentFitsTheApi
<1> SUFFICES ASSUME FormsInv, phase \in {"sent", "saved", "failed"},
                    NEW f \in DOMAIN Bodies(form, mode)
             PROVE  At(Submitted(Parsed), f) \in Bodies(form, mode)[f]
  BY Looked DEF SentFitsTheApi, FormsInv, SentFits
<1>1. /\ Tables(form, mode) /\ Accepted /\ RowFits(form, mode, row)
      /\ Schema = Zod(form, mode) /\ D = Dialog[form] /\ Mounts(mode) = Inputs(form, mode)
  BY Looked DEF FormsInv, SentFits
<1>2. SentAs(form, f, Resolved(f)) \in Bodies(form, mode)[f]
  <2>1. CASE f \in DOMAIN Schema
    <3>1. At(values, f) \in Zod(form, mode)[f]
      BY <1>1, <2>1 DEF Accepted
    <3>2. QED
      BY <1>1, <2>1, <3>1, ValueOf DEF Tables, Sendable, Resolved
  <2>2. CASE f \notin DOMAIN Schema
    BY <1>1, <2>2 DEF Tables, Sendable, Resolved
  <2>3. QED
    BY <2>1, <2>2
<1>3. ASSUME form \in VipDialogs
      PROVE  /\ f = "vip_type" => "null" \in Bodies(form, mode)[f]
             /\ f = "node_bindings" => "none" \in Bodies(form, mode)[f]
  BY <1>1, <1>3 DEF Tables, VipLinks
<1>4. ASSUME form = "discover", NotSent(f) PROVE "absent" \in Bodies(form, mode)[f]
  <2>1. ASSUME f = "scan_type" PROVE FALSE
    <3>1. "scan_type" \in DOMAIN Mounts(mode) \cap DOMAIN D.row
      BY <1>1, <1>4 DEF Tables, RunLinks
    <3>2. "scan_type" \in Shown(values)
      BY <1>4, <3>1 DEF Shown, HiddenOfRun, VipDialogs
    <3>3. QED
      BY <1>4, <2>1, <3>1, <3>2 DEF NotSent
  <2>2. QED
    BY <1>1, <1>4, <2>1 DEF Tables, RunLinks
<1>5. QED
  BY <1>2, <1>3, <1>4, BodyOf

\* What a user changed and a field of the row ends up with.
LEMMA TouchedStored ==
  ASSUME FormsInv, Accepted, body = Submitted(Parsed), NEW f \in DOMAIN row, f \in touched,
         ~FollowsVip(f), ~Dropped(f), ~(form = "discover" /\ f \notin Shown(values))
  PROVE  /\ Means(Merged[f]) =
            Means(IF f = "port" /\ values[f] = "text" THEN "num" ELSE values[f])
         /\ values[f] \in Many => Taken(f)
<1>1. /\ Tables(form, mode) /\ RowFits(form, mode, row) /\ mode \in {1, 2}
      /\ ValuesFit(form, mode, row, touched, values) /\ VipFits(form, touched, values)
      /\ Schema = Zod(form, mode) /\ D = Dialog[form]
  BY Looked DEF FormsInv, Tables, DefaultsTyped
<1>2. f \in DOMAIN values /\ f \in DOMAIN Inputs(form, mode) /\ DOMAIN row = DOMAIN D.row
  BY <1>1 DEF ValuesFit, RowFits
<1>3. f \in DOMAIN Schema /\ values[f] \in Schema[f]
  <2>1. f \in DOMAIN Schema
    BY <1>1, <1>2 DEF Tables, Storable, Dropped
  <2>2. QED
    BY <1>2, <2>1 DEF Accepted, At
<1>4. values[f] \in Besides(form, f) \/ Entered(form, mode, f, values[f])
  BY <1>1, <1>2 DEF ValuesFit, Field, Entered
<1>5. values[f] # "absent" /\ Resolved(f) = values[f]
  BY <1>1, <1>2, <1>3, <1>4 DEF Besides, Entered, Tables, InputsTyped, Resolved, At
<1>6. form = "webhook" => f # "events"
  BY <1>1, <1>3, <1>4, <1>5 DEF Tables, EventLinks, Entered, Besides, VipDialogs
<1>7. f = "port" => values[f] = "text"
  BY <1>1, <1>3, <1>4 DEF Tables, Linked, Besides
<1>8. Means(SentAs(form, f, values[f])) =
      Means(IF f = "port" /\ values[f] = "text" THEN "num" ELSE values[f])
  BY <1>5, <1>6, <1>7 DEF SentAs, Means
<1>9. form \in VipDialogs /\ f \in {"vip_type", "node_bindings"} => Resolved("is_vip") = "true"
  <2> SUFFICES ASSUME form \in VipDialogs, f \in {"vip_type", "node_bindings"}
               PROVE  Resolved("is_vip") = "true"
    OBVIOUS
  <2>1. values.is_vip = "true"
    BY <1>1 DEF VipFits, FollowsVip
  <2>2. "is_vip" \in DOMAIN values \cap DOMAIN Schema
    BY <1>1 DEF Tables, VipLinks, ValuesFit
  <2>3. QED
    BY <2>1, <2>2 DEF Resolved, At
<1>10. <<form, f>> \notin Ignored
  BY DEF Dropped, NeverStored, NotStored, Ignored
<1>11. /\ Merged[f] = IF f \in DOMAIN body THEN body[f] ELSE row[f]
       /\ Taken(f) <=> f \in DOMAIN body
  BY <1>10 DEF Merged, Taken
<1>12. CASE f \in DOMAIN body
  <2>1. At(body, f) = body[f] /\ body[f] # "absent"
    BY <1>12, BodyOf DEF At
  <2>2. body[f] = SentAs(form, f, values[f])
    BY <1>5, <1>9, <2>1, BodyOf
  <2>3. QED
    BY <1>8, <1>11, <1>12, <2>2
<1>13. CASE f \notin DOMAIN body
  <2>1. At(body, f) = "absent"
    BY <1>13 DEF At
  <2>2. SentAs(form, f, values[f]) # "absent"
    BY <1>5, <1>6 DEF SentAs
  <2>3. form = "discover" /\ NotSent(f)
    BY <1>5, <1>9, <2>1, <2>2, BodyOf
  <2>4. values[f] = "blank"
    BY <1>2, <2>3 DEF NotSent, At
  <2>5. row[f] = "absent"
    BY <1>1, <2>3 DEF Tables, Linked, RowFits
  <2>6. f # "port"
    BY <1>1, <1>3, <2>3 DEF Tables, Linked
  <2>7. QED
    BY <1>11, <1>13, <2>4, <2>5, <2>6 DEF Means, Many
<1>14. QED
  BY <1>12, <1>13

\* What a user left alone in an edit and the row ends up with.
LEMMA UntouchedStored ==
  ASSUME FormsInv, Accepted, body = Submitted(Parsed), mode = 2,
         NEW f \in DOMAIN row, f \notin touched, ~FollowsVip(f)
  PROVE  FilledIn(f) \/ Means(Merged[f]) = Means(row[f])
<1>1. /\ Tables(form, mode) /\ RowFits(form, mode, row)
      /\ ValuesFit(form, mode, row, touched, values)
      /\ Schema = Zod(form, mode) /\ D = Dialog[form]
  BY Looked DEF FormsInv
<1>2. DOMAIN row = DOMAIN D.row /\ row[f] \in RowHas(form, f) /\ At(row, f) = row[f]
  BY <1>1 DEF RowFits, At
<1>3. Merged[f] = row[f] \/ (f \in DOMAIN body /\ Merged[f] = At(body, f))
  BY DEF Merged, Taken, At
<1>4. form \notin {"scan", "discover"}
  BY <1>1 DEF Tables, Linked
<1>5. ASSUME NEW g \in DOMAIN values, g \notin touched, ~FollowsVip(g)
      PROVE  \/ values[g] = FromRow(form, g, At(row, g))
             \/ /\ FromRow(form, g, At(row, g)) = "absent"
                /\ g \in DOMAIN Inputs(form, mode) /\ values[g] = Inputs(form, mode)[g].empty
  BY <1>1, <1>4, <1>5
     DEF ValuesFit, Field, Alone, Loads, Besides, Trigger, FollowsVip, Tables, Fillable
<1>6. form = "webhook" => f # "events"
  <2> SUFFICES ASSUME form = "webhook", f = "events" PROVE FALSE
    OBVIOUS
  <2>1. EventLinks(form, mode) /\ "events" \in DOMAIN values
    BY <1>1 DEF Tables, EventLinks, ValuesFit
  <2>2. values["events"] \in {"text", "blank"}
    BY <1>5, <2>1 DEF FromRow
  <2>3. values["events"] \in Zod(form, mode)["events"]
    BY <1>1, <2>1 DEF Accepted, At, EventLinks
  <2>4. QED
    BY <2>1, <2>2, <2>3 DEF EventLinks
<1>7. CASE f \in DOMAIN body /\ At(body, f) = SentAs(form, f, Resolved(f))
  <2>1. Resolved(f) # "absent"
    BY <1>6, <1>7, BodyOf DEF SentAs, At
  <2>2. /\ f \in DOMAIN values /\ f \in DOMAIN Schema /\ Resolved(f) = values[f]
        /\ values[f] \in Schema[f]
    BY <2>1 DEF Resolved, At, Accepted
  <2>3. FilledIn(f) \/ Means(SentAs(form, f, values[f])) = Means(row[f])
    BY <1>1, <1>2, <1>5, <2>1, <2>2 DEF Tables, Storable, FilledIn
  <2>4. QED
    BY <1>3, <1>7, <2>2, <2>3
<1>8. CASE /\ form \in VipDialogs /\ Resolved("is_vip") # "true"
           /\ \/ f = "vip_type" /\ At(body, f) = "null"
              \/ f = "node_bindings" /\ At(body, f) = "none"
  <2>1. /\ VipLinks(form, mode) /\ "is_vip" \in DOMAIN values \cap DOMAIN Schema
        /\ "is_vip" \notin touched
    BY <1>1, <1>8 DEF Tables, VipLinks, ValuesFit, FollowsVip
  <2>2. values["is_vip"] # "true"
    BY <1>8, <2>1 DEF Resolved, At
  <2>3. row["is_vip"] # "true"
    <3>1. At(row, "is_vip") = row["is_vip"] /\ "is_vip" \in DOMAIN Dialog[form].load
      BY <1>1, <1>2, <2>1 DEF At, VipLinks
    <3>2. row["is_vip"] = "true" => FromRow(form, "is_vip", At(row, "is_vip")) = "true"
      BY <3>1, <1>8 DEF FromRow, VipDialogs
    <3>3. ~FollowsVip("is_vip")
      BY DEF FollowsVip
    <3>4. QED
      BY <1>5, <2>1, <2>2, <3>2, <3>3
  <2>4. row.vip_type = "null" /\ row.node_bindings = "null"
    BY <1>1, <1>8, <2>3 DEF RowFits
  <2>5. QED
    BY <1>3, <1>8, <2>4 DEF Means
<1>9. QED
  BY <1>3, <1>4, <1>7, <1>8, BodyOf

\* A VIP that was unticked is stored without a type and without bindings.
LEMMA DemotedStored ==
  ASSUME FormsInv, body = Submitted(Parsed), NEW f \in DOMAIN row,
         FollowsVip(f), values.is_vip # "true"
  PROVE  Means(Merged[f]) = "absent"
<1>1. form \in {"ip", "record"} /\ f \in {"vip_type", "node_bindings"}
  BY DEF FollowsVip, VipDialogs
<1>2. At(Parsed, "is_vip") # "true"
  BY DEF Parsed, At
<1> DEFINE c == [g \in DOMAIN Parsed |-> IF Parsed[g] = "blank" THEN "null" ELSE Parsed[g]]
<1>3. At(c, "is_vip") # "true"
  BY <1>2 DEF At
<1>4. ASSUME NEW b, At(b, "is_vip") # "true"
      PROVE  f \in DOMAIN NotVip(b) /\ NotVip(b)[f] \in {"null", "none"}
  BY <1>1, <1>4 DEF NotVip, ++
<1>5. body = NotVip(Parsed) \/ body = NotVip(c)
  BY <1>1 DEF Submitted
<1>6. f \in DOMAIN body /\ body[f] \in {"null", "none"}
  BY <1>2, <1>3, <1>4, <1>5
<1>7. Merged[f] = body[f]
  BY <1>1, <1>6 DEF Merged, Taken, Ignored
<1>8. QED
  BY <1>6, <1>7 DEF Means

(* What a user enters and saves is stored, an edit leaves all that was not *)
(* touched meaning what it meant, and a VIP that is unticked is no VIP.    *)
LEMMA SavedBy == FormsInv => SavedAsEntered
<1> SUFFICES ASSUME FormsInv, phase = "saved", NEW f \in DOMAIN row
             PROVE  IF FollowsVip(f)
                    THEN values.is_vip = "true" \/ Means(stored[f]) = "absent"
                    ELSE IF f \in touched
                    THEN \/ Dropped(f) \/ (form = "discover" /\ f \notin Shown(values))
                         \/ Carried(f)
                    ELSE mode = 2 => FilledIn(f) \/ Means(stored[f]) = Means(row[f])
  BY DEF SavedAsEntered
<1>1. Accepted /\ body = Submitted(Parsed) /\ stored = Merged
  BY DEF FormsInv, SentFits
<1>2. CASE FollowsVip(f)
  BY <1>1, <1>2, DemotedStored
<1>3. CASE ~FollowsVip(f)
  BY <1>1, <1>3, TouchedStored, UntouchedStored DEF Carried
<1>4. QED
  BY <1>2, <1>3

-----------------------------------------------------------------------------
(* A dialog that has all it must have is refused for a value that Refusing *)
(* names, for one of the row that it does not know, or for the type of a   *)
(* VIP.                                                                    *)
LEMMA OtherIsKept ==
  ASSUME FormsInv, NEW f, At(values, f) = "other"
  PROVE  f \in DOMAIN row /\ KeptForeign(f)
<1>1. /\ Tables(form, mode) /\ mode \in {1, 2}
      /\ ValuesFit(form, mode, row, touched, values)
  BY Looked DEF FormsInv, Tables, DefaultsTyped
<1>2. f \in DOMAIN values /\ values[f] = "other"
  BY DEF At
<1>3. Field(form, mode, row, touched, f, "other")
  BY <1>1, <1>2 DEF ValuesFit
<1>4. f \in touched => f \in DOMAIN Inputs(form, mode)
  BY <1>1 DEF ValuesFit
<1>5. f \notin touched /\ Loads(form, mode, row, f) = "other"
  BY <1>1, <1>3, <1>4 DEF Field, Alone, Besides, Tables, InputsTyped, Known
<1>6. mode = 2
  BY <1>1, <1>5 DEF Loads, At, Tables, DefaultsTyped, Known
<1>7. At(row, f) = "other"
  BY <1>1, <1>5, <1>6 DEF Loads, FromRow, Tables, DefaultsTyped, Known
<1>8. QED
  BY <1>2, <1>5, <1>7 DEF KeptForeign, At

LEMMA RefusedBy == FormsInv => RefusedForAReason
<1> SUFFICES ASSUME FormsInv, phase = "refused", Complete
             PROVE  \/ \E c \in Refusing : c[1] = form /\ At(values, c[2]) = c[3]
                    \/ \E f \in DOMAIN row : KeptForeign(f)
                    \/ /\ form = "ip"
                       /\ values.vip_type # IF values.is_vip = "true" THEN "text" ELSE "absent"
                    \/ form = "record" /\ values.is_vip = "true" /\ values.vip_type = "blank"
  BY DEF RefusedForAReason
<1>1. /\ Tables(form, mode) /\ ~Accepted /\ VipFits(form, touched, values)
      /\ ValuesFit(form, mode, row, touched, values)
      /\ Schema = Zod(form, mode) /\ D.bodies[mode] = Bodies(form, mode)
  BY Looked DEF FormsInv, SentFits
<1>2. form \in VipDialogs => {"is_vip", "vip_type", "node_bindings"} \subseteq DOMAIN values
  BY <1>1 DEF Tables, VipLinks, ValuesFit
<1>3. ASSUME NEW f \in DOMAIN Schema, At(values, f) \notin Schema[f]
      PROVE  \/ \E c \in Refusing : c[1] = form /\ At(values, c[2]) = c[3]
             \/ \E g \in DOMAIN row : KeptForeign(g)
             \/ /\ form = "ip"
                /\ values.vip_type # IF values.is_vip = "true" THEN "text" ELSE "absent"
  <2> DEFINE v == At(values, f)
  <2>1. f \in touched => v \notin {"blank", "NaN"}
    BY <1>1 DEF Complete, ValuesFit, At
  <2>2. \/ Untouched(form, mode, f, v)
        \/ Entered(form, mode, f, v) /\ v \notin {"blank", "NaN"}
    BY <2>1, ValueOf
  <2>3. ~(Wants(form, mode, f) /\ v \in {"absent", "blank", "NaN"})
    BY <1>1 DEF Wants, Complete, Missing, Needed
  <2>4. \/ <<form, f, v>> \in Refusing \/ v = "other"
        \/ form = "ip" /\ f = "vip_type" /\ v \notin {"text", "absent"}
    BY <1>1, <1>3, <2>2, <2>3 DEF Tables, Excusable
  <2>5. CASE <<form, f, v>> \in Refusing
    BY <2>5
  <2>6. CASE form = "ip" /\ f = "vip_type" /\ v \notin {"text", "absent"}
    BY <1>2, <2>6 DEF At, VipDialogs
  <2>7. CASE v = "other"
    BY <2>7, OtherIsKept
  <2>8. QED
    BY <2>4, <2>5, <2>6, <2>7
<1>4. ASSUME ~Refined
      PROVE  \/ /\ form = "ip"
                /\ values.vip_type # IF values.is_vip = "true" THEN "text" ELSE "absent"
             \/ form = "record" /\ values.is_vip = "true" /\ values.vip_type = "blank"
  <2>1. CASE form = "ip"
    BY <1>1, <1>2, <1>4, <2>1 DEF Refined, vipConsistencyCheck, At, VipFits, VipDialogs
  <2>2. CASE form = "record"
    BY <1>4, <2>2 DEF Refined
  <2>3. CASE form \notin {"ip", "record"}
    BY <1>4, <2>3 DEF Refined
  <2>4. QED
    BY <2>1, <2>2, <2>3
<1>5. QED
  BY <1>1, <1>3, <1>4 DEF Accepted

-----------------------------------------------------------------------------
(* Every value of the row, the inputs, the body and what is stored is one  *)
(* of the values of the tables.                                            *)
LEMMA FormsTypedBy == FormsInv => FormsTypeOK
<1> SUFFICES ASSUME FormsInv PROVE FormsTypeOK
  OBVIOUS
<1>1. /\ Tables(form, mode) /\ RowFits(form, mode, row) /\ mode \in {1, 2} /\ SentFits
      /\ ValuesFit(form, mode, row, touched, values) /\ form \in Form /\ D = Dialog[form]
      /\ Schema = Zod(form, mode)
  BY Looked DEF FormsInv, Opened, Tables, DefaultsTyped
<1>2. {"absent", "null", "blank", "none", "some", "num", "text", "uuid", "true", "false"}
         \subseteq Value
  BY DEF Value, String, Number, Boolean, List
<1>3. ASSUME NEW f PROVE RowHas(form, f) \subseteq Value
  BY <1>1, <1>2 DEF RowHas, Tables, RowTyped
<1>4. ASSUME NEW f \in DOMAIN row PROVE row[f] \in Value
  BY <1>1, <1>2, <1>3 DEF RowFits
<1>5. ASSUME NEW f, NEW x, Starts(form, mode, f, x) PROVE x \in Value
  BY <1>1, <1>2, <1>3, <1>5 DEF Starts, FromRow, At, Tables, DefaultsTyped, Known
<1>6. ASSUME NEW f PROVE At(values, f) \in Value
  <2>1. CASE Untouched(form, mode, f, At(values, f))
    BY <1>1, <1>2, <1>5, <2>1 DEF Untouched, Besides, Tables, InputsTyped, Known
  <2>2. CASE Entered(form, mode, f, At(values, f))
    BY <1>1, <2>2 DEF Entered, Tables, InputsTyped, Known
  <2>3. QED
    BY <2>1, <2>2, ValueOf
<1>7. ASSUME NEW f \in DOMAIN body PROVE body[f] \in Value
  <2>1. CASE body = <<>>
    BY <2>1
  <2>2. CASE body = Submitted(Parsed)
    <3>1. Resolved(f) \in Value
      BY <1>2, <1>6 DEF Resolved
    <3>2. SentAs(form, f, Resolved(f)) \in Value
      BY <1>2, <3>1 DEF SentAs
    <3>3. At(body, f) \in Value
      BY <1>2, <2>2, <3>2, BodyOf
    <3>4. QED
      BY <3>3 DEF At
  <2>3. QED
    BY <1>1, <2>1, <2>2 DEF SentFits
<1>8. ASSUME NEW f \in DOMAIN stored PROVE stored[f] \in Value
  BY <1>1, <1>4, <1>7 DEF SentFits, Merged, Taken
<1>9. ASSUME NEW f \in DOMAIN values PROVE values[f] \in Value
  BY <1>6 DEF At
<1>10. touched \subseteq DOMAIN values
  BY <1>1 DEF ValuesFit
<1>11. QED
  BY <1>1, <1>4, <1>7, <1>8, <1>9, <1>10 DEF FormsTypeOK, SentFits

LEMMA FormsAreTyped == FormsSpec => []FormsTypeOK
  BY FormsInvAlways, FormsTypedBy, PTL

\* Whatever is opened, typed, left alone and submitted, what any dialog sends is
\* a body of types/api.ts.
THEOREM BodiesFitTheApi == FormsSpec => []SentFitsTheApi
  BY FormsInvAlways, SentFitsBy, PTL

\* No dialog loses a key that was entered on its way to the row, an edit changes
\* nothing that was not touched, and an unticked VIP is stored as none.
THEOREM EntriesAreStored == FormsSpec => []SavedAsEntered
  BY FormsInvAlways, SavedBy, PTL

\* A dialog with everything required is refused for none but the named values
\* and those of its row that its schema does not know.
THEOREM RefusalsAreNamed == FormsSpec => []RefusedForAReason
  BY FormsInvAlways, RefusedBy, PTL
=============================================================================
