------------------------------ MODULE Dialogs ------------------------------
(***************************************************************************)
(* The create and edit dialogs of the web frontend: which inputs a dialog  *)
(* registers with react-hook-form, the values they start from, the zod     *)
(* schemas of the resolver and the bodies that are sent.                   *)
(***************************************************************************)
EXTENDS FormSchemas

\* What an input without a default reads, and what a user makes of it.
Input(empty, entered) == [empty |-> empty, typed |-> entered]
TextInput == Input("blank", {"blank", "text"})     \* also a select with a "None"
RefSelect == Input("blank", {"blank", "uuid"})
NumberInput == Input("NaN", {"NaN", "num"})        \* valueAsNumber
Select == Input("text", {"text"})                  \* no blank option
Checkbox == Input("false", Boolean)
All(fields, input) == [f \in fields |-> input]

\* f and, where it has no value, g: {...g, ...f}.
f ++ g == [x \in DOMAIN f \cup DOMAIN g |-> IF x \in DOMAIN f THEN f[x] ELSE g[x]]

\* The defaultValues of a dialog that has none, and what there is of a dialog
\* without the mode 1.
NoDefaults == [f \in {} |-> "absent"]
Edited(x) == [mode \in {2} |-> x]

-----------------------------------------------------------------------------
(* A dialog has the inputs of its two modes, the values a creation starts  *)
(* from, for each value an edit starts from the one that stands for null   *)
(* (row.f ?? value), the schemas and the bodies of the two requests.       *)

SiteFormModal ==
    LET inputs == All({"latitude", "longitude"}, NumberInput) ++ All(DOMAIN Site, TextInput)
    IN  [row |-> Site, inputs |-> <<inputs, inputs>>, empty |-> NoDefaults,
         load |-> [name |-> "null", code |-> "null", address |-> "blank", city |-> "blank",
                   country |-> "blank", latitude |-> "absent", longitude |-> "absent"],
         schemas |-> <<siteCreateSchema, siteUpdateSchema>>, bodies |-> <<SiteCreate, SiteUpdate>>]

VlanFormModal ==
    LET inputs == [vlan_id |-> NumberInput, name |-> TextInput, description |-> TextInput,
                   site_id |-> RefSelect]
    IN  [row |-> VLAN, inputs |-> <<inputs, inputs>>, empty |-> NoDefaults,
         load |-> [vlan_id |-> "null", name |-> "null", description |-> "blank",
                   site_id |-> "absent"],
         schemas |-> <<vlanCreateSchema, vlanUpdateSchema>>, bodies |-> <<VLANCreate, VLANUpdate>>]

SubnetFormModal ==
    LET both == All({"name", "description", "gateway", "dns_servers"}, TextInput)
                ++ All({"site_id", "vlan_id"}, RefSelect)
    IN  [row |-> Subnet, empty |-> NoDefaults,
         inputs |-> <<both ++ [network_address |-> TextInput, prefix_length |-> NumberInput],
                      both>>,
         load |-> [name |-> "null", description |-> "blank", gateway |-> "blank",
                   dns_servers |-> "blank", site_id |-> "absent", vlan_id |-> "absent",
                   parent_subnet_id |-> "absent"],
         schemas |-> <<subnetCreateSchema, subnetUpdateSchema>>,
         bodies |-> <<SubnetCreate, SubnetUpdate>>]

IpTexts == {"hostname", "mac_address", "device_type", "description", "assigned_to"}

\* is_vip is no registered input: its checkbox sets the value.
VipInputs == [is_vip |-> Input("absent", Boolean), vip_type |-> TextInput,
              node_bindings |-> Input("none", List)]

IpFormModal ==
    LET both == All(IpTexts, TextInput) ++ [status |-> Select] ++ VipInputs
    IN  [row |-> IPAddress, empty |-> [node_bindings |-> "none"],
         inputs |-> <<both ++ [address |-> TextInput, subnet_id |-> RefSelect], both>>,
         load |-> All(IpTexts, "blank") ++ [status |-> "null", subnet_id |-> "null",
                   is_vip |-> "false", vip_type |-> "absent", node_bindings |-> "none"],
         schemas |-> <<ipAddressCreateSchema, ipAddressUpdateSchema>>,
         bodies |-> <<IPAddressCreate, IPAddressUpdate>>]

\* The record page edits with plain state instead: no schema, every value is
\* let through.  A node without an address is filtered out, and a custom field
\* that is emptied is deleted, so a list is "none" or "some" of them.
CustomFieldsEditor == Input("none", List)
TagSelector == Input("none", List)
VipOfRecord == [is_vip |-> Checkbox, vip_type |-> TextInput, node_bindings |-> Input("none", List)]

RecordLoaded ==
    All(IpTexts \cup {"vrf_id", "vip_type"}, "blank")
    ++ All({"node_bindings", "tags", "custom_fields"}, "none")
    ++ [status |-> "null", subnet_id |-> "null", is_vip |-> "false"]

EditIpModal ==
    LET inputs == All(IpTexts, TextInput) ++ VipOfRecord
                  ++ [custom_fields |-> CustomFieldsEditor, tags |-> TagSelector, status |-> Select,
                      subnet_id |-> Input("uuid", {"uuid"}), vrf_id |-> RefSelect]
    IN  [row |-> IPAddress, inputs |-> Edited(inputs), load |-> RecordLoaded,
         schemas |-> Edited(All(DOMAIN inputs, Value)), bodies |-> Edited(IPAddressUpdate)]

AllocateIpModal ==
    [inputs |-> <<All(IpTexts \ {"mac_address"}, TextInput) ++ [subnet_id |-> RefSelect]>>,
     row |-> IPAddress, empty |-> NoDefaults, schemas |-> <<ipAllocationSchema>>,
     bodies |-> <<IPAllocationRequest>>]

\* "snmp" is a scan type that shows the SNMP profiles, the others are "text".
ScanForm ==
    [inputs |-> <<[subnet_id |-> RefSelect, scan_type |-> Input("text", {"text", "snmp"}),
                   snmp_credential_id |-> RefSelect, schedule_time |-> TextInput,
                   schedule_preset |-> Input("off", {"off", "daily", "custom"}),
                   interval_minutes |-> NumberInput]>>,
     row |-> DiscoveryScan,
     empty |-> [is_scheduled |-> "false", is_recursive |-> "false", schedule_preset |-> "off"],
     schemas |-> <<discoveryScanCreateSchema>>, bodies |-> <<DiscoveryScanCreate>>]

\* Plain state again; by_subnet is its targetMode, and "snmp" the scan type
\* that shows the SNMP profiles.
RunDiscoveryModal ==
    LET start == All({"subnet_id", "snmp_credential_id", "winrm_credential_id"}, "blank")
                 ++ [scan_type |-> "snmp", by_subnet |-> "false", target_ips |-> "none",
                     snmp_community |-> "text"]
    IN  [row |-> DiscoveryRun, empty |-> start,
         inputs |-> <<All({"subnet_id", "snmp_credential_id", "winrm_credential_id"}, RefSelect)
                      ++ [scan_type |-> Input("snmp", {"text", "snmp"}), by_subnet |-> Checkbox,
                          target_ips |-> Input("none", List), snmp_community |-> TextInput]>>,
         schemas |-> <<All(DOMAIN start, Value)>>, bodies |-> <<DiscoveryRunRequest>>]

\* Both modes have a password: that of an edit says "leave blank to keep".
InputsOfEdit == All({"is_active", "mfa_enforced"}, Checkbox) ++ [password |-> TextInput]

UserFormModal ==
    LET both == All({"display_name", "email"}, TextInput) ++ [role |-> Select]
    IN  [row |-> UserRow, empty |-> NoDefaults,
         inputs |-> <<both ++ [password |-> TextInput], both ++ InputsOfEdit>>,
         load |-> All(DOMAIN UserRow, "null"),
         schemas |-> <<adminUserCreateSchema, adminUserUpdateSchema>>,
         bodies |-> <<UserCreate, UserUpdate>>]

V3Choices == {"v3_auth_protocol", "v3_priv_protocol", "v3_security_level"}
V3Texts == {"v3_username", "v3_auth_passphrase", "v3_priv_passphrase"}

\* The level authNoPriv, which hides two of them, is left out.
V3Inputs == All(V3Texts, TextInput) ++ [v3_security_level |-> Input("text", {"text", "authPriv"})]
            ++ All(V3Choices, Select)

\* v1 and v2c are "text", "v3" shows its own inputs.
SnmpFormModal ==
    LET inputs == All({"name", "community_string"}, TextInput)
                  ++ [version |-> Input("text", {"text", "v3"})] ++ V3Inputs
    IN  [row |-> SnmpCredential, inputs |-> <<inputs, inputs>>, empty |-> [version |-> "text"],
         load |-> [version |-> "null", name |-> "null", community_string |-> "blank",
                   v3_security_level |-> "authPriv"]
                  ++ All(V3Texts, "blank") ++ All(V3Choices, "text"),
         schemas |-> <<snmpCreateSchema, snmpCreateSchema>>,
         bodies |-> <<SnmpCredentialCreate, SnmpCredentialUpdate>>]

WinrmFormModal ==
    LET inputs == All({"name", "username", "password", "port", "domain"}, TextInput)
                  ++ [auth_type |-> Select, use_ssl |-> Checkbox]
    IN  [row |-> WinRMCredential, inputs |-> <<inputs, inputs>>,
         empty |-> [port |-> "num", use_ssl |-> "false", auth_type |-> "text"],
         load |-> All(DOMAIN WinRMCredential \ {"domain"}, "null")
                  ++ All({"domain", "password"}, "blank"),
         schemas |-> <<winrmCreateSchema, winrmCreateSchema>>,
         bodies |-> <<WinRMCredentialCreate, WinRMCredentialUpdate>>]

-----------------------------------------------------------------------------
(* The dialogs of CrudPage: the same inputs in both modes.                 *)

CrudFormModal(type, fields, empty, load, schemas, bodies) ==
    [row |-> type, inputs |-> <<fields, fields>>, empty |-> empty, load |-> load,
     schemas |-> schemas, bodies |-> bodies]

TagForm ==
    CrudFormModal(Tag, All({"name", "slug", "description"}, TextInput) ++ [color |-> Select],
        All({"name", "slug", "description"}, "blank") ++ [color |-> "text"],
        All({"name", "slug", "color"}, "null") ++ [description |-> "blank"],
        <<tagCreateSchema, tagUpdateSchema>>, <<TagCreate, TagUpdate>>)

VrfForm ==
    CrudFormModal(VRF,
        All({"name", "rd", "description"}, TextInput) ++ [enforce_unique |-> Checkbox],
        All({"name", "rd", "description"}, "blank") ++ [enforce_unique |-> "true"],
        All({"name", "enforce_unique"}, "null") ++ All({"rd", "description"}, "blank"),
        <<vrfCreateSchema, vrfUpdateSchema>>, <<VRFCreate, VRFUpdate>>)

RirForm ==
    CrudFormModal(RIR, All(DOMAIN RIR, TextInput), All(DOMAIN RIR, "blank"),
        All({"name", "slug"}, "null") ++ [description |-> "blank"],
        <<rirCreateSchema, rirUpdateSchema>>, <<RIRCreate, RIRUpdate>>)

AggregateForm ==
    CrudFormModal(Aggregate,
        [network_address |-> TextInput, prefix_length |-> NumberInput, rir_id |-> RefSelect,
         description |-> TextInput],
        [network_address |-> "blank", prefix_length |-> "num", rir_id |-> "blank",
         description |-> "blank"],
        All({"description", "rir_id"}, "blank"),
        <<aggregateCreateSchema, aggregateUpdateSchema>>, <<AggregateCreate, AggregateUpdate>>)

IpRangeForm ==
    CrudFormModal(IPRange, [subnet_id |-> RefSelect] ++ All(DOMAIN IPRange, TextInput),
        All(DOMAIN IPRange \ {"status"}, "blank") ++ [status |-> "text"],
        All({"start_address", "end_address", "status"}, "null") ++ [description |-> "blank"],
        <<ipRangeCreateSchema, ipRangeUpdateSchema>>, <<IPRangeCreate, IPRangeUpdate>>)

AsnForm ==
    CrudFormModal(ASN,
        [asn |-> NumberInput, description |-> TextInput] ++ All({"rir_id", "site_id"}, RefSelect),
        All({"rir_id", "site_id", "description"}, "blank") ++ [asn |-> "num"],
        All({"rir_id", "site_id", "description"}, "blank"),
        <<asnCreateSchema, asnUpdateSchema>>, <<ASNCreate, ASNUpdate>>)

CustomFieldForm ==
    LET texts == {"label", "default_value", "description"} IN
    CrudFormModal(CustomField,
        All(texts \cup {"name", "applies_to", "field_type"}, TextInput)
            ++ [required |-> Checkbox, weight |-> NumberInput],
        All(texts \cup {"name"}, "blank") ++ All({"applies_to", "field_type"}, "text")
            ++ [required |-> "false", weight |-> "num"],
        All(texts, "blank") ++ All(DOMAIN CustomField, "null"),
        <<customFieldCreateSchema, customFieldUpdateSchema>>,
        <<CustomFieldCreate, CustomFieldUpdate>>)

\* The condition has no input.
ValidationRuleForm ==
    CrudFormModal(ValidationRule,
        All({"name", "entity_type", "error_message"}, TextInput) ++ [weight |-> NumberInput]
            ++ All({"enabled", "enforce_on_delete"}, Checkbox),
        [name |-> "blank", entity_type |-> "text", condition |-> "null", error_message |-> "blank",
         enabled |-> "true", enforce_on_delete |-> "false", weight |-> "num"],
        All(DOMAIN ValidationRule, "null"),
        <<validationRuleCreateSchema, validationRuleUpdateSchema>>,
        <<ValidationRuleCreate, ValidationRuleUpdate>>)

WebhookForm ==
    CrudFormModal(Webhook,
        All({"name", "url", "http_method", "secret", "events"}, TextInput)
            ++ All({"timeout", "retry_count"}, NumberInput)
            ++ All({"enabled", "ssl_verify"}, Checkbox),
        [name |-> "blank", url |-> "blank", http_method |-> "text", secret |-> "blank",
         events |-> "none", enabled |-> "true", ssl_verify |-> "true", timeout |-> "num",
         retry_count |-> "num"],
        [secret |-> "blank"] ++ All(DOMAIN Webhook, "null"),
        <<webhookCreateSchema, webhookUpdateSchema>>, <<WebhookCreate, WebhookUpdate>>)

Dialog ==
    [site |-> SiteFormModal, vlan |-> VlanFormModal, subnet |-> SubnetFormModal,
     ip |-> IpFormModal, record |-> EditIpModal, allocate |-> AllocateIpModal, scan |-> ScanForm,
     discover |-> RunDiscoveryModal, user |-> UserFormModal, snmp |-> SnmpFormModal,
     winrm |-> WinrmFormModal, tag |-> TagForm, vrf |-> VrfForm,
     rir |-> RirForm, aggregate |-> AggregateForm, range |-> IpRangeForm, asn |-> AsnForm,
     customField |-> CustomFieldForm, rule |-> ValidationRuleForm, webhook |-> WebhookForm]
=============================================================================
