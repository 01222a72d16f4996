---------------------------- MODULE FormSchemas ----------------------------
(***************************************************************************)
(* The zod schemas of lib/validators.ts and of the two credential pages: a *)
(* function from the keys of z.object to the values each accepts.  Limits  *)
(* on lengths, ranges and patterns decide what counts as "text" and "num", *)
(* and what as "other".                                                    *)
(***************************************************************************)
EXTENDS ApiTypes

Str == String \ {"other"}                \* z.string(), with .max(n)
Required == Str \ {"blank"}              \* z.string().min(1) or .regex(...)
Uuid == {"uuid"}                         \* z.string().uuid()
Enum == {"text"}                         \* z.enum([...])
ZNum == {"num"}                          \* z.number() refuses NaN
Default(set) == Opt(set)                 \* .default(v)
Nullable(set) == OrNull(Opt(set))        \* .optional().nullable()

\* Mutant: the empty string of an input left alone is not let through.
BlankRefused(set) == Opt(set)

Blank(set) == Opt(set) \cup {"blank"}    \* .optional().or(z.literal(""))

\* An update schema makes optional what its create schema requires.
Optional(schema, fields) == [f \in DOMAIN schema |->
                                IF f \in fields THEN Opt(schema[f]) ELSE schema[f]]

loginSchema == [email |-> Required, password |-> Required]

siteCreateSchema == [name |-> Required, code |-> Required, address |-> Blank(Str),
                     city |-> Blank(Str), country |-> Blank(Str),
                     latitude |-> Nullable(ZNum), longitude |-> Nullable(ZNum)]

siteUpdateSchema == Optional(siteCreateSchema, {"name", "code"})

vlanCreateSchema == [vlan_id |-> ZNum, name |-> Required, description |-> Blank(Str),
                     site_id |-> Nullable(Uuid)]

vlanUpdateSchema == Optional(vlanCreateSchema, {"vlan_id", "name"})

subnetUpdateSchema == [name |-> Opt(Required), description |-> Blank(Str),
                       gateway |-> Blank(Required), dns_servers |-> Blank(Str),
                       site_id |-> Nullable(Uuid), vlan_id |-> Nullable(Uuid),
                       parent_subnet_id |-> Nullable(Uuid)]

subnetCreateSchema == [f \in DOMAIN subnetUpdateSchema \cup {"network_address", "prefix_length"} |->
                          CASE f \in {"network_address", "name"} -> Required
                            [] f = "prefix_length" -> ZNum
                            [] OTHER -> subnetUpdateSchema[f]]

ipAddressCreateSchema == [address |-> Required, subnet_id |-> Uuid, hostname |-> Blank(Str),
                          status |-> Opt(Enum), mac_address |-> Blank(Required),
                          device_type |-> Blank(Str), description |-> Blank(Str),
                          assigned_to |-> Blank(Str), is_vip |-> Default(Boolean),
                          vip_type |-> Nullable(Enum), node_bindings |-> Nullable(List)]

ipAddressUpdateSchema == [f \in DOMAIN ipAddressCreateSchema \ {"address"} |->
                             IF f = "subnet_id" THEN Opt(Uuid) ELSE ipAddressCreateSchema[f]]

\* superRefine of both: a VIP has a type, any other address has neither a type
\* nor bindings.
vipConsistencyCheck(v) ==
    IF v.is_vip = "true" THEN v.vip_type \notin {"absent", "null"}
    ELSE v.vip_type \in {"absent", "null"} /\ v.node_bindings # "some"

ipAllocationSchema == [subnet_id |-> Uuid, hostname |-> Blank(Str), device_type |-> Blank(Str),
                       description |-> Blank(Str), assigned_to |-> Blank(Str)]

adminUserCreateSchema == [display_name |-> Required, email |-> Required, password |-> Required,
                          role |-> Enum]

adminUserUpdateSchema == [display_name |-> Opt(Required), email |-> Opt(Required),
                          role |-> Opt(Enum), is_active |-> Opt(Boolean),
                          mfa_enforced |-> Opt(Boolean), password |-> Blank(Required)]

discoveryScanCreateSchema == [subnet_id |-> Uuid, scan_type |-> Opt(Enum \cup {"snmp"}),
                              snmp_credential_id |-> Nullable(Uuid),
                              is_scheduled |-> Default(Boolean), schedule_time |-> Nullable(Str),
                              schedule_preset |-> Opt(Str), is_recursive |-> Default(Boolean),
                              interval_minutes |-> Nullable(ZNum)]

vrfCreateSchema == [name |-> Required, rd |-> Blank(Str), description |-> Blank(Str),
                    enforce_unique |-> Default(Boolean)]

vrfUpdateSchema == Optional(vrfCreateSchema, {"name"})

rirCreateSchema == [name |-> Required, slug |-> Required, description |-> Blank(Str)]

rirUpdateSchema == Optional(rirCreateSchema, {"name", "slug"})

aggregateCreateSchema == [network_address |-> Required, prefix_length |-> ZNum,
                          description |-> Blank(Str), rir_id |-> Nullable(Uuid)]

aggregateUpdateSchema == [f \in {"description", "rir_id"} |-> aggregateCreateSchema[f]]

ipRangeCreateSchema == [subnet_id |-> Uuid, start_address |-> Required, end_address |-> Required,
                        status |-> Blank(Str), description |-> Blank(Str)]

ipRangeUpdateSchema == [f \in DOMAIN ipRangeCreateSchema \ {"subnet_id"} |->
                           Opt(ipRangeCreateSchema[f])]

asnCreateSchema == [asn |-> ZNum, description |-> Blank(Str), rir_id |-> Nullable(Uuid),
                    site_id |-> Nullable(Uuid)]

asnUpdateSchema == [f \in DOMAIN asnCreateSchema \ {"asn"} |-> asnCreateSchema[f]]

tagCreateSchema == [name |-> Required, slug |-> Required, color |-> Blank(Required),
                    description |-> Blank(Str)]

tagUpdateSchema == Optional(tagCreateSchema, {"name", "slug"})

customFieldCreateSchema == [name |-> Required, label |-> Blank(Str), applies_to |-> Enum,
                            field_type |-> Enum, required |-> Default(Boolean),
                            default_value |-> Blank(Str), description |-> Blank(Str),
                            weight |-> Opt(ZNum)]

customFieldUpdateSchema == Optional(customFieldCreateSchema, {"name", "applies_to", "field_type"})

validationRuleCreateSchema == [name |-> Required, entity_type |-> Enum,
                               condition |-> Nullable(Object), error_message |-> Required,
                               enabled |-> Default(Boolean), enforce_on_delete |-> Default(Boolean),
                               weight |-> Opt(ZNum)]

validationRuleUpdateSchema ==
    Optional(validationRuleCreateSchema, {"name", "entity_type", "error_message"})

webhookCreateSchema == [name |-> Required, url |-> Required, http_method |-> Default(Enum),
                        secret |-> Blank(Str), events |-> Opt(List), enabled |-> Default(Boolean),
                        ssl_verify |-> Default(Boolean), timeout |-> Default(ZNum),
                        retry_count |-> Default(ZNum)]

webhookUpdateSchema == Optional(webhookCreateSchema, {"name", "url"})

snmpCreateSchema == [name |-> Required, version |-> Enum \cup {"v3"}, community_string |-> Blank(Str),
                     v3_username |-> Blank(Str), v3_auth_protocol |-> Blank(Str),
                     v3_auth_passphrase |-> Blank(Str), v3_priv_protocol |-> Blank(Str),
                     v3_priv_passphrase |-> Blank(Str), v3_security_level |-> Blank(Str)]

\* The port is coerced from the text of its input.
winrmCreateSchema == [name |-> Required, username |-> Required, password |-> Required,
                      port |-> Default(ZNum \cup {"text"}), use_ssl |-> Default(Boolean),
                      auth_type |-> Default(Enum), domain |-> Blank(Str)]
=============================================================================
