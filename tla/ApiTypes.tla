------------------------------ MODULE ApiTypes ------------------------------
(***************************************************************************)
(* The rows and the bodies of the API as types/api.ts of the web frontend  *)
(* declares them.  A value stands for all the values the frontend treats   *)
(* alike, and a type is the set of the values it admits; an interface is a *)
(* function from its fields to their types.                                *)
(*                                                                         *)
(*   "absent"        undefined, or the key is missing                      *)
(*   "null"          null                                                  *)
(*   "blank"         the empty string                                      *)
(*   "text"          any other string that is good for its field           *)
(*   "other"         a string or number that the column holds and the      *)
(*                   schema of the dialog refuses: another role than its   *)
(*                   two, an IPv6 address, an empty or overlong name       *)
(*   "v3", "authPriv", "snmp", "off", "daily", "custom"                    *)
(*                   choices a dialog treats in a way of their own         *)
(*   "uuid"          the id of a row                                       *)
(*   "num", "NaN"    a number in the field's range, and not a number       *)
(*   "true", "false" the booleans                                          *)
(*   "none", "some"  an empty array and one with elements                  *)
(*   "object"        a JSON object                                         *)
(***************************************************************************)
Named == {"v3", "authPriv", "snmp", "off", "daily", "custom"}
String == {"blank", "text", "other", "uuid"} \cup Named
Number == {"num", "NaN", "other"}
Boolean == {"true", "false"}
List == {"none", "some"}
Object == {"object"}
Value == String \cup Number \cup Boolean \cup List \cup Object \cup {"absent", "null"}

Opt(type) == type \cup {"absent"}       \* field?: type
OrNull(type) == type \cup {"null"}      \* field: type | null

\* What the server stores: a string that is not empty, a number, an id.
Text == {"text"}
Num == {"num"}
Id == {"uuid"}

\* The same in a column for which the dialog's schema is narrower than the
\* server's: a pattern, a list of choices, a shorter limit, a range.
Choice == {"text", "other"}
AnyNum == {"num", "other"}

-----------------------------------------------------------------------------
(* Users, sites, VLANs and subnets.                                        *)

UserRow == [email |-> Choice, display_name |-> Choice, role |-> Choice, is_active |-> Boolean,
            mfa_enforced |-> Boolean]

UserCreate == [email |-> String, display_name |-> String, role |-> String, password |-> String]

UserUpdate == [email |-> Opt(String), display_name |-> Opt(String), role |-> Opt(String),
               is_active |-> Opt(Boolean), mfa_enforced |-> Opt(Boolean), password |-> Opt(String)]

Site == [name |-> Choice, code |-> Choice, address |-> OrNull(Choice), city |-> OrNull(Choice),
         country |-> OrNull(Text), latitude |-> OrNull(AnyNum), longitude |-> OrNull(AnyNum)]

SiteCreate == [name |-> String, code |-> String, address |-> Opt(String), city |-> Opt(String),
               country |-> Opt(String), latitude |-> Opt(Number), longitude |-> Opt(Number)]

SiteUpdate == [SiteCreate EXCEPT !.name = Opt(String), !.code = Opt(String)]

VLAN == [vlan_id |-> AnyNum, name |-> Choice, description |-> OrNull(Text), site_id |-> OrNull(Id)]

VLANCreate == [vlan_id |-> Number, name |-> String, description |-> Opt(String),
               site_id |-> Opt(String)]

VLANUpdate == [f \in DOMAIN VLANCreate |-> Opt(VLANCreate[f])]

Subnet == [network_address |-> Text, prefix_length |-> Num, name |-> Choice,
           description |-> OrNull(Choice), gateway |-> OrNull(Choice),
           dns_servers |-> OrNull(Choice),
           site_id |-> OrNull(Id), vlan_id |-> OrNull(Id), parent_subnet_id |-> OrNull(Id)]

SubnetUpdate == [name |-> Opt(String), description |-> Opt(String), gateway |-> Opt(String),
                 dns_servers |-> Opt(String), site_id |-> Opt(String), vlan_id |-> Opt(String),
                 parent_subnet_id |-> Opt(String)]

SubnetCreate == [f \in DOMAIN SubnetUpdate \cup {"network_address", "prefix_length"} |->
                    CASE f \in {"network_address", "name"} -> String
                      [] f = "prefix_length" -> Number
                      [] OTHER -> Opt(String)]

-----------------------------------------------------------------------------
(* IP addresses.  The status is a column of any string, and the record of  *)
(* the custom fields is empty or not, like a list.  tsconfig.json leaves   *)
(* strict off, so null passes for a string and a number.                   *)

IPAddress == [address |-> Text, subnet_id |-> Id, hostname |-> OrNull(Text), status |-> Choice,
              mac_address |-> OrNull(Choice), device_type |-> OrNull(Text),
              description |-> OrNull(Choice), assigned_to |-> OrNull(Text),
              is_vip |-> Boolean, vip_type |-> OrNull(Text), node_bindings |-> OrNull(List),
              vrf_id |-> OrNull(Id), tags |-> OrNull(List), custom_fields |-> OrNull(List)]

IPAddressCreate == [address |-> String, subnet_id |-> String, hostname |-> Opt(String),
                    status |-> Opt(String), mac_address |-> Opt(String),
                    device_type |-> Opt(String), description |-> Opt(String),
                    assigned_to |-> Opt(String), is_vip |-> Opt(Boolean),
                    vip_type |-> Opt(OrNull(Text)), node_bindings |-> Opt(List)]

IPAddressUpdate ==
    [f \in (DOMAIN IPAddress \ {"address"}) |->
        CASE f \in {"tags", "custom_fields"} -> Opt(List)
          [] f = "node_bindings" -> Opt(OrNull(List))
          [] f = "subnet_id" -> Opt(String)
          [] f \in {"is_vip", "vip_type", "status"} -> IPAddressCreate[f]
          [] OTHER -> Opt(OrNull(String))]

IPAllocationRequest == [subnet_id |-> String, hostname |-> Opt(String),
                        device_type |-> Opt(String), description |-> Opt(String),
                        assigned_to |-> Opt(String)]

DiscoveryScan == [subnet_id |-> Id, scan_type |-> Choice, snmp_credential_id |-> OrNull(Id),
                  is_scheduled |-> Boolean, schedule_time |-> OrNull(Text),
                  is_recursive |-> Boolean, interval_minutes |-> OrNull(Num)]

DiscoveryScanCreate == [subnet_id |-> String, scan_type |-> Opt(String),
                        snmp_credential_id |-> Opt(OrNull(String)), is_scheduled |-> Opt(Boolean),
                        schedule_time |-> Opt(OrNull(String)), schedule_preset |-> Opt(String),
                        is_recursive |-> Opt(Boolean), interval_minutes |-> Opt(OrNull(Number))]

\* What the task of a discovery run is given.
DiscoveryRun == [scan_type |-> {"text", "snmp"}, target_ips |-> List, subnet_id |-> OrNull(Id),
                 snmp_community |-> OrNull(Text), snmp_credential_id |-> OrNull(Id),
                 winrm_credential_id |-> OrNull(Id)]

DiscoveryRunRequest == [f \in DOMAIN DiscoveryRun |->
                           CASE f = "scan_type" -> String
                             [] f = "target_ips" -> Opt(List)
                             [] OTHER -> Opt(String)]

-----------------------------------------------------------------------------
(* Credentials.                                                            *)

SnmpCredential == [name |-> Choice, version |-> Choice \cup {"v3"}, community_string |-> OrNull(Text),
                   v3_username |-> OrNull(Text), v3_auth_protocol |-> OrNull(Text),
                   v3_auth_passphrase |-> OrNull(Text), v3_priv_protocol |-> OrNull(Text),
                   v3_priv_passphrase |-> OrNull(Text), v3_security_level |-> OrNull({"text", "authPriv"})]

SnmpCredentialCreate == [f \in DOMAIN SnmpCredential |->
                            IF f \in {"name", "version"} THEN String ELSE Opt(String)]

SnmpCredentialUpdate == [f \in DOMAIN SnmpCredential |-> Opt(String)]

\* The row comes without its password.
WinRMCredential == [name |-> Choice, username |-> Choice, port |-> AnyNum, use_ssl |-> Boolean,
                    auth_type |-> Choice, domain |-> OrNull(Text)]

WinRMCredentialCreate == [name |-> String, username |-> String, password |-> String,
                          port |-> Opt(Number), use_ssl |-> Opt(Boolean),
                          auth_type |-> Opt(String), domain |-> Opt(String)]

WinRMCredentialUpdate == [f \in DOMAIN WinRMCredentialCreate |-> Opt(WinRMCredentialCreate[f])]

-----------------------------------------------------------------------------
(* The address hierarchy.                                                  *)

VRF == [name |-> Choice, rd |-> OrNull(Choice), description |-> OrNull(Choice),
        enforce_unique |-> Boolean]

VRFCreate == [name |-> String, rd |-> Opt(OrNull(String)), description |-> Opt(OrNull(String)),
              enforce_unique |-> Opt(Boolean)]

VRFUpdate == [VRFCreate EXCEPT !.name = Opt(@)]

RIR == [name |-> Choice, slug |-> Choice, description |-> OrNull(Text)]
RIRCreate == [name |-> String, slug |-> String, description |-> Opt(OrNull(String))]
RIRUpdate == [f \in DOMAIN RIRCreate |-> Opt(RIRCreate[f])]

Aggregate == [network_address |-> Text, prefix_length |-> Num, description |-> OrNull(Text),
              rir_id |-> OrNull(Id)]

AggregateCreate == [network_address |-> String, prefix_length |-> Number,
                    description |-> Opt(OrNull(String)), rir_id |-> Opt(OrNull(String))]

AggregateUpdate == [f \in {"description", "rir_id"} |-> AggregateCreate[f]]

IPRange == [subnet_id |-> Id, start_address |-> Choice, end_address |-> Choice, status |-> Text,
            description |-> OrNull(Text)]

IPRangeCreate == [subnet_id |-> String, start_address |-> String, end_address |-> String,
                  status |-> Opt(String), description |-> Opt(OrNull(String))]

IPRangeUpdate == [f \in DOMAIN IPRangeCreate \ {"subnet_id"} |-> Opt(IPRangeCreate[f])]

ASN == [asn |-> Num, description |-> OrNull(Text), rir_id |-> OrNull(Id), site_id |-> OrNull(Id)]

ASNCreate == [asn |-> Number, description |-> Opt(OrNull(String)),
              rir_id |-> Opt(OrNull(String)), site_id |-> Opt(OrNull(String))]

ASNUpdate == [f \in DOMAIN ASNCreate \ {"asn"} |-> ASNCreate[f]]

-----------------------------------------------------------------------------
(* Tags, custom fields, validation rules and webhooks.                     *)

Tag == [name |-> Choice, slug |-> Choice, color |-> Choice, description |-> OrNull(Choice)]

TagCreate == [name |-> String, slug |-> String, color |-> Opt(String),
              description |-> Opt(OrNull(String))]

TagUpdate == [f \in DOMAIN TagCreate |-> Opt(TagCreate[f])]

CustomField == [name |-> Choice, label |-> OrNull(Choice), applies_to |-> Choice,
                field_type |-> Choice, required |-> Boolean, default_value |-> OrNull(Choice),
                description |-> OrNull(Choice), weight |-> AnyNum]

CustomFieldCreate == [name |-> String, label |-> Opt(OrNull(String)), applies_to |-> String,
                      field_type |-> Opt(String), required |-> Opt(Boolean),
                      default_value |-> Opt(OrNull(String)),
                      description |-> Opt(OrNull(String)), weight |-> Opt(Number)]

CustomFieldUpdate == [f \in DOMAIN CustomFieldCreate |-> Opt(CustomFieldCreate[f])]

ValidationRule == [name |-> Choice, entity_type |-> Choice, condition |-> OrNull(Object),
                   error_message |-> Choice, enabled |-> Boolean, enforce_on_delete |-> Boolean,
                   weight |-> AnyNum]

ValidationRuleCreate == [name |-> String, entity_type |-> String,
                         condition |-> Opt(OrNull(Object)), error_message |-> String,
                         enabled |-> Opt(Boolean), enforce_on_delete |-> Opt(Boolean),
                         weight |-> Opt(Number)]

ValidationRuleUpdate == [f \in DOMAIN ValidationRuleCreate |-> Opt(ValidationRuleCreate[f])]

Webhook == [name |-> Choice, url |-> Choice, http_method |-> Text, secret |-> OrNull(Choice),
            events |-> OrNull(List), enabled |-> Boolean, ssl_verify |-> Boolean,
            timeout |-> AnyNum, retry_count |-> AnyNum]

WebhookCreate == [name |-> String, url |-> String, http_method |-> Opt(String),
                  secret |-> Opt(OrNull(String)), events |-> Opt(OrNull(List)),
                  enabled |-> Opt(Boolean), ssl_verify |-> Opt(Boolean),
                  timeout |-> Opt(Number), retry_count |-> Opt(Number)]

WebhookUpdate == [f \in DOMAIN WebhookCreate |-> Opt(WebhookCreate[f])]
=============================================================================
