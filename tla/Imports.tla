------------------------------- MODULE Imports -------------------------------
(***************************************************************************)
(* The scan results of a subnet on IpsPage and their import into the IPAM: *)
(* one host by the button of its row, or every alive host that is not in   *)
(* it, one POST after the other.                                           *)
(*                                                                         *)
(* The view is not keyed by the subnet: what was imported and what is      *)
(* being imported stay when another subnet is chosen, and are forgotten    *)
(* when the view is left.  An import that was started goes on.             *)
(***************************************************************************)
EXTENDS Integers, Sequences, FiniteSetsExt

CONSTANTS
    Net,          \* subnets of different VRFs: an address may be in several
    Address,      \* natural numbers, in the order of the scan
    MaxImports,   \* bound on the buttons pressed
    MaxTurns      \* bound on the turns of the user elsewhere, the registrations
                  \* of others and the calls that fail

ASSUME ImportsAssumption == Address \subseteq Nat /\ {MaxImports, MaxTurns} \subseteq Nat

None == 0 - 1

VARIABLES
    shownNet,     \* the subnet whose results are shown
    hosts,        \* hosts[n]: the alive hosts that were not in the IPAM when n was scanned
    registered,   \* the server's IPs, as <<subnet, address>>
    imported, importing, \* the state of ScanResultsView; importing is None or an address
    mounts,       \* how often the view was mounted
    imports,      \* the calls of handleImport and handleImportAll
    turns

importVars == <<shownNet, hosts, registered, imported, importing, mounts, imports, turns>>

\* An import: the subnet and the hosts it was started for, those still to come
\* in the order of the scan (the call of the first is under way), and those
\* whose POST failed.
NewImport(as) == [net |-> shownNet, mount |-> mounts, all |-> as, todo |-> as, st |-> "sent",
                  failed |-> {}]
UnderWay(i) == imports[i].todo # {}

\* Mutant: the host is created in the subnet that is shown by then.
HandShown(i) == <<shownNet, Min(imports[i].todo)>>

Hand(i) == <<imports[i].net, Min(imports[i].todo)>>

ImportsInit ==
    /\ shownNet \in Net /\ hosts \in [Net -> SUBSET Address] /\ registered = {}
    /\ imported = {} /\ importing = None /\ mounts = 1 /\ imports = <<>>
    /\ turns = 0

-----------------------------------------------------------------------------
(* The view.                                                               *)

Turn == turns < MaxTurns /\ turns' = turns + 1

ChooseNet(n) ==
    /\ Turn /\ shownNet' = n /\ n # shownNet
    /\ UNCHANGED <<hosts, registered, imported, importing, mounts, imports>>

\* "Database" and back to "Scan results".
LeaveView ==
    /\ Turn /\ imported' = {} /\ importing' = None /\ mounts' = mounts + 1
    /\ UNCHANGED <<shownNet, hosts, registered, imports>>

\* "Refresh" after another scan.
Rescan(as) ==
    /\ Turn /\ \A a \in as : <<shownNet, a>> \notin registered
    /\ hosts' = [hosts EXCEPT ![shownNet] = as]
    /\ UNCHANGED <<shownNet, registered, imported, importing, mounts, imports>>

\* Another user registers an address.
OthersRegister(n, a) ==
    /\ Turn /\ registered' = registered \cup {<<n, a>>}
    /\ UNCHANGED <<shownNet, hosts, imported, importing, mounts, imports>>

\* unimportedAlive
Unimported == hosts[shownNet] \ imported

StartImport(as) ==
    /\ Len(imports) < MaxImports
    /\ imports' = Append(imports, NewImport(as)) /\ importing' = Min(as)
    /\ UNCHANGED <<shownNet, hosts, registered, imported, mounts, turns>>

\* handleImport from a row: only the row being imported is disabled.
ImportHost(a) ==
    /\ a \in Unimported /\ importing # a
    /\ StartImport({a})

\* handleImportAll, with the importing of its render, which is null.
ImportAll ==
    /\ Unimported # {} /\ importing = None
    /\ StartImport(Unimported)

-----------------------------------------------------------------------------
(* handleImport, of a row or of one host after the other.                  *)

\* POST /ips refuses an address that is registered.
CommitImport(i) ==
    /\ UnderWay(i) /\ imports[i].st = "sent"
    /\ IF Hand(i) \in registered
       THEN imports' = [imports EXCEPT ![i].st = "refused"] /\ UNCHANGED registered
       ELSE imports' = [imports EXCEPT ![i].st = "created"] /\ registered' = registered \cup {Hand(i)}
    /\ UNCHANGED <<shownNet, hosts, imported, importing, mounts, turns>>

LoseImport(i) ==
    /\ UnderWay(i) /\ imports[i].st # "refused" /\ Turn
    /\ imports' = [imports EXCEPT ![i].st = "refused"]
    /\ UNCHANGED <<shownNet, hosts, registered, imported, importing, mounts>>

\* The next host is taken whatever became of this one.
NextImport(i) ==
    LET i1 == imports[i]
        host == Min(i1.todo)
        rest == i1.todo \ {host}
        here == i1.mount = mounts
    IN
    /\ UnderWay(i) /\ i1.st # "sent"
    /\ imports' = [imports EXCEPT ![i].todo = rest, ![i].st = "sent",
                       ![i].failed = IF i1.st = "refused" THEN i1.failed \cup {host} ELSE i1.failed]
    /\ imported' = IF here /\ i1.st = "created" THEN imported \cup {host} ELSE imported
    /\ importing' = IF ~here THEN importing ELSE IF rest = {} THEN None ELSE Min(rest)
    /\ UNCHANGED <<shownNet, hosts, registered, mounts, turns>>

-----------------------------------------------------------------------------
ImportsNext ==
    \/ \E n \in Net : ChooseNet(n) \/ \E a \in Address : OthersRegister(n, a)
    \/ LeaveView \/ ImportAll
    \/ \E as \in SUBSET Address : Rescan(as)
    \/ \E a \in Address : ImportHost(a)
    \/ \E i \in DOMAIN imports : CommitImport(i) \/ LoseImport(i) \/ NextImport(i)

ImportsSpec == ImportsInit /\ [][ImportsNext]_importVars

ImportsTypeOK ==
    /\ shownNet \in Net /\ hosts \in [Net -> SUBSET Address] /\ registered \subseteq Net \X Address
    /\ imported \subseteq Address /\ importing \in Address \cup {None}
    /\ \A i \in DOMAIN imports : imports[i].net \in Net /\ imports[i].st \in {"sent", "created", "refused"}
    /\ Len(imports) <= MaxImports /\ turns \in 0 .. MaxTurns
    /\ mounts \in 1 .. MaxTurns + 1

(* An import that is over has created every host it was started for, in    *)
(* the subnet it was started for whatever is shown by then, but for those  *)
(* whose call failed; and a host shown as "In IPAM" was created by this    *)
(* view, in the subnet it is shown for unless the subnet was changed.      *)
ImportsRegister ==
    /\ \A i \in DOMAIN imports : \A a \in imports[i].all :
           a \in imports[i].todo \cup imports[i].failed \/ <<imports[i].net, a>> \in registered
    /\ \A a \in imported :
           \/ <<shownNet, a>> \in registered
           \/ \E i \in DOMAIN imports : imports[i].net # shownNet /\ <<imports[i].net, a>> \in registered
=============================================================================
