------------------------------ MODULE BulkEdits ------------------------------
(***************************************************************************)
(* The selection of IpsPage and IpamRecordsPage and the bulk edits of it.  *)
(*                                                                         *)
(* A run updates the selected rows one by one, swallowing errors, with the *)
(* selection and the choices of the moment it was started.  Leaving the    *)
(* dialog (the cross, and on the IP page Cancel) does not stop it: a       *)
(* second run may start, and the first ends in the middle of other work.   *)
(***************************************************************************)
EXTENDS Integers, Sequences, FiniteSetsExt

CONSTANTS
    IpRow,       \* rows, natural numbers in the order they were selected
    Slug,        \* the tags
    MaxRuns,     \* bound on the runs started
    MaxTouched   \* bound on the changes of the selection, the writes of others
                 \* and the calls that fail for a row that is there

ASSUME BulkAssumption == IpRow \subseteq Nat /\ {MaxRuns, MaxTouched} \subseteq Nat

VARIABLES
    bulkPage,    \* "ips" or "records"
    ipTable,     \* the server's rows: the tags and a version counting other writes
    ipStatus,    \* ipStatus[r]: "before" or "after"
    selected,    \* selectedIds
    bulkDialog,  \* "closed", "open" or "saving"
    runs,        \* the runs of handleSubmit, in the order they started
    touches

bulkVars == <<bulkPage, ipTable, ipStatus, selected, bulkDialog, runs, touches>>

TagModes == {"none", "add", "replace", "remove"}

\* A run: its mode and tags, the rows it was started for, those still to come
\* in their order, the row its GET answered, if any, and those it failed for.
NewRun(mode, tags, ids) ==
    [mode |-> mode, tags |-> tags, all |-> ids, todo |-> ids, read |-> <<>>, failed |-> {},
     left |-> FALSE, st |-> "running"]

\* A page on which some rows have been selected.
BulkInit ==
    /\ bulkPage \in {"ips", "records"}
    /\ \E tags \in SUBSET Slug : ipTable = [r \in IpRow |-> [tags |-> tags, ver |-> 0]]
    /\ ipStatus = [r \in IpRow |-> "before"]
    /\ selected \in SUBSET IpRow /\ bulkDialog = "closed" /\ runs = <<>> /\ touches = 0

-----------------------------------------------------------------------------
(* The selection, while no dialog covers the page.                         *)

Touch == bulkDialog = "closed" /\ touches < MaxTouched /\ touches' = touches + 1

\* A row's checkbox, the checkbox of the header for the filtered rows ids or
\* for none, "Clear selection".
ToggleRow(r) ==
    /\ Touch
    /\ selected' = IF r \in selected THEN selected \ {r} ELSE selected \cup {r}
    /\ UNCHANGED <<bulkPage, ipTable, ipStatus, bulkDialog, runs>>

SelectAll(ids) ==
    /\ Touch
    /\ selected' = ids
    /\ UNCHANGED <<bulkPage, ipTable, ipStatus, bulkDialog, runs>>

\* Others change the tags of a row, or delete it.
OthersTouch(r, tags) ==
    /\ touches < MaxTouched /\ touches' = touches + 1
    /\ r \in DOMAIN ipTable
    /\ ipTable' = [ipTable EXCEPT ![r] = [tags |-> tags, ver |-> ipTable[r].ver + 1]]
    /\ UNCHANGED <<bulkPage, ipStatus, selected, bulkDialog, runs>>

OthersDelete(r) ==
    /\ touches < MaxTouched /\ touches' = touches + 1
    /\ r \in DOMAIN ipTable
    /\ ipTable' = [q \in DOMAIN ipTable \ {r} |-> ipTable[q]]
    /\ UNCHANGED <<bulkPage, ipStatus, selected, bulkDialog, runs>>

-----------------------------------------------------------------------------
(* The dialog.                                                             *)

OpenBulk ==
    /\ selected # {} /\ bulkDialog = "closed"
    /\ bulkDialog' = "open"
    /\ UNCHANGED <<bulkPage, ipTable, ipStatus, selected, runs, touches>>

\* Mutant: the dialog does not show that it is saving.
ApplyUnmarked(mode, tags) ==
    /\ bulkDialog = "open" /\ Len(runs) < MaxRuns
    /\ bulkPage = "ips" => mode = "none"
    /\ mode = "none" => tags = {}
    /\ runs' = Append(runs, NewRun(mode, tags, selected))
    /\ UNCHANGED <<bulkPage, ipTable, ipStatus, selected, bulkDialog, touches>>

\* "Apply Changes", with a status chosen; the IP page does not offer tags.
ApplyBulk(mode, tags) ==
    /\ bulkDialog = "open" /\ Len(runs) < MaxRuns
    /\ bulkPage = "ips" => mode = "none"
    /\ mode = "none" => tags = {}
    /\ bulkDialog' = "saving"
    /\ runs' = Append(runs, NewRun(mode, tags, selected))
    /\ UNCHANGED <<bulkPage, ipTable, ipStatus, selected, touches>>

LeaveBulk ==
    /\ bulkDialog # "closed"
    /\ bulkDialog' = "closed"
    /\ runs' = [i \in DOMAIN runs |-> [runs[i] EXCEPT !.left = runs[i].left \/ runs[i].st = "running"]]
    /\ UNCHANGED <<bulkPage, ipTable, ipStatus, selected, touches>>

-----------------------------------------------------------------------------
(* A run.                                                                  *)

Going(i) == runs[i].st = "running" /\ runs[i].todo # {}
RowOf(i) == Min(runs[i].todo)
Reads1(i) == runs[i].mode # "none" /\ runs[i].read = <<>>
Past(run) == [run EXCEPT !.todo = run.todo \ {Min(run.todo)}, !.read = <<>>]

\* An error of a call is swallowed, and the next row is taken.
FailRow(i) ==
    /\ Going(i)
    /\ IF RowOf(i) \in DOMAIN ipTable THEN touches < MaxTouched /\ touches' = touches + 1
                                     ELSE UNCHANGED touches
    /\ runs' = [runs EXCEPT ![i] = [Past(runs[i]) EXCEPT !.failed = runs[i].failed \cup {RowOf(i)}]]
    /\ UNCHANGED <<bulkPage, ipTable, ipStatus, selected, bulkDialog>>

\* GET /ips/{id}.
ReadTags(i) ==
    /\ Going(i) /\ Reads1(i) /\ RowOf(i) \in DOMAIN ipTable
    /\ runs' = [runs EXCEPT ![i].read = <<ipTable[RowOf(i)]>>]
    /\ UNCHANGED <<bulkPage, ipTable, ipStatus, selected, bulkDialog, touches>>

\* Mutant: the tags chosen replace those of the row.
TagsChosen(run) == run.tags

TagsToSend(run) ==
    CASE run.mode = "add" -> run.read[1].tags \cup run.tags
      [] run.mode = "replace" -> run.tags
      [] run.mode = "remove" -> run.read[1].tags \ run.tags

\* PUT /ips/{id} of the chosen columns.
PutRow(i) ==
    /\ Going(i) /\ ~Reads1(i) /\ RowOf(i) \in DOMAIN ipTable
    /\ ipStatus' = [ipStatus EXCEPT ![RowOf(i)] = "after"]
    /\ ipTable' = IF runs[i].mode = "none" THEN ipTable
                  ELSE [ipTable EXCEPT ![RowOf(i)].tags = TagsToSend(runs[i])]
    /\ runs' = [runs EXCEPT ![i] = Past(runs[i])]
    /\ UNCHANGED <<bulkPage, selected, bulkDialog, touches>>

\* onComplete.
CompleteBulk(i) ==
    /\ runs[i].st = "running" /\ runs[i].todo = {}
    /\ runs' = [runs EXCEPT ![i].st = "done"]
    /\ bulkDialog' = "closed" /\ selected' = {}
    /\ UNCHANGED <<bulkPage, ipTable, ipStatus, touches>>

-----------------------------------------------------------------------------
StepRun(i) == ReadTags(i) \/ PutRow(i) \/ FailRow(i) \/ CompleteBulk(i)

BulkNext ==
    \/ \E r \in IpRow : ToggleRow(r) \/ OthersDelete(r) \/ \E tags \in SUBSET Slug : OthersTouch(r, tags)
    \/ \E ids \in SUBSET IpRow : SelectAll(ids)
    \/ OpenBulk \/ LeaveBulk
    \/ \E mode \in TagModes : \E tags \in SUBSET Slug : ApplyBulk(mode, tags)
    \/ \E i \in DOMAIN runs : StepRun(i)

BulkSpec == BulkInit /\ [][BulkNext]_bulkVars

BulkTypeOK ==
    /\ bulkPage \in {"ips", "records"} /\ bulkDialog \in {"closed", "open", "saving"}
    /\ DOMAIN ipTable \subseteq IpRow /\ selected \subseteq IpRow
    /\ \A r \in DOMAIN ipTable : ipTable[r] \in [tags : SUBSET Slug, ver : 0 .. MaxTouched]
    /\ ipStatus \in [IpRow -> {"before", "after"}]
    /\ Len(runs) <= MaxRuns /\ touches \in 0 .. MaxTouched
    /\ \A i \in DOMAIN runs : runs[i].st \in {"running", "done"} /\ runs[i].mode \in TagModes

(* A run that adds tags removes none, one that removes tags adds none, but *)
(* for what changed between its GET and its PUT of that very row: by other *)
(* users, or by another run.                                               *)
TagsAreKept ==
    \A i \in DOMAIN runs : \A r \in DOMAIN ipTable \cap DOMAIN ipTable' :
        Going(i) /\ runs'[i].todo # runs[i].todo /\ RowOf(i) = r /\ runs[i].mode \in {"add", "remove"}
            => \/ runs[i].mode = "add" /\ ipTable[r].tags \subseteq ipTable'[r].tags
               \/ runs[i].mode = "remove" /\ ipTable'[r].tags \subseteq ipTable[r].tags
               \/ runs[i].read # <<>> /\ runs[i].read[1].ver # ipTable[r].ver
               \/ Len(runs) > 1

TagsLostOnlyInARace == [][TagsAreKept]_bulkVars

(* A run that ends has updated every row it was started for but those      *)
(* whose calls failed, whatever was selected meanwhile; it closes its own  *)
(* dialog and clears the selection it was started for, unless the dialog   *)
(* of some run was left while it went on.                                  *)
RunsEndTheirOwn ==
    \A i \in DOMAIN runs :
        runs[i].st = "running" /\ runs'[i].st = "done" =>
            /\ \A r \in runs[i].all : r \in runs[i].failed \/ ipStatus[r] = "after"
            /\ \/ \E j \in DOMAIN runs : runs[j].left
               \/ bulkDialog = "saving" /\ selected = runs[i].all

EndsItsOwnWork == [][RunsEndTheirOwn]_bulkVars
=============================================================================
