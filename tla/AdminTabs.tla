------------------------------ MODULE AdminTabs ------------------------------
(***************************************************************************)
(* Two tabs of AdminPage that keep state across awaits: Backups, where a   *)
(* file is restored after CONFIRM was typed, and Integrations, whose       *)
(* settings are saved to localStorage a second after the button.           *)
(*                                                                         *)
(* The URL chooses the tab; leaving one drops its state, while its calls   *)
(* and timers go on.  The callbacks given to mutate() are dropped with it, *)
(* the rest of handleSave is not.                                          *)
(***************************************************************************)
EXTENDS Integers, FiniteSets, Sequences

CONSTANTS
    File,         \* the archives a user may choose
    Section,      \* sections of the settings
    MaxActs,      \* bound on what the user does
    MaxRestores,  \* bound on the restores pressed
    MaxRefused    \* bound on the restores that fail

ASSUME AdminTabsAssumption == {MaxActs, MaxRestores, MaxRefused} \subseteq Nat

NoFile == "no file"
NoText == ""

VARIABLES
    adminTab,     \* "backups" or "integrations"
    visit,        \* how often a tab was mounted
    restoreFile, confirmOpen, confirmText,   \* the state of BackupsTab
    restores,     \* the calls: file, visit, CONFIRM, its file, and how far they are
    confirmed,    \* the CONFIRMs typed: the last is number confirmed
    meant,        \* the file that was chosen when it was typed
    refused,      \* restores that failed
    settings, saving, saved,      \* the state of IntegrationsTab
    kept,         \* localStorage: subnetiq_integrations
    saves,        \* the saves under way, each with the settings it captured
    acts

backupTab == <<restoreFile, confirmOpen, confirmText, restores, confirmed, meant, refused>>
settingsTab == <<settings, saving, saved, kept, saves>>
adminVars == <<adminTab, visit, backupTab, settingsTab, acts>>

AdminInit ==
    /\ adminTab \in {"backups", "integrations"} /\ visit = 1
    /\ restoreFile = NoFile /\ confirmOpen = FALSE /\ confirmText = NoText
    /\ restores = <<>> /\ confirmed = 0 /\ meant = NoFile /\ refused = 0
    /\ kept = [s \in Section |-> 0] /\ settings = kept
    /\ saving = FALSE /\ saved = FALSE /\ saves = <<>>
    /\ acts = 0

Act(tab) == adminTab = tab /\ acts < MaxActs /\ acts' = acts + 1

\* A tab mounts with no file, and with the settings of localStorage.
GoToTab(tab) ==
    /\ acts < MaxActs /\ acts' = acts + 1
    /\ adminTab' = tab /\ visit' = visit + 1
    /\ restoreFile' = NoFile /\ confirmOpen' = FALSE /\ confirmText' = NoText
    /\ settings' = kept /\ saving' = FALSE /\ saved' = FALSE
    /\ UNCHANGED <<restores, confirmed, meant, refused, kept, saves>>

-----------------------------------------------------------------------------
(* BackupsTab.                                                             *)

ConfirmShown == confirmOpen /\ restoreFile # NoFile
RestoreEnded(restore) == restore.st \in {"done", "failed"}
RestorePending == \E i \in DOMAIN restores : restores[i].visit = visit /\ ~RestoreEnded(restores[i])

\* The input, and "Cancel": under the dialog neither can be reached.
ChooseFile(f) ==
    /\ Act("backups") /\ ~ConfirmShown /\ f # restoreFile
    /\ restoreFile' = f
    /\ UNCHANGED <<adminTab, visit, confirmOpen, confirmText, restores, confirmed, meant, refused,
                   settingsTab>>

\* "Restore" is disabled while a restore is pending; the dialog's Cancel is not.
ShowConfirm(open) ==
    /\ adminTab = "backups" /\ restoreFile # NoFile /\ open # confirmOpen
    /\ open => ~RestorePending
    /\ confirmOpen' = open
    /\ UNCHANGED <<adminTab, visit, restoreFile, confirmText, restores, confirmed, meant, refused,
                   settingsTab, acts>>

TypeConfirm ==
    /\ Act("backups") /\ ConfirmShown /\ confirmText # "CONFIRM"
    /\ confirmText' = "CONFIRM" /\ confirmed' = confirmed + 1 /\ meant' = restoreFile
    /\ UNCHANGED <<adminTab, visit, restoreFile, confirmOpen, restores, refused, settingsTab>>

\* handleRestore
PressRestore ==
    /\ adminTab = "backups" /\ ConfirmShown /\ confirmText = "CONFIRM" /\ ~RestorePending
    /\ Len(restores) < MaxRestores
    /\ restores' = Append(restores, [file |-> restoreFile, visit |-> visit,
                                     confirm |-> confirmed, meant |-> meant, st |-> "sent"])
    /\ UNCHANGED <<adminTab, visit, restoreFile, confirmOpen, confirmText, confirmed, meant,
                   refused, settingsTab, acts>>

\* The endpoint queues the task.
QueueRestore(i) ==
    /\ restores[i].st = "sent"
    /\ restores' = [restores EXCEPT ![i].st = "queued"]
    /\ UNCHANGED <<adminTab, visit, restoreFile, confirmOpen, confirmText, confirmed, meant,
                   refused, settingsTab, acts>>

\* Mutant: the CONFIRM that was typed stays.
SucceedKeepsText(i) ==
    LET here == restores[i].visit = visit IN
    /\ restores[i].st = "queued"
    /\ restores' = [restores EXCEPT ![i].st = "done"]
    /\ restoreFile' = IF here THEN NoFile ELSE restoreFile
    /\ confirmOpen' = (confirmOpen /\ ~here)
    /\ UNCHANGED <<adminTab, visit, confirmText, confirmed, meant, refused, settingsTab, acts>>

\* onSuccess, dropped when the tab was left.
SucceedRestore(i) ==
    LET here == restores[i].visit = visit IN
    /\ restores[i].st = "queued"
    /\ restores' = [restores EXCEPT ![i].st = "done"]
    /\ restoreFile' = IF here THEN NoFile ELSE restoreFile
    /\ confirmText' = IF here THEN NoText ELSE confirmText
    /\ confirmOpen' = (confirmOpen /\ ~here)
    /\ UNCHANGED <<adminTab, visit, confirmed, meant, refused, settingsTab, acts>>

\* A refusal, or an answer that is lost: the dialog stays as it is for another
\* try.
FailRestore(i) ==
    /\ ~RestoreEnded(restores[i]) /\ refused < MaxRefused
    /\ restores' = [restores EXCEPT ![i].st = "failed"] /\ refused' = refused + 1
    /\ UNCHANGED <<adminTab, visit, restoreFile, confirmOpen, confirmText, confirmed, meant,
                   settingsTab, acts>>

-----------------------------------------------------------------------------
(* IntegrationsTab.                                                        *)

\* updateSection
EditSection(s, value) ==
    /\ Act("integrations") /\ settings[s] # value
    /\ settings' = [settings EXCEPT ![s] = value] /\ saved' = FALSE
    /\ UNCHANGED <<adminTab, visit, backupTab, saving, kept, saves>>

\* handleSave up to its await.
PressSave ==
    /\ Act("integrations") /\ ~saving
    /\ saving' = TRUE
    /\ saves' = Append(saves, [settings |-> settings, visit |-> visit])
    /\ UNCHANGED <<adminTab, visit, backupTab, settings, saved, kept>>

\* A second later; timers fire in order.
FinishSave ==
    LET save == Head(saves) IN
    /\ saves # <<>>
    /\ saves' = Tail(saves) /\ kept' = save.settings
    /\ saving' = (saving /\ save.visit # visit)
    /\ saved' = (saved \/ save.visit = visit)
    /\ UNCHANGED <<adminTab, visit, backupTab, settings, acts>>

\* The timer of 3 s, of this save or of an earlier one.
ForgetSaved ==
    /\ saved /\ saved' = FALSE
    /\ UNCHANGED <<adminTab, visit, backupTab, settings, saving, kept, saves, acts>>

-----------------------------------------------------------------------------
AdminNext ==
    \/ \E tab \in {"backups", "integrations"} : GoToTab(tab)
    \/ \E f \in File \cup {NoFile} : ChooseFile(f)
    \/ \E open \in BOOLEAN : ShowConfirm(open)
    \/ TypeConfirm \/ PressRestore
    \/ \E i \in DOMAIN restores : QueueRestore(i) \/ SucceedRestore(i) \/ FailRestore(i)
    \/ \E s \in Section : \E value \in 0 .. 1 : EditSection(s, value)
    \/ PressSave \/ FinishSave \/ ForgetSaved

AdminSpec == AdminInit /\ [][AdminNext]_adminVars

AdminTypeOK ==
    /\ adminTab \in {"backups", "integrations"} /\ visit \in 1 .. MaxActs + 1
    /\ restoreFile \in File \cup {NoFile} /\ confirmOpen \in BOOLEAN /\ confirmText \in {NoText, "CONFIRM"}
    /\ \A i \in DOMAIN restores : restores[i].file \in File /\ restores[i].st \in {"sent", "queued", "done", "failed"}
    /\ {settings, kept} \subseteq [Section -> 0 .. 1] /\ {saving, saved} \subseteq BOOLEAN
    /\ saving => saves # <<>>

(* A CONFIRM serves one restore: none is pressed under the CONFIRM of an    *)
(* earlier one, unless the earlier one failed or its answer was lost, not  *)
(* even after the dialog was cancelled, another file chosen or the tab     *)
(* left while that one was under way.                                      *)
ConfirmServesOnce ==
    \A i, j \in DOMAIN restores :
        i < j /\ restores[i].confirm = restores[j].confirm => restores[i].st = "failed"

(* "Restoring is destructive, you must type CONFIRM to proceed": whoever    *)
(* restores a file typed CONFIRM for that file.                            *)
ConfirmedForItsFile == \A i \in DOMAIN restores : restores[i].file = restores[i].meant
=============================================================================
