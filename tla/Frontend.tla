------------------------------ MODULE Frontend ------------------------------
(***************************************************************************)
(* The web frontend behind the login: App.tsx shows one page at a time and *)
(* unmounts it, with all its state, when another is navigated to.  A page  *)
(* has a list, dialogs with forms, a selection, scan results, a search or  *)
(* tabs; what pages share is the query cache.                              *)
(*                                                                         *)
(* A behaviour follows one such part of the page that is shown, whose      *)
(* modules it composes; the other parts rest in one of their first states. *)
(***************************************************************************)
EXTENDS QueryCache, ListPages, BulkEdits, SelfUpdate, Imports, SearchViews, AdminTabs, Forms,
        Profile, Permissions

CONSTANT Followed    \* the parts looked at

VARIABLE part        \* the part of the page that is followed

frontendVars == <<part, cacheVars, listVars, bulkVars, updateVars, importVars, searchVars,
                  adminVars, formVars, profileVars, roleVars>>

Part == {"cache", "list", "bulk", "update", "import", "search", "admin", "form", "profile", "roles"}

ASSUME FrontendAssumption == Followed \subseteq Part

-----------------------------------------------------------------------------
(* The parts at rest.                                                      *)

CacheRests ==
    LET p == CHOOSE q \in Pairs : TRUE IN
    query = p[1] /\ mutation = p[2] /\ db = [ver |-> 1, busy |-> FALSE]

ListRests ==
    /\ listPage = (CHOOSE p \in ListedPage : TRUE) /\ table = {}
    /\ pageSize = (CHOOSE n \in PageSize : TRUE)

BulkRests ==
    /\ bulkPage = "ips" /\ ipTable = [r \in IpRow |-> [tags |-> {}, ver |-> 0]] /\ selected = {}

UpdateRests == updState = "none"

ImportRests == shownNet = (CHOOSE n \in Net : TRUE) /\ hosts = [n \in Net |-> {}]

SearchRests ==
    /\ searchView = (CHOOSE v \in Searched : TRUE) /\ logRows = {}
    /\ pageLen = (CHOOSE n \in Length : TRUE)

AdminRests == adminTab = "backups"

FormRests ==
    form = (CHOOSE f \in Form : 1 \in DOMAIN Dialog[f].schemas) /\ mode = 1

ProfileRests == account.enforced = FALSE

RolesRest == roles = <<"viewer">>

-----------------------------------------------------------------------------
FrontendInit ==
    /\ part \in Followed
    /\ (IF part = "cache" THEN TRUE ELSE CacheRests) /\ CacheInit
    /\ (IF part = "list" THEN TRUE ELSE ListRests) /\ ListInit
    /\ (IF part = "bulk" THEN TRUE ELSE BulkRests) /\ BulkInit
    /\ (IF part = "update" THEN TRUE ELSE UpdateRests) /\ UpdateInit
    /\ (IF part = "import" THEN TRUE ELSE ImportRests) /\ ImportsInit
    /\ (IF part = "search" THEN TRUE ELSE SearchRests) /\ SearchInit
    /\ (IF part = "admin" THEN TRUE ELSE AdminRests) /\ AdminInit
    /\ (IF part = "form" THEN TRUE ELSE FormRests) /\ FormsInit
    /\ ProfileInit /\ (IF part = "profile" THEN TRUE ELSE ProfileRests)
    /\ RolesInit /\ (IF part = "roles" THEN TRUE ELSE RolesRest)

FrontendNext ==
    \/ part = "cache" /\ CacheNext
       /\ UNCHANGED <<part, listVars, bulkVars, updateVars, importVars, searchVars, adminVars, formVars,
                   profileVars, roleVars>>
    \/ part = "list" /\ ListNext
       /\ UNCHANGED <<part, cacheVars, bulkVars, updateVars, importVars, searchVars, adminVars, formVars,
                   profileVars, roleVars>>
    \/ part = "bulk" /\ BulkNext
       /\ UNCHANGED <<part, cacheVars, listVars, updateVars, importVars, searchVars, adminVars, formVars,
                   profileVars, roleVars>>
    \/ part = "update" /\ UpdateNext
       /\ UNCHANGED <<part, cacheVars, listVars, bulkVars, importVars, searchVars, adminVars, formVars,
                   profileVars, roleVars>>
    \/ part = "import" /\ ImportsNext
       /\ UNCHANGED <<part, cacheVars, listVars, bulkVars, updateVars, searchVars, adminVars, formVars,
                   profileVars, roleVars>>
    \/ part = "search" /\ SearchNext
       /\ UNCHANGED <<part, cacheVars, listVars, bulkVars, updateVars, importVars, adminVars, formVars,
                   profileVars, roleVars>>
    \/ part = "admin" /\ AdminNext
       /\ UNCHANGED <<part, cacheVars, listVars, bulkVars, updateVars, importVars, searchVars, formVars,
                   profileVars, roleVars>>
    \/ part = "form" /\ FormsNext
       /\ UNCHANGED <<part, cacheVars, listVars, bulkVars, updateVars, importVars, searchVars, adminVars,
                   profileVars, roleVars>>
    \/ part = "profile" /\ ProfileNext
       /\ UNCHANGED <<part, cacheVars, listVars, bulkVars, updateVars, importVars, searchVars, adminVars,
                   formVars, roleVars>>
    \/ part = "roles" /\ RolesNext
       /\ UNCHANGED <<part, cacheVars, listVars, bulkVars, updateVars, importVars, searchVars, adminVars,
                   formVars, profileVars>>

FrontendSpec == FrontendInit /\ [][FrontendNext]_frontendVars

\* Fetches, polls and the updater go on.
FairFrontendSpec == FrontendSpec /\ CacheFairness /\ UpdateFairness

-----------------------------------------------------------------------------
(* The followed part has values of its types; the others keep their first. *)
FrontendTypeOK ==
    CASE part = "cache" -> CacheTypeOK
      [] part = "list" -> ListTypeOK
      [] part = "bulk" -> BulkTypeOK
      [] part = "update" -> UpdateTypeOK
      [] part = "import" -> ImportsTypeOK
      [] part = "search" -> SearchTypeOK
      [] part = "admin" -> AdminTypeOK
      [] part = "form" -> FormsTypeOK
      [] part = "profile" -> ProfileTypeOK
      [] part = "roles" -> RolesTypeOK
=============================================================================
