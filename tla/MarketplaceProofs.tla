-------------------------- MODULE MarketplaceProofs ---------------------------
(***************************************************************************)
(* The marketplace for any number of requests, sources, commits and        *)
(* processes: an installed plugin has its bundle, what the host serves was *)
(* verified, an enabled plugin is the one that was reviewed, and the       *)
(* record of a source does not go back.                                    *)
(***************************************************************************)
EXTENDS Marketplace, TLAPS

Kinds == PluginsCommand \cup MarketplaceRoutes
SignatureStates == {"unsigned", "invalid", "untrusted", "trusted"}
Requests ==
    [at : Stages, kind : Kinds \cup {None}, source : Sources \cup {None},
     force : BOOLEAN, label : Revisions \cup Names \cup {None},
     found : Contents \cup SignatureStates \cup {None}]
Loads ==
    [at : {"idle", "verify", "hash", "build", "recheck", "reverify"},
     dir : Names \cup {None}, first : Contents \cup {None},
     hash : Contents \cup {None}, code : Contents \cup {None},
     swapped : BOOLEAN]
SyncRows == [rev : Revisions \cup {None}]

\* The stages of a request that is about a source, in their order.
Syncing == {"fetch", "record"}
Copying == {"place", "activate", "put_install"}
Labelled == {"record", "scan", "check", "copy", "place"}
Sourced ==
    Syncing \cup Copying \cup
    {"delete_sync", "lock", "label", "scan", "check", "copy"}

\* What each variable is made of.
DatabaseTyped ==
    /\ sources \in [Sources -> {"absent", "enabled", "disabled"}]
    /\ syncs \in [Sources -> SyncRows \cup {None}]
    /\ install \in InstallRows \cup {None}
    /\ moduleState \in {"none", "off", "on"}
    /\ signer \in BOOLEAN
    /\ vendor \in {"none", "named", "linked"}
FilesTyped ==
    /\ backend \in Backends
    /\ cast \in Casts
    /\ remote \in [Sources -> 1..MaxCommits]
    /\ checkout \in [Sources -> 0..MaxCommits]
    /\ root \in [exists : BOOLEAN, active : Names \cup {None}]
    /\ bundles \in [Names -> Contents \cup {None}]
    /\ cache \in [Names -> Contents \cup {None}]
ProcessesTyped ==
    /\ lock \in [Managers -> [Sources -> Operators \cup {None}]]
    /\ op \in [Operators -> Requests]
    /\ loader \in Loads
    /\ served \in Contents \cup {None}
    /\ disableFailed \in BOOLEAN
    /\ torn \in BOOLEAN
    /\ evaded \in BOOLEAN

\* What a request has found out when it reaches a stage.
Ready(r) ==
    /\ r.at \in Sourced => r.source \in Sources
    /\ r.at \in Labelled => r.label \in Revisions \cup {None}
    /\ r.at \in {"check", "copy"} => checkout[r.source] # 0
    /\ r.at \in Copying => r.found \in Contents
    /\ r.at \in {"activate", "put_install"} => r.label \in Names

\* Every request is ready for its next step; who takes no part rests.
Prepared ==
    /\ \A o \in Operators : Ready(op[o])
    /\ \A o \in Operators : o \notin cast => op[o] = Idle

LocksHeld ==
    \A s \in Sources, o \in Operators :
        lock[Manager(o)][s] = o <=>
            op[o].source = s /\ op[o].at \in Syncing

\* The bundle that a request has placed is there until its row is written.
PlacedIsThere ==
    \A o \in Operators :
        op[o].at \in {"activate", "put_install"} =>
            \/ torn
            \/ /\ bundles[op[o].label] # None
               /\ bundles[op[o].label].rev = op[o].found.rev

\* The stages of a load after it looked at the signature, and after it read
\* the sources.
Loading == {"hash", "build", "recheck", "reverify"}
Compiled == {"recheck", "reverify"}

\* What the load looked at first was verified.  While nobody swaps the files,
\* they are of that revision, and if they still are what was verified, so is
\* the code that was read from them.
LoadKnowsFirst ==
    LET there == LoadDir(loader.dir)
        first == loader.first
        code == loader.code
    IN
    /\ loader.at # "idle" => loader.dir \in Names
    /\ loader.at \in Loading =>
        /\ first \in Contents
        /\ first.rev \in Signed => ~first.edited
        /\ RequireSigned => first.rev \in Signed
        /\ ~loader.swapped => there = None \/ there.rev = first.rev
    /\ loader.at \in Compiled =>
        /\ code \in Contents
        /\ ~loader.swapped => /\ code.rev = first.rev
                              /\ there = first => code = first

\* Records are of commits that were checked out, labels of what is checked out
\* now: without a command line every request takes the locks of one manager.
RecordsBehind ==
    \A s \in Sources :
        /\ checkout[s] <= remote[s]
        /\ syncs[s] # None /\ syncs[s].rev # None =>
               syncs[s].rev[2] <= checkout[s]
LabelsCurrent ==
    \A o \in Operators :
        op[o].at = "record" /\ op[o].label # None =>
            op[o].label = <<op[o].source, checkout[op[o].source]>>
RecordsFollowCheckouts ==
    cast \cap CommandLine = {} => RecordsBehind /\ LabelsCurrent

MarketInv ==
    /\ DatabaseTyped /\ FilesTyped /\ ProcessesTyped
    /\ Prepared /\ LocksHeld
    /\ RowHasBundle /\ PlacedIsThere
    /\ ServedIsVerified /\ LoadKnowsFirst
    /\ EnabledWasReviewed
    /\ RecordsFollowCheckouts

-----------------------------------------------------------------------------
(* The initial states. *)

\* The records a request and a load start from.
LEMMA RestIsTyped == Idle \in Requests /\ Resting \in Loads
BY DEF Idle, Requests, Stages, Resting, Loads

\* At the start nothing is installed, placed, loaded or recorded.
LEMMA StartsWell == Init => MarketInv
<1> SUFFICES ASSUME Init PROVE MarketInv
  OBVIOUS
<1> USE NoneIsNoValue, CommitsPositive, KnownBackends
<1>1. DatabaseTyped
  <2>1. signer \in BOOLEAN
    BY DEF Init
  <2> QED BY <2>1 DEF Init, DatabaseTyped
<1>8. FilesTyped
  BY DEF Init, FilesTyped, NoRoot
<1>9. ProcessesTyped
  <2>1. lock \in [Managers -> [Sources -> Operators \cup {None}]]
    BY DEF Init
  <2> QED BY <2>1, RestIsTyped DEF Init, ProcessesTyped
<1>2. Prepared
  BY DEF Init, Prepared, Ready, Idle, Sourced, Labelled, Copying, Syncing
<1>3. LocksHeld
  BY DEF Init, LocksHeld, Idle, Syncing, Manager, Managers
<1>4. RowHasBundle /\ PlacedIsThere
  BY DEF Init, RowHasBundle, PlacedIsThere, Idle
<1>5. ServedIsVerified /\ LoadKnowsFirst
  BY DEF Init, ServedIsVerified, LoadKnowsFirst, Resting, Loading, Compiled
<1>6. EnabledWasReviewed
  BY DEF Init, EnabledWasReviewed
<1>7. RecordsFollowCheckouts
  BY DEF Init, RecordsFollowCheckouts, RecordsBehind, LabelsCurrent, Idle
<1> QED BY <1>1, <1>2, <1>3, <1>4, <1>5, <1>6, <1>7, <1>8, <1>9 DEF MarketInv

-----------------------------------------------------------------------------
(* Types. *)

\* The statements of the store write rows of their tables, no other step does.
LEMMA DatabaseStaysTyped == MarketInv /\ [Next]_vars => DatabaseTyped'
<1> SUFFICES ASSUME MarketInv, [Next]_vars PROVE DatabaseTyped'
  OBVIOUS
<1> USE DEF MarketInv
<1>0. CASE UNCHANGED database
  BY <1>0 DEF DatabaseTyped, database
<1>1. CASE UNCHANGED vars
  BY <1>0, <1>1 DEF vars
<1>2. CASE Enable
  BY <1>2 DEF Enable, DatabaseTyped
<1>3. CASE LoadStep \/ \E n \in Names : EditBundle(n)
  <2>1. UNCHANGED database
    BY <1>3 DEF LoadStep, ResolveBundle, VerifyBundle, HashBundle,
                BuildGeneration, Recheck, VerifyAgain, Serve, LoadFails,
                EditBundle
  <2> QED BY <1>0, <2>1
<1>4. CASE \E s \in Sources : Commit(s)
  BY <1>0, <1>4 DEF Commit
<1>5. ASSUME NEW o \in Operators, NEW s \in Sources,
             UpsertSource(o, s) \/ DeleteSource(o, s)
      PROVE  DatabaseTyped'
  BY <1>5 DEF UpsertSource, DeleteSource, DatabaseTyped, PutMarketplaceSource,
              DeleteMarketplaceSource
<1>6. ASSUME NEW o \in Operators,
             DeleteSync(o) \/ TrustSigner(o) \/ NameVendor(o) \/ LinkKeys(o)
      PROVE  DatabaseTyped'
  BY <1>6 DEF DeleteSync, TrustSigner, NameVendor, LinkKeys, DatabaseTyped,
              DeleteMarketplaceSourceSync, PutTrustedVendor,
              ReplaceTrustedVendorKeys
<1>7. ASSUME NEW o \in Operators, RecordSync(o) PROVE DatabaseTyped'
  <2>1. op[o].label \in Revisions \cup {None}
    BY <1>7 DEF RecordSync, Prepared, Ready, Labelled
  <2>2. [rev |-> op[o].label] \in SyncRows
    BY <2>1 DEF SyncRows
  <2> QED BY <1>7, <2>2 DEF RecordSync, DatabaseTyped, PutMarketplaceSourceSync
<1>8. ASSUME NEW o \in Operators, RecordInstall(o) PROVE DatabaseTyped'
  <2>1. /\ op[o].source \in Sources
        /\ op[o].label \in Names
        /\ op[o].found \in Contents
    BY <1>8 DEF RecordInstall, Prepared, Ready, Sourced, Copying
  <2> QED BY <1>8, <2>1 DEF RecordInstall, DatabaseTyped, PutPluginInstall,
                            InstallRows
<1>9. ASSUME NEW o \in Operators,
             DisableInstalled(o) \/ DeleteInstall(o) \/ DeleteState(o)
      PROVE  DatabaseTyped'
  BY <1>9 DEF DisableInstalled, DeleteInstall, DeleteState, DatabaseTyped,
              DeletePluginInstall
<1>10. ASSUME NEW o \in Operators,
              \/ \E s \in Sources :
                    \/ BeginSync(o, s) \/ BeginSearch(o, s)
                    \/ BeginInstall(o, s) \/ BeginTrust(o, s)
              \/ LockSource(o) \/ Fetch(o) \/ FetchFails(o)
              \/ ReadLabel(o) \/ Scan(o) \/ ReadKeys(o)
       PROVE  DatabaseTyped'
  BY <1>0, <1>10 DEF BeginSync, BeginSearch, BeginInstall, BeginTrust,
     StartSync, LockSource, Fetch, FetchFails, ReadLabel, Scan, ReadKeys
<1>11. ASSUME NEW o \in Operators,
              \/ BeginUpdate(o) \/ CheckCandidate(o) \/ CopyBundle(o)
              \/ PlaceBundle(o) \/ PlaceRefused(o)
              \/ ActivateBundle(o) \/ ActivateRefused(o)
       PROVE  DatabaseTyped'
  BY <1>0, <1>11 DEF BeginUpdate, CheckCandidate, CopyBundle, PlaceBundle,
     PlaceRefused, ActivateBundle, ActivateRefused
<1>12. ASSUME NEW o \in Operators,
              \/ BeginUninstall(o) \/ RemoveRoot(o) \/ RemoveStored(o)
              \/ RemoveCache(o) \/ RequestFails(o)
       PROVE  DatabaseTyped'
  BY <1>0, <1>12 DEF BeginUninstall, RemoveRoot, RemoveStored, RemoveCache,
     RequestFails
<1> QED
  BY <1>1, <1>2, <1>3, <1>4, <1>5, <1>6, <1>7, <1>8, <1>9, <1>10, <1>11, <1>12
  DEF Next, SyncStep, TrustStep, InstallStep, UninstallStep

\* The directories hold contents, and the checkouts go from commit to commit.
LEMMA FilesStayTyped == MarketInv /\ [Next]_vars => FilesTyped'
<1> SUFFICES ASSUME MarketInv, [Next]_vars PROVE FilesTyped'
  OBVIOUS
<1> USE DEF MarketInv
<1>0. CASE UNCHANGED <<fixed, remote, checkout, root, bundles, cache>>
  BY <1>0 DEF FilesTyped, fixed
<1>1. CASE UNCHANGED vars
  BY <1>0, <1>1 DEF vars, files
<1>2. CASE \/ Enable \/ VerifyBundle \/ HashBundle \/ BuildGeneration
           \/ Recheck \/ VerifyAgain \/ LoadFails
  BY <1>0, <1>2 DEF Enable, VerifyBundle, HashBundle, BuildGeneration, Recheck,
     VerifyAgain, Serve, LoadFails, files
<1>3. CASE ResolveBundle
  <2>1. ChosenBundle \in Names
    BY <1>3 DEF ResolveBundle, ChosenBundle, Installed, DatabaseTyped,
                FilesTyped, InstallRows
  <2>2. cache' \in [Names -> Contents \cup {None}]
    BY <1>3, <2>1 DEF ResolveBundle, EnsureCached, FilesTyped
  <2> QED BY <1>3, <2>2 DEF ResolveBundle, FilesTyped, fixed
<1>4. ASSUME NEW s \in Sources, Commit(s) PROVE FilesTyped'
  <2>1. remote' \in [Sources -> 1..MaxCommits]
    BY <1>4, CommitsPositive DEF Commit, FilesTyped
  <2> QED BY <1>4, <2>1 DEF Commit, FilesTyped, fixed, files
<1>5. ASSUME NEW n \in Names, EditBundle(n) PROVE FilesTyped'
  <2>1. bundles[n] \in Contents
    BY <1>5 DEF EditBundle, FilesTyped
  <2>2. [bundles[n] EXCEPT !.edited = ~@] \in Contents
    BY <2>1 DEF Contents
  <2>3. bundles' \in [Names -> Contents \cup {None}]
    BY <1>5, <2>2 DEF EditBundle, FilesTyped
  <2> QED BY <1>5, <2>3 DEF EditBundle, FilesTyped, fixed
<1>6. ASSUME NEW o \in Operators,
             \/ \E s \in Sources :
                   \/ BeginSync(o, s) \/ BeginSearch(o, s)
                   \/ BeginInstall(o, s) \/ BeginTrust(o, s)
                   \/ UpsertSource(o, s) \/ DeleteSource(o, s)
             \/ LockSource(o) \/ RecordSync(o)
             \/ ReadLabel(o) \/ Scan(o) \/ ReadKeys(o) \/ TrustSigner(o)
             \/ NameVendor(o) \/ LinkKeys(o) \/ DeleteSync(o)
      PROVE  FilesTyped'
  BY <1>0, <1>6 DEF BeginSync, BeginSearch, BeginInstall, BeginTrust,
     StartSync, UpsertSource, DeleteSource, LockSource, RecordSync, ReadLabel,
     Scan, ReadKeys, TrustSigner, NameVendor, LinkKeys, DeleteSync, files
<1>7. ASSUME NEW o \in Operators,
             \/ BeginUpdate(o) \/ CheckCandidate(o) \/ PlaceRefused(o)
             \/ ActivateRefused(o) \/ RecordInstall(o) \/ DisableInstalled(o)
             \/ BeginUninstall(o) \/ DeleteInstall(o) \/ DeleteState(o)
             \/ RequestFails(o)
      PROVE  FilesTyped'
  BY <1>0, <1>7 DEF BeginUpdate, CheckCandidate, PlaceRefused, ActivateRefused,
     RecordInstall, DisableInstalled, BeginUninstall, DeleteInstall,
     DeleteState, RequestFails, files
<1>8. ASSUME NEW o \in Operators, Fetch(o) \/ FetchFails(o) PROVE FilesTyped'
  <2>1. op[o].source \in Sources
    BY <1>8 DEF Fetch, FetchFails, Prepared, Ready, Sourced, Syncing
  <2>2. checkout' \in {checkout, [checkout EXCEPT ![op[o].source] =
                                       remote[op[o].source]]}
    BY <1>8 DEF Fetch, FetchFails
  <2>3. checkout' \in [Sources -> 0..MaxCommits]
    BY <2>1, <2>2, CommitsPositive DEF FilesTyped
  <2> QED BY <1>8, <2>3 DEF Fetch, FetchFails, FilesTyped, fixed, files
<1>9. ASSUME NEW o \in Operators, CopyBundle(o) PROVE FilesTyped'
  BY <1>9 DEF CopyBundle, FilesTyped, fixed
<1>10. ASSUME NEW o \in Operators, PlaceBundle(o) PROVE FilesTyped'
  <2>1. op[o].found \in Contents
    BY <1>10 DEF PlaceBundle, Prepared, Ready, Copying
  <2>2. bundles' \in [Names -> Contents \cup {None}]
    BY <1>10, <2>1 DEF PlaceBundle, FilesTyped
  <2> QED BY <1>10, <2>2 DEF PlaceBundle, FilesTyped, fixed
<1>11. ASSUME NEW o \in Operators, ActivateBundle(o) PROVE FilesTyped'
  <2>1. op[o].label \in Names
    BY <1>11 DEF ActivateBundle, Prepared, Ready
  <2>2. cache' \in [Names -> Contents \cup {None}]
    BY <1>11, <2>1 DEF ActivateBundle, EnsureCached, FilesTyped
  <2>3. root' \in [exists : BOOLEAN, active : Names \cup {None}]
    BY <1>11, <2>1 DEF ActivateBundle
  <2> QED BY <1>11, <2>2, <2>3 DEF ActivateBundle, FilesTyped, fixed
<1>12. ASSUME NEW o \in Operators,
              RemoveRoot(o) \/ RemoveStored(o) \/ RemoveCache(o)
       PROVE  FilesTyped'
  <2>1. CASE RemoveRoot(o)
    <3>1. /\ root' \in [exists : BOOLEAN, active : Names \cup {None}]
          /\ bundles' \in [Names -> Contents \cup {None}]
      BY <2>1 DEF RemoveRoot, FilesTyped, NoRoot
    <3> QED BY <2>1, <3>1 DEF RemoveRoot, FilesTyped, fixed
  <2>2. CASE RemoveStored(o)
    <3>1. bundles' \in [Names -> Contents \cup {None}]
      BY <2>2 DEF RemoveStored
    <3> QED BY <2>2, <3>1 DEF RemoveStored, FilesTyped, fixed
  <2>3. CASE RemoveCache(o)
    <3>1. cache' \in [Names -> Contents \cup {None}]
      BY <2>3 DEF RemoveCache
    <3> QED BY <2>3, <3>1 DEF RemoveCache, FilesTyped, fixed
  <2> QED BY <1>12, <2>1, <2>2, <2>3
<1> QED
  BY <1>1, <1>2, <1>3, <1>4, <1>5, <1>6, <1>7, <1>8, <1>9, <1>10, <1>11, <1>12
  DEF Next, SyncStep, TrustStep, InstallStep, UninstallStep, LoadStep

\* Requests other than o are where they were, and ready as they were.
LEMMA RequestMoves ==
    ASSUME MarketInv, NEW o \in Operators, o \in cast, cast' = cast,
           checkout' = checkout, NEW r \in Requests, Ready(r),
           op' = [op EXCEPT ![o] = r]
    PROVE  op' \in [Operators -> Requests] /\ Prepared'
<1>1. op \in [Operators -> Requests]
  BY DEF MarketInv, ProcessesTyped
<1>2. op' \in [Operators -> Requests] /\ op'[o] = r
  BY <1>1
<1>3. \A q \in Operators \ {o} : op'[q] = op[q]
  BY <1>1
<1>4. \A q : Ready(q)' = Ready(q)
  BY DEF Ready
<1>5. \A q \in Operators : Ready(op'[q])
  BY <1>2, <1>3 DEF MarketInv, Prepared
<1>6. \A q \in Operators : q \notin cast => op'[q] = Idle
  BY <1>3 DEF MarketInv, Prepared
<1>7. \A q \in Operators : Ready(op[q])'
  <2> SUFFICES ASSUME NEW q \in Operators PROVE Ready(op[q])'
    OBVIOUS
  <2> QED BY <1>5 DEF Ready
<1> QED BY <1>2, <1>6, <1>7 DEF Prepared

\* A request that ends is Idle, one that goes on keeps what it knows.
LEMMA RequestEnds ==
    ASSUME MarketInv, NEW o \in Operators, o \in cast, cast' = cast,
           checkout' = checkout, Done(o)
    PROVE  op' \in [Operators -> Requests] /\ Prepared'
<1>1. Ready(Idle)
  BY DEF Ready, Idle, Sourced, Syncing, Copying, Labelled
<1> QED BY <1>1, RestIsTyped, RequestMoves DEF Done

\* A request that goes on to a stage it has what for is still prepared.
LEMMA RequestGoesOn ==
    ASSUME MarketInv, NEW o \in Operators, o \in cast, cast' = cast,
           checkout' = checkout, NEW stage \in Stages, Goto(o, stage),
           Ready([op[o] EXCEPT !.at = stage])
    PROVE  op' \in [Operators -> Requests] /\ Prepared'
<1> DEFINE r == [op[o] EXCEPT !.at = stage]
<1>1. op[o] \in Requests
  BY DEF MarketInv, ProcessesTyped
<1>2. r \in Requests
  BY <1>1 DEF Requests
<1>3. op' = [op EXCEPT ![o] = r]
  BY DEF Goto
<1> HIDE DEF r
<1>4. Ready(r)
  BY DEF r
<1> QED BY <1>2, <1>3, <1>4, RequestMoves

\* The stages of a request that need nothing.
Unprepared == Stages \ (Sourced \cup Labelled \cup Copying)

\* A request at such a stage is ready.
LEMMA UnpreparedIsReady ==
    ASSUME NEW r \in Requests, r.at \in Unprepared
    PROVE  Ready(r)
BY DEF Unprepared, Ready, Sourced, Syncing, Copying, Labelled

-----------------------------------------------------------------------------
(* Every step of a request leaves the requests typed and prepared. *)

RequestsWell == op' \in [Operators -> Requests] /\ Prepared'

\* A request about a source starts at its lock.
LEMMA SyncsStartReady ==
    ASSUME MarketInv, NEW o \in Operators, o \in cast, NEW s \in Sources,
           \/ BeginSync(o, s) \/ BeginSearch(o, s)
           \/ BeginInstall(o, s) \/ BeginTrust(o, s)
    PROVE  RequestsWell
<1>1. PICK kind \in Kinds, force \in BOOLEAN : StartSync(o, kind, s, force)
  BY DEF BeginSync, BeginSearch, BeginInstall, BeginTrust, Kinds,
     MarketplaceRoutes
<1> DEFINE r == [Idle EXCEPT !.at = "lock", !.kind = kind, !.source = s,
                             !.force = force]
<1>2. op' = [op EXCEPT ![o] = r] /\ cast' = cast /\ checkout' = checkout
  BY <1>1 DEF StartSync, fixed
<1>3. r \in Requests /\ r.at = "lock" /\ r.source = s
  BY RestIsTyped DEF Requests, Stages
<1> HIDE DEF r
<1>4. Ready(r)
  BY <1>3 DEF Ready, Syncing, Copying, Labelled
<1> QED BY <1>2, <1>3, <1>4, RequestMoves DEF RequestsWell

\* An update starts at the lock of the source the row names.
LEMMA UpdatesStartReady ==
    ASSUME MarketInv, NEW o \in Operators, o \in cast, BeginUpdate(o)
    PROVE  RequestsWell
<1>1. install.source \in Sources
  BY DEF BeginUpdate, Installed, MarketInv, DatabaseTyped, InstallRows
<1>2. PICK force \in BOOLEAN :
          op' = [op EXCEPT ![o] =
                     [Idle EXCEPT !.at = "lock", !.kind = "update",
                                  !.source = install.source, !.force = force]]
  BY DEF BeginUpdate
<1> DEFINE r == [Idle EXCEPT !.at = "lock", !.kind = "update",
                             !.source = install.source, !.force = force]
<1>3. op' = [op EXCEPT ![o] = r] /\ cast' = cast /\ checkout' = checkout
  BY <1>2 DEF BeginUpdate, fixed
<1>4. r \in Requests /\ r.at = "lock" /\ r.source = install.source
  BY <1>1, RestIsTyped DEF Requests, Stages, Kinds, MarketplaceRoutes
<1> HIDE DEF r
<1>5. Ready(r)
  BY <1>1, <1>4 DEF Ready, Syncing, Copying, Labelled
<1> QED BY <1>3, <1>4, <1>5, RequestMoves DEF RequestsWell

\* The other requests that start: to delete a source, or to uninstall.
LEMMA DeletesStartReady ==
    ASSUME MarketInv, NEW o \in Operators, o \in cast, NEW s \in Sources,
           DeleteSource(o, s)
    PROVE  RequestsWell
<1> DEFINE r == [Idle EXCEPT !.at = "delete_sync", !.kind = "delete", !.source = s]
<1>1. op' = [op EXCEPT ![o] = r] /\ cast' = cast /\ checkout' = checkout
  BY DEF DeleteSource, fixed
<1>2. r \in Requests /\ r.at = "delete_sync" /\ r.source = s
  BY RestIsTyped DEF Requests, Stages, Kinds, MarketplaceRoutes
<1> HIDE DEF r
<1>3. Ready(r)
  BY <1>2 DEF Ready, Syncing, Copying, Labelled
<1> QED BY <1>1, <1>2, <1>3, RequestMoves DEF RequestsWell

\* An uninstall begins with what it needs.
LEMMA UninstallsStartReady ==
    ASSUME MarketInv, NEW o \in Operators, o \in cast, BeginUninstall(o)
    PROVE  RequestsWell
<1> DEFINE r == [Idle EXCEPT !.at = "remove", !.kind = "uninstall"]
<1>1. op' = [op EXCEPT ![o] = r] /\ cast' = cast /\ checkout' = checkout
  BY DEF BeginUninstall, fixed
<1>2. r \in Requests /\ r.at = "remove"
  BY RestIsTyped DEF Requests, Stages, Kinds, MarketplaceRoutes
<1> HIDE DEF r
<1>3. Ready(r)
  BY <1>2, UnpreparedIsReady
     DEF Unprepared, Stages, Sourced, Syncing, Copying, Labelled
<1> QED BY <1>1, <1>2, <1>3, RequestMoves DEF RequestsWell

\* A fetch only moves the checkout, to a commit there is.
LEMMA FetchesStayReady ==
    ASSUME MarketInv, NEW o \in Operators, o \in cast, Fetch(o) \/ FetchFails(o)
    PROVE  RequestsWell
<1> DEFINE s == op[o].source
<1>1. /\ op \in [Operators -> Requests]
      /\ op[o].at = "fetch" /\ s \in Sources
  BY DEF Fetch, FetchFails, MarketInv, ProcessesTyped, Prepared, Ready, Sourced,
     Syncing
<1>2. <<s, remote[s]>> \in Revisions
  BY <1>1 DEF MarketInv, FilesTyped, Revisions
<1>3. PICK label \in Revisions \cup {None} :
          op' = [op EXCEPT ![o].at = "record", ![o].label = label]
  BY <1>2 DEF Fetch, FetchFails
<1> DEFINE r == [op[o] EXCEPT !.at = "record", !.label = label]
<1>4. r \in Requests /\ r.at = "record" /\ r.source = s /\ r.label = label
  BY <1>1 DEF Requests, Stages
<1>5. op' = [op EXCEPT ![o] = r]
  BY <1>1, <1>3 DEF Requests
<1> HIDE DEF r
<1>6. op' \in [Operators -> Requests] /\ op'[o] = r
      /\ \A q \in Operators \ {o} : op'[q] = op[q]
  BY <1>1, <1>4, <1>5
<1>7. /\ checkout' \in {checkout, [checkout EXCEPT ![s] = remote[s]]}
      /\ cast' = cast
  BY DEF Fetch, FetchFails, fixed
<1>8. checkout \in [Sources -> 0..MaxCommits] /\ remote[s] # 0
  BY <1>1, CommitsPositive DEF MarketInv, FilesTyped
<1>9. \A t \in Sources : checkout[t] # 0 => checkout'[t] # 0
  BY <1>7, <1>8
<1>10. ASSUME NEW q \in Operators \ {o} PROVE Ready(op[q])'
  <2>1. op'[q] = op[q] /\ Ready(op[q])
    BY <1>6, <1>10 DEF MarketInv, Prepared
  <2>2. op[q].at \in {"check", "copy"} => checkout'[op[q].source] # 0
    BY <2>1, <1>9 DEF Ready, Sourced
  <2> QED BY <2>1, <2>2 DEF Ready
<1>11. Ready(op[o])'
  <2>1. /\ op'[o].at = "record" /\ op'[o].source \in Sources
        /\ op'[o].label \in Revisions \cup {None}
    BY <1>1, <1>4, <1>6
  <2> QED BY <2>1 DEF Ready, Sourced, Syncing, Copying, Labelled
<1>12. \A q \in Operators : q \notin cast => op'[q] = Idle
  BY <1>6 DEF MarketInv, Prepared
<1> QED BY <1>6, <1>7, <1>10, <1>11, <1>12 DEF RequestsWell, Prepared

\* The other steps of a sync: its lock and the record.
LEMMA SyncsStayReady ==
    ASSUME MarketInv, NEW o \in Operators, o \in cast,
           LockSource(o) \/ RecordSync(o)
    PROVE  RequestsWell
<1>0. op[o] \in Requests /\ Ready(op[o])
  BY DEF MarketInv, ProcessesTyped, Prepared
<1>1. CASE LockSource(o)
  <2> DEFINE r == [op[o] EXCEPT !.at = "fetch"]
  <2>1. r.at = "fetch" /\ r.source = op[o].source
    BY <1>0 DEF Requests
  <2>2. op[o].source \in Sources
    BY <1>0, <1>1 DEF LockSource, Ready, Sourced
  <2> HIDE DEF r
  <2>3. Ready(r)
    BY <2>1, <2>2 DEF Ready, Syncing, Copying, Labelled
  <2> QED BY <1>1, <2>3, RequestGoesOn
          DEF LockSource, RequestsWell, Stages, fixed, r
<1>2. CASE RecordSync(o)
  <2>0. cast' = cast /\ checkout' = checkout
    BY <1>2 DEF RecordSync, fixed
  <2>1. CASE Done(o)
    BY <2>0, <2>1, RequestEnds DEF RequestsWell
  <2>2. CASE ~Done(o)
    <3>1. PICK next \in {"read_keys", "label"} :
              op' = [op EXCEPT ![o].at = next, ![o].label = None]
      BY <1>2, <2>2 DEF RecordSync, AfterSync
    <3> DEFINE r == [op[o] EXCEPT !.at = next, !.label = None]
    <3>2. /\ r \in Requests
          /\ r.at = next /\ r.source = op[o].source
      BY <1>0 DEF Requests, Stages
    <3>3. op[o].source \in Sources
      BY <1>0, <1>2 DEF RecordSync, Ready, Sourced, Syncing
    <3>4. op' = [op EXCEPT ![o] = r]
      BY <1>0, <3>1 DEF Requests
    <3> HIDE DEF r
    <3>5. Ready(r)
      BY <3>2, <3>3 DEF Ready, Copying, Labelled
    <3> QED BY <2>0, <3>2, <3>4, <3>5, RequestMoves DEF RequestsWell
  <2> QED BY <2>1, <2>2
<1> QED BY <1>1, <1>2

\* The scan: a label that is a commit, a candidate only in a checkout.
LEMMA ScansStayReady ==
    ASSUME MarketInv, NEW o \in Operators, o \in cast, ReadLabel(o) \/ Scan(o)
    PROVE  RequestsWell
<1>0. op[o] \in Requests /\ Ready(op[o])
  BY DEF MarketInv, ProcessesTyped, Prepared
<1> DEFINE s == op[o].source
<1>1. s \in Sources
  BY <1>0 DEF ReadLabel, Scan, Ready, Sourced
<1>2. checkout[s] # 0 => <<s, checkout[s]>> \in Revisions
  BY <1>1, CommitsPositive DEF MarketInv, FilesTyped, Revisions
<1>3. CASE ReadLabel(o)
  <2>1. PICK label \in Revisions \cup {None} :
            op' = [op EXCEPT ![o].at = "scan", ![o].label = label]
    BY <1>2, <1>3, NoneIsNoValue DEF ReadLabel
  <2> DEFINE r == [op[o] EXCEPT !.at = "scan", !.label = label]
  <2>2. r \in Requests /\ r.at = "scan" /\ r.source = s /\ r.label = label
    BY <1>0 DEF Requests, Stages
  <2>3. op' = [op EXCEPT ![o] = r]
    BY <1>0, <2>1 DEF Requests
  <2> HIDE DEF r
  <2>4. Ready(r)
    BY <1>1, <2>2 DEF Ready, Copying
  <2>5. cast' = cast /\ checkout' = checkout
    BY <1>3 DEF ReadLabel, fixed
  <2> QED BY <2>2, <2>3, <2>4, <2>5, RequestMoves DEF RequestsWell
<1>4. CASE Scan(o)
  <2>0. cast' = cast /\ checkout' = checkout
    BY <1>4 DEF Scan, fixed
  <2>1. CASE Done(o)
    BY <2>0, <2>1, RequestEnds DEF RequestsWell
  <2>2. CASE ~Done(o)
    <3> DEFINE candidate == SignatureState(Pristine(<<s, checkout[s]>>))
    <3>1. /\ op' = [op EXCEPT ![o].at = "check", ![o].found = candidate]
          /\ checkout[s] # 0 /\ op[o].at = "scan"
      BY <1>4, <2>2 DEF Scan
    <3>2. candidate \in SignatureStates
      BY DEF SignatureState, SignatureStates
    <3> HIDE DEF candidate
    <3> DEFINE r == [op[o] EXCEPT !.at = "check", !.found = candidate]
    <3>3. /\ r \in Requests
          /\ r.at = "check" /\ r.source = s /\ r.label = op[o].label
      BY <1>0, <3>2 DEF Requests, Stages
    <3>4. op' = [op EXCEPT ![o] = r]
      BY <1>0, <3>1 DEF Requests
    <3> HIDE DEF r
    <3>5. Ready(r)
      BY <1>0, <1>1, <3>1, <3>3 DEF Ready, Copying, Labelled
    <3> QED BY <2>0, <3>3, <3>4, <3>5, RequestMoves DEF RequestsWell
  <2> QED BY <2>1, <2>2
<1> QED BY <1>3, <1>4

\* An installation: what is copied is the commit of a checkout, and has a name.
LEMMA InstallsStayReady ==
    ASSUME MarketInv, NEW o \in Operators, o \in cast,
           \/ CheckCandidate(o) \/ CopyBundle(o) \/ PlaceBundle(o)
           \/ ActivateBundle(o) \/ RecordInstall(o)
    PROVE  RequestsWell
<1>0. op[o] \in Requests /\ Ready(op[o])
  BY DEF MarketInv, ProcessesTyped, Prepared
<1> DEFINE s == op[o].source
<1>1. CASE CheckCandidate(o)
  <2>0. cast' = cast /\ checkout' = checkout
    BY <1>1 DEF CheckCandidate, fixed
  <2>1. CASE Done(o)
    BY <2>0, <2>1, RequestEnds DEF RequestsWell
  <2>2. CASE ~Done(o)
    <3>1. /\ op' = [op EXCEPT ![o].at = "copy", ![o].found = None,
                              ![o].force = FALSE]
          /\ op[o].at = "check"
      BY <1>1, <2>2 DEF CheckCandidate
    <3> DEFINE r == [op[o] EXCEPT !.at = "copy", !.found = None, !.force = FALSE]
    <3>2. /\ r \in Requests
          /\ r.at = "copy" /\ r.source = s /\ r.label = op[o].label
      BY <1>0 DEF Requests, Stages
    <3>3. op' = [op EXCEPT ![o] = r]
      BY <1>0, <3>1 DEF Requests
    <3> HIDE DEF r
    <3>4. Ready(r)
      BY <1>0, <3>1, <3>2 DEF Ready, Sourced, Copying, Labelled
    <3> QED BY <2>0, <3>2, <3>3, <3>4, RequestMoves DEF RequestsWell
  <2> QED BY <2>1, <2>2
<1>2. CASE CopyBundle(o)
  <2>1. s \in Sources /\ checkout[s] # 0 /\ op[o].at = "copy"
    BY <1>0, <1>2 DEF CopyBundle, Ready, Sourced
  <2>0. PICK mixed \in BOOLEAN :
            op' = [op EXCEPT ![o].at = "place",
                             ![o].found = [rev |-> <<s, checkout[s]>>,
                                           edited |-> mixed]]
    BY <1>2 DEF CopyBundle
  <2> DEFINE c == [rev |-> <<s, checkout[s]>>, edited |-> mixed]
  <2>2. c \in Contents
    BY <2>1, CommitsPositive DEF MarketInv, FilesTyped, Contents, Revisions
  <2>3. op' = [op EXCEPT ![o].at = "place", ![o].found = c]
    BY <2>0
  <2> HIDE DEF c
  <2> DEFINE r == [op[o] EXCEPT !.at = "place", !.found = c]
  <2>4. /\ r \in Requests /\ r.found = c
        /\ r.at = "place" /\ r.source = s /\ r.label = op[o].label
    BY <1>0, <2>2 DEF Requests, Stages
  <2>5. op' = [op EXCEPT ![o] = r]
    BY <1>0, <2>3 DEF Requests
  <2> HIDE DEF r
  <2>6. Ready(r)
    BY <1>0, <2>1, <2>2, <2>4 DEF Ready, Labelled
  <2>7. cast' = cast /\ checkout' = checkout
    BY <1>2 DEF CopyBundle, fixed
  <2> QED BY <2>4, <2>5, <2>6, <2>7, RequestMoves DEF RequestsWell
<1>3. CASE PlaceBundle(o)
  <2>1. /\ op[o].at = "place" /\ s \in Sources /\ op[o].found \in Contents
        /\ op[o].label \in Revisions \cup {None}
    BY <1>0, <1>3 DEF PlaceBundle, Ready, Sourced, Copying, Labelled
  <2> DEFINE name == BundleName(op[o].label, op[o].found)
  <2>2. name \in Names
    BY <2>1 DEF BundleName, Names
  <2>3. op' = [op EXCEPT ![o].at = "activate", ![o].label = name]
    BY <1>3 DEF PlaceBundle
  <2> HIDE DEF name
  <2> DEFINE r == [op[o] EXCEPT !.at = "activate", !.label = name]
  <2>4. /\ r \in Requests /\ r.found = op[o].found
        /\ r.at = "activate" /\ r.source = s /\ r.label = name
    BY <1>0, <2>2 DEF Requests, Stages
  <2>5. op' = [op EXCEPT ![o] = r]
    BY <1>0, <2>3 DEF Requests
  <2> HIDE DEF r
  <2>6. Ready(r)
    BY <2>1, <2>2, <2>4 DEF Ready, Labelled
  <2>7. cast' = cast /\ checkout' = checkout
    BY <1>3 DEF PlaceBundle, fixed
  <2> QED BY <2>4, <2>5, <2>6, <2>7, RequestMoves DEF RequestsWell
<1>4. CASE ActivateBundle(o)
  <2> DEFINE r == [op[o] EXCEPT !.at = "put_install"]
  <2>1. /\ r.at = "put_install" /\ r.source = s
        /\ r.found = op[o].found /\ r.label = op[o].label
    BY <1>0 DEF Requests
  <2> HIDE DEF r
  <2>2. Ready(r)
    BY <1>0, <1>4, <2>1 DEF ActivateBundle, Ready, Sourced, Copying, Labelled
  <2> QED BY <1>4, <2>2, RequestGoesOn
          DEF ActivateBundle, RequestsWell, Stages, fixed, r
<1>5. CASE RecordInstall(o)
  <2> DEFINE r == [Idle EXCEPT !.at = "disable", !.label = op[o].label]
  <2>1. op' = [op EXCEPT ![o] = r] /\ cast' = cast /\ checkout' = checkout
    BY <1>5 DEF RecordInstall, files, fixed
  <2>2. r \in Requests /\ r.at = "disable"
    <3>1. op[o].label \in Revisions \cup Names \cup {None} /\ "disable" \in Stages
      BY <1>0 DEF Requests, Stages
    <3> QED BY <3>1, RestIsTyped DEF Requests
  <2> HIDE DEF r
  <2>3. Ready(r)
    BY <2>2, UnpreparedIsReady
       DEF Unprepared, Stages, Sourced, Syncing, Copying, Labelled
  <2> QED BY <2>1, <2>2, <2>3, RequestMoves DEF RequestsWell
<1> QED BY <1>1, <1>2, <1>3, <1>4, <1>5

\* The steps that end a request, and those that only go on to the next write.
LEMMA RequestsEndWell ==
    ASSUME MarketInv, NEW o \in Operators, o \in cast,
           \/ DeleteSync(o) \/ LinkKeys(o) \/ PlaceRefused(o)
           \/ ActivateRefused(o) \/ DisableInstalled(o) \/ DeleteState(o)
           \/ RequestFails(o)
    PROVE  RequestsWell
<1>1. Done(o) /\ cast' = cast /\ checkout' = checkout
  BY DEF DeleteSync, LinkKeys, PlaceRefused, ActivateRefused, DisableInstalled,
     DeleteState, RequestFails, fixed
<1> QED BY <1>1, RequestEnds DEF RequestsWell

\* So does a step that does nothing but go on to such a stage.
LEMMA RequestsGoOnWell ==
    ASSUME MarketInv, NEW o \in Operators, o \in cast,
           \/ ReadKeys(o) \/ TrustSigner(o) \/ NameVendor(o)
           \/ RemoveRoot(o) \/ RemoveStored(o) \/ RemoveCache(o)
           \/ DeleteInstall(o)
    PROVE  RequestsWell
<1>1. cast' = cast /\ checkout' = checkout
  BY DEF ReadKeys, TrustSigner, NameVendor, RemoveRoot, RemoveStored,
     RemoveCache, DeleteInstall, fixed
<1>2. PICK stage \in {"put_signer", "put_vendor", "link_keys", "remove_store",
                      "remove_cache", "delete_install", "delete_state"} :
          Goto(o, stage)
  BY DEF ReadKeys, TrustSigner, NameVendor, RemoveRoot, RemoveStored,
     RemoveCache, DeleteInstall
<1> DEFINE r == [op[o] EXCEPT !.at = stage]
<1>3. r \in Requests /\ r.at = stage
  BY DEF MarketInv, ProcessesTyped, Requests, Stages
<1>4. Ready(r)
  BY <1>2, <1>3, UnpreparedIsReady
     DEF Unprepared, Stages, Sourced, Syncing, Copying, Labelled
<1> QED BY <1>1, <1>2, <1>4, RequestGoesOn DEF RequestsWell, Stages

-----------------------------------------------------------------------------
(* The steps, and what each kind of them leaves alone. *)

\* A request that begins; a request that goes on, but for the steps below.
Begins(o) ==
    \/ \E s \in Sources :
           \/ BeginSync(o, s) \/ BeginSearch(o, s)
           \/ BeginInstall(o, s) \/ BeginTrust(o, s) \/ DeleteSource(o, s)
    \/ BeginUpdate(o) \/ BeginUninstall(o)
Proceeds(o) ==
    \/ DeleteSync(o) \/ ReadKeys(o) \/ TrustSigner(o) \/ NameVendor(o)
    \/ LinkKeys(o) \/ ReadLabel(o) \/ Scan(o) \/ CheckCandidate(o)
    \/ CopyBundle(o) \/ PlaceRefused(o) \/ ActivateRefused(o)
    \/ DisableInstalled(o) \/ DeleteState(o)
Removes(o) ==
    RemoveRoot(o) \/ RemoveStored(o) \/ RemoveCache(o) \/ DeleteInstall(o)
Syncs(o) == LockSource(o) \/ Fetch(o) \/ FetchFails(o) \/ RecordSync(o)
Writes(o) == PlaceBundle(o) \/ ActivateBundle(o) \/ RecordInstall(o)

\* What of the program's steps the proofs below look at.
LEMMA StepsAreKnown ==
    ASSUME [Next]_vars
    PROVE  \/ \E o \in Operators :
                 /\ o \in cast
                 /\ \/ Begins(o) \/ Proceeds(o) \/ Removes(o) \/ Syncs(o)
                    \/ Writes(o) \/ RequestFails(o)
                    \/ \E s \in Sources : UpsertSource(o, s)
           \/ \E s \in Sources : Commit(s)
           \/ \E n \in Names : EditBundle(n)
           \/ Enable
           \/ LoadStep
           \/ UNCHANGED vars
BY DEF Next, SyncStep, TrustStep, InstallStep, UninstallStep, Begins, Proceeds,
   Removes, Syncs, Writes

\* The steps that are no request's.
WorldStep ==
    \/ \E s \in Sources : Commit(s)
    \/ \E n \in Names : EditBundle(n)
    \/ Enable
    \/ LoadStep

\* Requests stay typed and prepared.
LEMMA RequestsStayWell == MarketInv /\ [Next]_vars => RequestsWell
<1> SUFFICES ASSUME MarketInv, [Next]_vars PROVE RequestsWell
  OBVIOUS
<1>0. ASSUME op' = op, cast' = cast, checkout' = checkout PROVE RequestsWell
  <2>1. \A q : Ready(q)' = Ready(q)
    BY <1>0 DEF Ready
  <2>2. \A q \in Operators : Ready(op[q])'
    <3> SUFFICES ASSUME NEW q \in Operators PROVE Ready(op[q])'
      OBVIOUS
    <3>1. Ready(op[q])
      BY DEF MarketInv, Prepared
    <3> QED BY <3>1, <1>0 DEF Ready
  <2> QED BY <1>0, <2>2 DEF RequestsWell, MarketInv, ProcessesTyped, Prepared
<1>1. CASE WorldStep \/ UNCHANGED vars
  <2>1. op' = op /\ cast' = cast /\ checkout' = checkout
    BY <1>1 DEF WorldStep, Commit, EditBundle, Enable, LoadStep, ResolveBundle,
       VerifyBundle, HashBundle, BuildGeneration, Recheck, VerifyAgain, Serve,
       LoadFails, vars, fixed
  <2> QED BY <1>0, <2>1
<1>2. ASSUME NEW o \in Operators, o \in cast, Begins(o) PROVE RequestsWell
  BY <1>2, SyncsStartReady, UpdatesStartReady, DeletesStartReady,
     UninstallsStartReady DEF Begins
<1>3. ASSUME NEW o \in Operators, o \in cast, Proceeds(o) PROVE RequestsWell
  BY <1>3, ScansStayReady, InstallsStayReady, RequestsEndWell, RequestsGoOnWell
     DEF Proceeds
<1>4. ASSUME NEW o \in Operators, o \in cast,
             Removes(o) \/ Syncs(o) \/ Writes(o) \/ RequestFails(o)
      PROVE  RequestsWell
  BY <1>4, RequestsGoOnWell, SyncsStayReady, FetchesStayReady,
     InstallsStayReady, RequestsEndWell DEF Removes, Syncs, Writes
<1>5. ASSUME NEW o \in Operators, NEW s \in Sources, UpsertSource(o, s)
      PROVE  RequestsWell
  BY <1>0, <1>5 DEF UpsertSource, fixed
<1> QED BY <1>1, <1>2, <1>3, <1>4, <1>5, StepsAreKnown DEF WorldStep

\* A step of a request moves that request alone.
LEMMA OthersStay ==
    ASSUME MarketInv, NEW o \in Operators,
           \/ Begins(o) \/ Proceeds(o) \/ Removes(o) \/ Syncs(o) \/ Writes(o)
           \/ RequestFails(o)
    PROVE  \A q \in Operators : q # o => op'[q] = op[q]
<1>0. op \in [Operators -> Requests]
  BY DEF MarketInv, ProcessesTyped
<1>1. \E r : op' = [op EXCEPT ![o] = r]
  <2>1. CASE Begins(o)
    BY <2>1 DEF Begins, BeginSync, BeginSearch, BeginInstall, BeginTrust,
       StartSync, DeleteSource, BeginUpdate, BeginUninstall
  <2>2. CASE Proceeds(o)
    <3>1. CASE Done(o) \/ \E stage \in Stages : Goto(o, stage)
      BY <3>1 DEF Done, Goto
    <3>2. CASE ReadLabel(o)
      BY <1>0, <3>2 DEF ReadLabel, Requests
    <3>3. CASE Scan(o)
      BY <1>0, <3>1, <3>3 DEF Scan, Requests
    <3>4. CASE CheckCandidate(o)
      BY <1>0, <3>1, <3>4 DEF CheckCandidate, Requests
    <3>5. CASE CopyBundle(o)
      <4>1. PICK found : op' = [op EXCEPT ![o].at = "place", ![o].found = found]
        BY <3>5 DEF CopyBundle
      <4> QED BY <1>0, <4>1 DEF Requests
    <3> QED BY <2>2, <3>1, <3>2, <3>3, <3>4, <3>5
        DEF Proceeds, DeleteSync, ReadKeys, TrustSigner, NameVendor, LinkKeys,
            PlaceRefused, ActivateRefused, DisableInstalled, DeleteState, Stages
  <2>3. CASE Removes(o) \/ RequestFails(o)
    BY <2>3 DEF Removes, RemoveRoot, RemoveStored, RemoveCache, DeleteInstall,
       RequestFails, Goto, Done
  <2>4. CASE Syncs(o)
    BY <1>0, <2>4 DEF Syncs, LockSource, Fetch, FetchFails, RecordSync, Goto,
       Done, Requests
  <2>5. CASE Writes(o)
    BY <1>0, <2>5 DEF Writes, PlaceBundle, ActivateBundle, RecordInstall, Goto,
       Requests
  <2> QED BY <2>1, <2>2, <2>3, <2>4, <2>5
<1> QED BY <1>0, <1>1

\* A request that begins or proceeds neither syncs nor has placed a bundle,
\* before or after.
Placed == {"activate", "put_install"}
\* The stages of such a request are of neither kind.
LEMMA QuietStages ==
    ASSUME MarketInv, NEW o \in Operators, Begins(o) \/ Proceeds(o) \/ Removes(o)
    PROVE  /\ op[o].at \notin Syncing
           /\ op'[o].at \notin Syncing \cup Placed
<1>0. op \in [Operators -> Requests]
  BY DEF MarketInv, ProcessesTyped
<1>1. CASE Begins(o)
  <2>1. op[o] = Idle
    BY <1>1 DEF Begins, BeginSync, BeginSearch, BeginInstall, BeginTrust,
       StartSync, DeleteSource, BeginUpdate, BeginUninstall, Requested
  <2>2. op'[o].at \in {"lock", "delete_sync", "remove"}
    <3>1. CASE \E s \in Sources :
                   \/ BeginSync(o, s) \/ BeginSearch(o, s)
                   \/ BeginInstall(o, s) \/ BeginTrust(o, s)
      <4>1. PICK s \in Sources, kind \in Kinds, force \in BOOLEAN :
                StartSync(o, kind, s, force)
        BY <3>1 DEF BeginSync, BeginSearch, BeginInstall, BeginTrust, Kinds,
           MarketplaceRoutes
      <4>2. op'[o].at = "lock"
        BY <1>0, <4>1, RestIsTyped DEF StartSync, Requests
      <4> QED BY <4>2
    <3>2. CASE BeginUpdate(o)
      BY <1>0, <3>2, RestIsTyped DEF BeginUpdate, Requests
    <3>3. CASE BeginUninstall(o)
      BY <1>0, <3>3, RestIsTyped DEF BeginUninstall, Requests
    <3>4. CASE \E s \in Sources : DeleteSource(o, s)
      BY <1>0, <3>4, RestIsTyped DEF DeleteSource, Requests
    <3> QED BY <1>1, <3>1, <3>2, <3>3, <3>4 DEF Begins
  <2> QED BY <2>1, <2>2 DEF Idle, Syncing, Placed
<1>2. CASE Proceeds(o)
  <2>1. op[o].at \notin Syncing
    BY <1>2 DEF Proceeds, DeleteSync, ReadKeys, TrustSigner, NameVendor,
       LinkKeys, ReadLabel, Scan, CheckCandidate, CopyBundle, PlaceRefused,
       ActivateRefused, DisableInstalled, DeleteState, Syncing
  <2>2. CASE Done(o)
    BY <1>0, <2>1, <2>2 DEF Done, Idle, Syncing, Placed
  <2>3. CASE ReadKeys(o) \/ TrustSigner(o) \/ NameVendor(o)
    BY <1>0, <2>1, <2>3 DEF ReadKeys, TrustSigner, NameVendor, Goto, Requests,
       Syncing, Placed
  <2>4. CASE ReadLabel(o)
    BY <1>0, <2>1, <2>4 DEF ReadLabel, Requests, Syncing, Placed
  <2>5. CASE Scan(o)
    BY <1>0, <2>1, <2>2, <2>5 DEF Scan, Requests, Syncing, Placed
  <2>6. CASE CheckCandidate(o)
    BY <1>0, <2>1, <2>2, <2>6 DEF CheckCandidate, Requests, Syncing, Placed
  <2>7. CASE CopyBundle(o)
    <3>1. PICK found : op' = [op EXCEPT ![o].at = "place", ![o].found = found]
      BY <2>7 DEF CopyBundle
    <3> QED BY <1>0, <2>1, <3>1 DEF Requests, Syncing, Placed
  <2> QED BY <1>2, <2>2, <2>3, <2>4, <2>5, <2>6, <2>7
      DEF Proceeds, DeleteSync, LinkKeys, PlaceRefused, ActivateRefused,
          DisableInstalled, DeleteState
<1>3. CASE Removes(o)
  BY <1>0, <1>3 DEF Removes, RemoveRoot, RemoveStored, RemoveCache,
     DeleteInstall, Goto, Requests, Syncing, Placed
<1> QED BY <1>1, <1>2, <1>3

\* What the steps on the lock do to the request.
LEMMA SyncStages ==
    ASSUME MarketInv, NEW o \in Operators, Syncs(o)
    PROVE  /\ LockSource(o) =>
                  /\ op'[o].source = op[o].source
                  /\ op[o].at = "lock" /\ op'[o].at = "fetch"
           /\ Fetch(o) \/ FetchFails(o) =>
                  /\ op'[o].source = op[o].source
                  /\ op[o].at = "fetch" /\ op'[o].at = "record"
           /\ Fetch(o) => op'[o].label = <<op[o].source, remote[op[o].source]>>
           /\ FetchFails(o) => op'[o].label = None
           /\ RecordSync(o) =>
                  /\ op[o].at = "record"
                  /\ op'[o].at \notin Syncing \cup Placed
           /\ op'[o].at \notin Placed
<1>0. op \in [Operators -> Requests]
  BY DEF MarketInv, ProcessesTyped
<1>1. LockSource(o) =>
          /\ op'[o].source = op[o].source
          /\ op[o].at = "lock" /\ op'[o].at = "fetch"
  BY <1>0 DEF LockSource, Goto, Requests
<1>2. Fetch(o) =>
          /\ op'[o].source = op[o].source
          /\ op[o].at = "fetch" /\ op'[o].at = "record"
          /\ op'[o].label = <<op[o].source, remote[op[o].source]>>
  BY <1>0 DEF Fetch, Requests
<1>3. FetchFails(o) =>
          /\ op'[o].source = op[o].source
          /\ op[o].at = "fetch" /\ op'[o].at = "record"
          /\ op'[o].label = None
  BY <1>0 DEF FetchFails, Requests
<1>4. RecordSync(o) => op'[o].at \in {"idle", "read_keys", "label"}
  <2> SUFFICES ASSUME RecordSync(o)
               PROVE  op'[o].at \in {"idle", "read_keys", "label"}
    OBVIOUS
  <2>1. CASE Done(o)
    BY <1>0, <2>1 DEF Done, Idle
  <2>2. CASE ~Done(o)
    <3>1. PICK next \in {"read_keys", "label"} :
              op' = [op EXCEPT ![o].at = next, ![o].label = None]
      BY <2>2 DEF RecordSync, AfterSync
    <3> QED BY <1>0, <3>1 DEF Requests
  <2> QED BY <2>1, <2>2
<1> QED BY <1>1, <1>2, <1>3, <1>4 DEF Syncs, RecordSync, Syncing, Placed

-----------------------------------------------------------------------------
(* The locks. *)

\* A lock is taken from nobody and given back by its holder.
LEMMA LocksStayHeld == MarketInv /\ [Next]_vars => LocksHeld'
<1> SUFFICES ASSUME MarketInv, [Next]_vars PROVE LocksHeld'
  OBVIOUS
<1>0. /\ lock \in [Managers -> [Sources -> Operators \cup {None}]]
      /\ op \in [Operators -> Requests] /\ LocksHeld
      /\ \A o \in Operators : Manager(o) \in Managers
      /\ \A o \in Operators : op[o].at \in Sourced => op[o].source \in Sources
  BY CommandLineOperates
     DEF MarketInv, ProcessesTyped, Manager, Managers, Prepared, Ready
<1>1. ASSUME UNCHANGED <<lock, op>> PROVE LocksHeld'
  BY <1>0, <1>1 DEF LocksHeld, Manager
<1>2. ASSUME NEW o \in Operators, lock' = lock, op[o].at \notin Syncing,
             op'[o].at \notin Syncing,
             \A q \in Operators : q # o => op'[q] = op[q]
      PROVE  LocksHeld'
  <2> SUFFICES ASSUME NEW s \in Sources, NEW q \in Operators
               PROVE  lock'[Manager(q)][s] = q <=>
                          op'[q].source = s /\ op'[q].at \in Syncing
    BY DEF LocksHeld, Manager
  <2> QED BY <1>0, <1>2 DEF LocksHeld
<1>3. ASSUME NEW o \in Operators, Begins(o) \/ Proceeds(o) \/ Removes(o)
      PROVE  LocksHeld'
  <2>1. lock' = lock
    BY <1>3 DEF Begins, BeginSync, BeginSearch, BeginInstall, BeginTrust,
       StartSync, DeleteSource, BeginUpdate, BeginUninstall, Proceeds,
       DeleteSync, ReadKeys, TrustSigner, NameVendor, LinkKeys, ReadLabel, Scan,
       CheckCandidate, CopyBundle, PlaceRefused, ActivateRefused,
       DisableInstalled, DeleteState, Removes, RemoveRoot, RemoveStored,
       RemoveCache, DeleteInstall
  <2> QED BY <1>2, <1>3, <2>1, QuietStages, OthersStay
<1>4. ASSUME NEW o \in Operators, LockSource(o) PROVE LocksHeld'
  <2> DEFINE s == op[o].source
  <2>1. /\ s \in Sources /\ op[o].at = "lock"
        /\ op'[o].source = s /\ op'[o].at = "fetch"
        /\ \A q \in Operators : q # o => op'[q] = op[q]
    BY <1>0, <1>4, SyncStages, OthersStay DEF Syncs, Sourced
  <2>2. /\ lock[Manager(o)][s] = None
        /\ lock' = [lock EXCEPT ![Manager(o)][s] = o]
    BY <1>4 DEF LockSource
  <2> HIDE DEF s
  <2> SUFFICES ASSUME NEW t \in Sources, NEW q \in Operators
               PROVE  lock'[Manager(q)][t] = q <=>
                          op'[q].source = t /\ op'[q].at \in Syncing
    BY DEF LocksHeld, Manager
  <2>3. lock'[Manager(q)][t] =
            IF Manager(q) = Manager(o) /\ t = s THEN o ELSE lock[Manager(q)][t]
    BY <1>0, <2>1, <2>2
  <2>4. CASE q = o
    BY <1>0, <2>1, <2>3, <2>4 DEF LocksHeld, Syncing, s
  <2>5. CASE q # o
    BY <1>0, <2>1, <2>2, <2>3, <2>5, NoneIsNoValue DEF LocksHeld
  <2> QED BY <2>4, <2>5
<1>5. ASSUME NEW o \in Operators, Fetch(o) \/ FetchFails(o) PROVE LocksHeld'
  <2>1. /\ op'[o].source = op[o].source /\ op[o].at = "fetch"
        /\ op'[o].at = "record" /\ lock' = lock
        /\ \A q \in Operators : q # o => op'[q] = op[q]
    BY <1>5, SyncStages, OthersStay DEF Syncs, Fetch, FetchFails
  <2> SUFFICES ASSUME NEW t \in Sources, NEW q \in Operators
               PROVE  lock'[Manager(q)][t] = q <=>
                          op'[q].source = t /\ op'[q].at \in Syncing
    BY DEF LocksHeld, Manager
  <2> QED BY <1>0, <2>1 DEF LocksHeld, Syncing
<1>6. ASSUME NEW o \in Operators, op[o].at = "record", op'[o].at \notin Syncing,
             lock' = [lock EXCEPT ![Manager(o)][op[o].source] = None],
             \A q \in Operators : q # o => op'[q] = op[q]
      PROVE  LocksHeld'
  <2> DEFINE s == op[o].source
  <2>1. s \in Sources
    BY <1>0, <1>6 DEF Sourced, Syncing
  <2>2. lock[Manager(o)][s] = o
    BY <1>0, <1>6, <2>1 DEF LocksHeld, Syncing
  <2>3. lock' = [lock EXCEPT ![Manager(o)][s] = None]
    BY <1>6
  <2> HIDE DEF s
  <2> SUFFICES ASSUME NEW t \in Sources, NEW q \in Operators
               PROVE  lock'[Manager(q)][t] = q <=>
                          op'[q].source = t /\ op'[q].at \in Syncing
    BY DEF LocksHeld, Manager
  <2>4. lock'[Manager(q)][t] =
            IF Manager(q) = Manager(o) /\ t = s THEN None
            ELSE lock[Manager(q)][t]
    BY <1>0, <2>1, <2>3
  <2>5. CASE q = o
    BY <1>0, <1>6, <2>4, <2>5, NoneIsNoValue DEF LocksHeld, s
  <2>6. CASE q # o
    BY <1>0, <1>6, <2>1, <2>2, <2>4, <2>6, NoneIsNoValue DEF LocksHeld
  <2> QED BY <2>5, <2>6
<1>7. ASSUME NEW o \in Operators, RecordSync(o) PROVE LocksHeld'
  <2>1. lock' = [lock EXCEPT ![Manager(o)][op[o].source] = None]
    BY <1>7 DEF RecordSync
  <2> QED BY <1>6, <1>7, <2>1, SyncStages, OthersStay DEF Syncs
<1>8. ASSUME NEW o \in Operators, RequestFails(o) PROVE LocksHeld'
  <2>1. op'[o].at = "idle" /\ \A q \in Operators : q # o => op'[q] = op[q]
    BY <1>0, <1>8, OthersStay DEF RequestFails, Done, Idle
  <2>2. CASE op[o].at = "record"
    <3>1. lock' = [lock EXCEPT ![Manager(o)][op[o].source] = None]
      BY <1>8, <2>2 DEF RequestFails
    <3> QED BY <1>6, <2>1, <2>2, <3>1 DEF Syncing
  <2>3. CASE op[o].at # "record"
    <3>1. lock' = lock /\ op[o].at \notin Syncing
      BY <1>8, <2>3 DEF RequestFails, Syncing
    <3> QED BY <1>2, <2>1, <3>1 DEF Syncing
  <2> QED BY <2>2, <2>3
<1>9. ASSUME NEW o \in Operators, Writes(o) PROVE LocksHeld'
  <2>1. /\ op[o].at \in {"place", "activate", "put_install"}
        /\ op'[o].at \in {"activate", "put_install", "disable"}
        /\ lock' = lock
    BY <1>0, <1>9 DEF Writes, PlaceBundle, ActivateBundle, RecordInstall, Goto,
       Requests, Idle
  <2> QED BY <1>2, <1>9, <2>1, OthersStay DEF Syncing
<1>10. ASSUME NEW o \in Operators, NEW s \in Sources, UpsertSource(o, s)
       PROVE  LocksHeld'
  BY <1>1, <1>10 DEF UpsertSource
<1>11. CASE WorldStep \/ UNCHANGED vars
  <2>1. UNCHANGED <<lock, op>>
    BY <1>11 DEF WorldStep, Commit, EditBundle, Enable, LoadStep,
       ResolveBundle, VerifyBundle, HashBundle, BuildGeneration, Recheck,
       VerifyAgain, Serve, LoadFails, vars
  <2> QED BY <1>1, <2>1
<1> QED BY <1>3, <1>4, <1>5, <1>7, <1>8, <1>9, <1>10, <1>11, StepsAreKnown
        DEF Syncs, WorldStep

\* What is noted of a load leaves the load typed, and all it knows as it was.
LEMMA SwapsAreTyped ==
    ASSUME ProcessesTyped, NoteSwap
    PROVE  /\ loader' \in Loads
           /\ \A field \in {"at", "dir", "first", "hash", "code"} :
                  loader'[field] = loader[field]
           /\ loader'.swapped <=> loader.swapped \/ Swapped
<1>1. loader \in Loads
  BY DEF ProcessesTyped
<1>2. loader' = [loader EXCEPT !.swapped = loader.swapped \/ Swapped]
  BY <1>1 DEF NoteSwap, Loads
<1>3. (loader.swapped \/ Swapped) \in BOOLEAN
  OBVIOUS
<1> HIDE DEF Swapped
<1> QED BY <1>1, <1>2, <1>3 DEF Loads

\* The processes keep their types.
LEMMA ProcessesStayTyped == MarketInv /\ [Next]_vars => ProcessesTyped'
<1> SUFFICES ASSUME MarketInv, [Next]_vars PROVE ProcessesTyped'
  OBVIOUS
<1>0. ProcessesTyped /\ op' \in [Operators -> Requests]
  BY RequestsStayWell DEF RequestsWell, MarketInv
<1>1. \A o \in Operators : Manager(o) \in Managers
  BY CommandLineOperates DEF Manager, Managers
<1>2. ASSUME NEW o \in Operators, Begins(o) \/ Proceeds(o)
      PROVE  ProcessesTyped'
  <2>1. UNCHANGED <<lock, loader, served, torn, evaded>> /\ disableFailed' \in BOOLEAN
    BY <1>0, <1>2 DEF Begins, BeginSync, BeginSearch, BeginInstall, BeginTrust,
       StartSync, DeleteSource, BeginUpdate, BeginUninstall, Proceeds,
       DeleteSync, ReadKeys, TrustSigner, NameVendor, LinkKeys, ReadLabel, Scan,
       CheckCandidate, CopyBundle, PlaceRefused, ActivateRefused,
       DisableInstalled, DeleteState, ProcessesTyped, history
  <2> QED BY <1>0, <2>1 DEF ProcessesTyped
<1>3. ASSUME NEW o \in Operators, Removes(o) PROVE ProcessesTyped'
  <2>1. /\ UNCHANGED <<lock, loader, served, disableFailed, evaded>>
        /\ torn' \in BOOLEAN
    <3>1. Overlapped \in BOOLEAN
      BY DEF Overlapped
    <3> QED BY <1>0, <1>3, <3>1 DEF Removes, RemoveRoot, RemoveStored,
       RemoveCache, DeleteInstall, history, ProcessesTyped
  <2> QED BY <1>0, <2>1 DEF ProcessesTyped
<1>4. ASSUME NEW o \in Operators, LockSource(o) \/ RecordSync(o)
      PROVE  ProcessesTyped'
  <2>1. op[o].source \in Sources
    BY <1>4 DEF LockSource, RecordSync, MarketInv, Prepared, Ready, Sourced,
       Syncing
  <2>2. PICK holder \in Operators \cup {None} :
            lock' = [lock EXCEPT ![Manager(o)][op[o].source] = holder]
    BY <1>4 DEF LockSource, RecordSync
  <2>3. lock \in [Managers -> [Sources -> Operators \cup {None}]]
    BY <1>0 DEF ProcessesTyped
  <2>4. lock' \in [Managers -> [Sources -> Operators \cup {None}]]
    BY <1>1, <2>1, <2>2, <2>3
  <2>5. UNCHANGED <<loader, served, history>>
    BY <1>4 DEF LockSource, RecordSync
  <2> QED BY <1>0, <2>4, <2>5 DEF ProcessesTyped, history
<1>5. ASSUME NEW o \in Operators,
             Fetch(o) \/ FetchFails(o) \/ Writes(o)
      PROVE  ProcessesTyped'
  <2>1. UNCHANGED <<lock, served, history>> /\ (loader' = loader \/ NoteSwap)
    BY <1>5 DEF Fetch, FetchFails, Writes, PlaceBundle, ActivateBundle,
       RecordInstall
  <2> QED BY <1>0, <2>1, SwapsAreTyped DEF ProcessesTyped, history
<1>6. ASSUME NEW o \in Operators, RequestFails(o) PROVE ProcessesTyped'
  <2>1. op[o].at = "record" => op[o].source \in Sources
    BY DEF MarketInv, Prepared, Ready, Sourced, Syncing
  <2>2. lock' \in [Managers -> [Sources -> Operators \cup {None}]]
    BY <1>0, <1>1, <1>6, <2>1 DEF RequestFails, ProcessesTyped
  <2>3. /\ UNCHANGED <<loader, served, evaded>>
        /\ disableFailed' \in BOOLEAN /\ torn' \in BOOLEAN
    BY <1>0, <1>6 DEF RequestFails, ProcessesTyped
  <2> QED BY <1>0, <2>2, <2>3 DEF ProcessesTyped
<1>7. CASE \/ \E o \in Operators, s \in Sources : UpsertSource(o, s)
           \/ \E s \in Sources : Commit(s)
           \/ \E n \in Names : EditBundle(n)
           \/ Enable \/ UNCHANGED vars
  <2>1. /\ UNCHANGED <<lock, served, torn, evaded>>
        /\ loader' = loader \/ NoteSwap
        /\ disableFailed' \in BOOLEAN
    BY <1>0, <1>7 DEF UpsertSource, Commit, EditBundle, Enable, ProcessesTyped,
       vars, history
  <2> QED BY <1>0, <2>1, SwapsAreTyped DEF ProcessesTyped
<1>8. CASE LoadStep
  <2>0. loader \in Loads /\ \A n \in Names : LoadDir(n) \in Contents \cup {None}
    BY <1>0 DEF ProcessesTyped, MarketInv, FilesTyped, LoadDir
  <2>1. UNCHANGED <<lock, disableFailed, torn>>
    BY <1>8 DEF LoadStep, ResolveBundle, VerifyBundle, HashBundle,
       BuildGeneration, Recheck, VerifyAgain, Serve, LoadFails, history
  <2>2. loader.at # "idle" => loader.dir \in Names
    BY DEF MarketInv, LoadKnowsFirst
  <2>3. loader' \in Loads
    <3>1. CASE ResolveBundle
      <4>1. ChosenBundle \in Names
        BY <3>1 DEF ResolveBundle, ChosenBundle, Installed, MarketInv,
           DatabaseTyped, FilesTyped, InstallRows
      <4> QED BY <3>1, <4>1, RestIsTyped DEF ResolveBundle, Loads
    <3>2. CASE VerifyBundle
      BY <2>0, <2>2, <3>2 DEF VerifyBundle, Loads
    <3>3. CASE HashBundle
      BY <2>0, <2>2, <3>3 DEF HashBundle, Loads
    <3>4. CASE BuildGeneration
      BY <2>0, <2>2, <3>4 DEF BuildGeneration, Loads
    <3>5. CASE Recheck
      BY <2>0, <3>5 DEF Recheck, Loads
    <3>6. CASE VerifyAgain \/ LoadFails
      BY <3>6, RestIsTyped DEF VerifyAgain, Serve, LoadFails
    <3> QED BY <1>8, <3>1, <3>2, <3>3, <3>4, <3>5, <3>6 DEF LoadStep
  <2>4. served' \in Contents \cup {None} /\ evaded' \in BOOLEAN
    <3>1. CASE VerifyAgain
      BY <2>0, <3>1 DEF VerifyAgain, Serve, Loads
    <3>2. CASE ~VerifyAgain
      BY <1>0, <1>8, <3>2 DEF LoadStep, ResolveBundle, VerifyBundle, HashBundle,
         BuildGeneration, Recheck, LoadFails, ProcessesTyped, history
    <3> QED BY <3>1, <3>2
  <2> QED BY <1>0, <2>1, <2>3, <2>4 DEF ProcessesTyped
<1> QED BY <1>2, <1>3, <1>4, <1>5, <1>6, <1>7, <1>8, StepsAreKnown DEF Syncs

-----------------------------------------------------------------------------
(* Rows and bundles. *)

\* What a step does to a bundle that is there: nothing, or an edit - but for
\* the removal of the root and of what is stored.
Stays(n) == bundles[n] # None =>
                bundles'[n] # None /\ bundles'[n].rev = bundles[n].rev

\* A step that removes no bundle leaves the revision of every bundle alone.
LEMMA BundlesStay ==
    ASSUME MarketInv, [Next]_vars,
           \A o \in Operators : ~RemoveRoot(o) /\ ~RemoveStored(o)
    PROVE  \A n \in Names : Stays(n)
<1> SUFFICES ASSUME NEW n \in Names PROVE Stays(n)
  OBVIOUS
<1>0. bundles \in [Names -> Contents \cup {None}]
  BY DEF MarketInv, FilesTyped
<1>1. CASE bundles' = bundles
  BY <1>1 DEF Stays
<1>2. ASSUME NEW m \in Names, EditBundle(m) PROVE Stays(n)
  <2> DEFINE edit == [bundles[m] EXCEPT !.edited = ~@]
  <2>1. bundles[m] \in Contents
    BY <1>0, <1>2 DEF EditBundle
  <2>2. edit \in Contents /\ edit.rev = bundles[m].rev
    BY <2>1 DEF Contents
  <2>3. bundles' = [bundles EXCEPT ![m] = edit]
    BY <1>2, <2>1 DEF EditBundle, Contents
  <2> HIDE DEF edit
  <2> QED BY <1>0, <2>2, <2>3, NoneIsNoValue DEF Stays
<1>3. ASSUME NEW o \in Operators, PlaceBundle(o) PROVE Stays(n)
  <2>1. op[o].found \in Contents
    BY <1>3 DEF PlaceBundle, MarketInv, Prepared, Ready, Copying
  <2> QED BY <1>0, <1>3, <2>1, NoneIsNoValue DEF PlaceBundle, Stays
<1>4. ASSUME NEW o \in Operators,
             Begins(o) \/ Proceeds(o) \/ Syncs(o) \/ RequestFails(o)
      PROVE  Stays(n)
  BY <1>1, <1>4 DEF Begins, BeginSync, BeginSearch, BeginInstall, BeginTrust,
     StartSync, DeleteSource, BeginUpdate, BeginUninstall, Proceeds,
     DeleteSync, ReadKeys, TrustSigner, NameVendor, LinkKeys, ReadLabel, Scan,
     CheckCandidate, CopyBundle, PlaceRefused, ActivateRefused,
     DisableInstalled, DeleteState, Syncs, LockSource, Fetch, FetchFails,
     RecordSync, RequestFails, files
<1>5. ASSUME NEW o \in Operators,
             \/ RemoveCache(o) \/ DeleteInstall(o)
             \/ ActivateBundle(o) \/ RecordInstall(o)
             \/ \E s \in Sources : UpsertSource(o, s)
      PROVE  Stays(n)
  BY <1>1, <1>5 DEF RemoveCache, DeleteInstall, ActivateBundle, RecordInstall,
     UpsertSource, files
<1>6. CASE (\E s \in Sources : Commit(s)) \/ Enable \/ LoadStep \/ UNCHANGED vars
  BY <1>1, <1>6 DEF Commit, Enable, LoadStep, ResolveBundle, VerifyBundle,
     HashBundle, BuildGeneration, Recheck, VerifyAgain, Serve, LoadFails, vars,
     files
<1> QED BY <1>2, <1>3, <1>4, <1>5, <1>6, StepsAreKnown DEF Removes, Writes

\* Only the steps of an uninstall are at its stages.
LEMMA NotUninstalling ==
    ASSUME MarketInv, NEW o \in Operators,
           Begins(o) \/ Proceeds(o) \/ Syncs(o) \/ Writes(o)
    PROVE  op[o].at \notin Uninstalling
<1>1. CASE Begins(o)
  <2>1. op[o] = Idle
    BY <1>1 DEF Begins, BeginSync, BeginSearch, BeginInstall, BeginTrust,
       StartSync, DeleteSource, BeginUpdate, BeginUninstall, Requested
  <2> QED BY <2>1 DEF Idle, Uninstalling
<1>2. CASE Proceeds(o)
  BY <1>2 DEF Proceeds, DeleteSync, ReadKeys, TrustSigner, NameVendor,
     LinkKeys, ReadLabel, Scan, CheckCandidate, CopyBundle, PlaceRefused,
     ActivateRefused, DisableInstalled, DeleteState, Uninstalling
<1>3. CASE Syncs(o) \/ Writes(o)
  BY <1>3 DEF Syncs, LockSource, Fetch, FetchFails, RecordSync, Writes,
     PlaceBundle, ActivateBundle, RecordInstall, Uninstalling
<1> QED BY <1>1, <1>2, <1>3

\* Only removals and failures tear.
LEMMA HistoryStays ==
    ASSUME MarketInv, [Next]_vars,
           \A o \in Operators : ~Removes(o) /\ ~RequestFails(o)
    PROVE  torn' = torn
<1>1. ASSUME NEW o \in Operators, Begins(o) \/ Proceeds(o)
      PROVE  torn' = torn
  BY <1>1 DEF Begins, BeginSync, BeginSearch, BeginInstall, BeginTrust,
     StartSync, DeleteSource, BeginUpdate, BeginUninstall, Proceeds,
     DeleteSync, ReadKeys, TrustSigner, NameVendor, LinkKeys, ReadLabel, Scan,
     CheckCandidate, CopyBundle, PlaceRefused, ActivateRefused,
     DisableInstalled, DeleteState, history
<1>2. ASSUME NEW o \in Operators, Syncs(o) \/ Writes(o) PROVE torn' = torn
  BY <1>2 DEF Syncs, LockSource, Fetch, FetchFails, RecordSync, Writes,
     PlaceBundle, ActivateBundle, RecordInstall, history
<1>3. CASE \/ \E o \in Operators, s \in Sources : UpsertSource(o, s)
           \/ WorldStep \/ UNCHANGED vars
  BY <1>3 DEF WorldStep, UpsertSource, Commit, EditBundle, Enable, LoadStep,
     ResolveBundle, VerifyBundle, HashBundle, BuildGeneration, Recheck,
     VerifyAgain, Serve, LoadFails, vars, history
<1> QED BY <1>1, <1>2, <1>3, StepsAreKnown DEF WorldStep

\* What was torn stays so.
LEMMA TornStays == MarketInv /\ [Next]_vars => (torn => torn')
<1> SUFFICES ASSUME MarketInv, [Next]_vars, torn PROVE torn'
  OBVIOUS
<1>1. ASSUME NEW o \in Operators, Removes(o) \/ RequestFails(o) PROVE torn'
  BY <1>1 DEF Removes, RemoveRoot, RemoveStored, RemoveCache, DeleteInstall,
     RequestFails, history
<1> QED BY <1>1, HistoryStays

\* A placed bundle is only removed under the request by an uninstall that
\* overlaps it, and that one leaves its mark.
LEMMA PlacedStaysThere == MarketInv /\ [Next]_vars => PlacedIsThere'
<1> SUFFICES ASSUME MarketInv, [Next]_vars, NEW q \in Operators,
                    op'[q].at \in Placed, ~torn'
             PROVE  /\ bundles'[op'[q].label] # None
                    /\ bundles'[op'[q].label].rev = op'[q].found.rev
  BY DEF PlacedIsThere, Placed
<1>0. /\ ~torn
      /\ op \in [Operators -> Requests]
      /\ bundles \in [Names -> Contents \cup {None}]
      /\ op[q].at \in Placed =>
             /\ op[q].label \in Names
             /\ bundles[op[q].label] # None
             /\ bundles[op[q].label].rev = op[q].found.rev
  BY TornStays DEF MarketInv, ProcessesTyped, FilesTyped, PlacedIsThere, Placed,
     Prepared, Ready
<1>1. ASSUME NEW o \in Operators, RemoveRoot(o) \/ RemoveStored(o) PROVE FALSE
  <2>1. q # o
    BY <1>1, QuietStages DEF Removes
  <2>2. op[q].at \in Placed
    BY <1>1, <2>1, OthersStay DEF Removes
  <2>3. Overlapped
    BY <2>2 DEF Overlapped, Placed
  <2> QED BY <1>1, <2>3 DEF RemoveRoot, RemoveStored
<1>2. \A n \in Names : Stays(n)
  BY <1>1, BundlesStay
<1>3. ASSUME op'[q] = op[q]
      PROVE  /\ bundles'[op'[q].label] # None
             /\ bundles'[op'[q].label].rev = op'[q].found.rev
  BY <1>0, <1>2, <1>3 DEF Stays
<1>4. CASE PlaceBundle(q)
  <2> DEFINE name == BundleName(op[q].label, op[q].found)
  <2>1. op[q].found \in Contents /\ op[q].label \in Revisions \cup {None}
    BY <1>4 DEF PlaceBundle, MarketInv, Prepared, Ready, Copying, Labelled
  <2>2. name \in Names
    BY <2>1 DEF BundleName, Names
  <2>3. /\ op' = [op EXCEPT ![q].at = "activate", ![q].label = name]
        /\ bundles' = [bundles EXCEPT ![name] = op[q].found]
    BY <1>4 DEF PlaceBundle
  <2> HIDE DEF name
  <2>4. op'[q].label = name /\ op'[q].found = op[q].found
    BY <1>0, <2>3 DEF Requests
  <2>5. bundles'[name] = op[q].found
    BY <1>0, <2>2, <2>3
  <2> QED BY <2>1, <2>4, <2>5, NoneIsNoValue
<1>5. CASE ActivateBundle(q)
  <2>1. /\ op[q].at = "activate" /\ bundles' = bundles
        /\ op'[q].label = op[q].label /\ op'[q].found = op[q].found
    BY <1>0, <1>5 DEF ActivateBundle, Goto, Requests
  <2> QED BY <1>0, <2>1 DEF Placed
<1>6. CASE RecordInstall(q)
  BY <1>0, <1>6 DEF RecordInstall, Idle, Placed
<1>7. CASE RequestFails(q)
  BY <1>0, <1>7 DEF RequestFails, Done, Idle, Placed
<1>8. CASE Begins(q) \/ Proceeds(q) \/ Removes(q) \/ Syncs(q)
  BY <1>8, QuietStages, SyncStages
<1>9. CASE \/ WorldStep \/ UNCHANGED vars
           \/ \E o \in Operators, s \in Sources : UpsertSource(o, s)
  <2>1. op' = op
    BY <1>9 DEF WorldStep, Commit, EditBundle, Enable, LoadStep, ResolveBundle,
       VerifyBundle, HashBundle, BuildGeneration, Recheck, VerifyAgain, Serve,
       LoadFails, UpsertSource, vars
  <2> QED BY <1>3, <2>1
<1>10. ASSUME NEW o \in Operators, o # q,
              \/ Begins(o) \/ Proceeds(o) \/ Removes(o) \/ Syncs(o)
              \/ Writes(o) \/ RequestFails(o)
       PROVE  /\ bundles'[op'[q].label] # None
              /\ bundles'[op'[q].label].rev = op'[q].found.rev
  BY <1>3, <1>10, OthersStay
<1> QED BY <1>4, <1>5, <1>6, <1>7, <1>8, <1>9, <1>10, StepsAreKnown
        DEF Writes, WorldStep

\* A row without its bundle is one an uninstall is about to delete, or has
\* left behind.
LEMMA RowsKeepBundles == MarketInv /\ [Next]_vars => RowHasBundle'
<1> SUFFICES ASSUME MarketInv, [Next]_vars PROVE RowHasBundle'
  OBVIOUS
<1>0. /\ op \in [Operators -> Requests] /\ RowHasBundle
      /\ install # None => install.bundle \in Names
      /\ torn => torn'
  BY TornStays DEF MarketInv, ProcessesTyped, DatabaseTyped, InstallRows
<1>1. ASSUME NEW o \in Operators,
             RemoveRoot(o) \/ RemoveStored(o) \/ RemoveCache(o)
      PROVE  RowHasBundle'
  <2>1. op'[o].at \in Uninstalling
    BY <1>0, <1>1 DEF RemoveRoot, RemoveStored, RemoveCache, Goto, Requests,
       Uninstalling
  <2> QED BY <2>1 DEF RowHasBundle
<1>2. ASSUME NEW o \in Operators, DeleteInstall(o) PROVE RowHasBundle'
  BY <1>2 DEF DeleteInstall, DeletePluginInstall, RowHasBundle
<1>3. ASSUME NEW o \in Operators, RecordInstall(o) PROVE RowHasBundle'
  <2>1. /\ install'.bundle = op[o].label /\ install'.hash = op[o].found
        /\ bundles' = bundles /\ torn' = torn
    BY <1>3 DEF RecordInstall, PutPluginInstall, files, history
  <2>2. \/ torn
        \/ bundles[op[o].label] # None /\ bundles[op[o].label].rev = op[o].found.rev
    BY <1>3 DEF RecordInstall, MarketInv, PlacedIsThere
  <2> QED BY <2>1, <2>2 DEF RowHasBundle
<1>4. CASE /\ install' = install
           /\ \A n \in Names : Stays(n)
           /\ torn' \/ \A o \in Operators :
                  op[o].at \in Uninstalling => op'[o] = op[o]
  BY <1>0, <1>4 DEF RowHasBundle, Stays
<1>5. CASE \A o \in Operators : ~Removes(o) /\ ~RecordInstall(o)
  <2>1. \A n \in Names : Stays(n)
    BY <1>5, BundlesStay DEF Removes
  <2>2. install' = install
    <3>1. CASE UNCHANGED vars \/ WorldStep
      BY <3>1 DEF WorldStep, Commit, EditBundle, Enable, LoadStep,
         ResolveBundle, VerifyBundle, HashBundle, BuildGeneration, Recheck,
         VerifyAgain, Serve, LoadFails, vars, database
    <3>2. ASSUME NEW o \in Operators, Begins(o) \/ Proceeds(o)
          PROVE  install' = install
      BY <3>2 DEF Begins, BeginSync, BeginSearch, BeginInstall, BeginTrust,
         StartSync, DeleteSource, BeginUpdate, BeginUninstall, Proceeds,
         DeleteSync, ReadKeys, TrustSigner, NameVendor, LinkKeys, ReadLabel,
         Scan, CheckCandidate, CopyBundle, PlaceRefused, ActivateRefused,
         DisableInstalled, DeleteState, database
    <3>3. ASSUME NEW o \in Operators,
                 \/ Syncs(o) \/ PlaceBundle(o) \/ ActivateBundle(o)
                 \/ RequestFails(o) \/ \E s \in Sources : UpsertSource(o, s)
          PROVE  install' = install
      BY <3>3 DEF Syncs, LockSource, Fetch, FetchFails, RecordSync, PlaceBundle,
         ActivateBundle, RequestFails, UpsertSource, database
    <3> QED BY <1>5, <3>1, <3>2, <3>3, StepsAreKnown DEF Writes, WorldStep
  <2>3. torn' \/ \A o \in Operators : op[o].at \in Uninstalling => op'[o] = op[o]
    <3>1. CASE \/ WorldStep \/ UNCHANGED vars
               \/ \E o \in Operators, s \in Sources : UpsertSource(o, s)
      BY <3>1 DEF WorldStep, Commit, EditBundle, Enable, LoadStep,
         ResolveBundle, VerifyBundle, HashBundle, BuildGeneration, Recheck,
         VerifyAgain, Serve, LoadFails, UpsertSource, vars
    <3>2. ASSUME NEW o \in Operators,
                 Begins(o) \/ Proceeds(o) \/ Syncs(o) \/ Writes(o)
          PROVE  \A q \in Operators : op[q].at \in Uninstalling => op'[q] = op[q]
      BY <3>2, NotUninstalling, OthersStay
    <3>3. ASSUME NEW o \in Operators, RequestFails(o)
          PROVE  \/ torn'
                 \/ \A q \in Operators :
                        op[q].at \in Uninstalling => op'[q] = op[q]
      BY <3>3, OthersStay DEF RequestFails, Uninstalling
    <3> QED BY <1>5, <3>1, <3>2, <3>3, StepsAreKnown DEF WorldStep
  <2> QED BY <1>4, <2>1, <2>2, <2>3
<1> QED BY <1>1, <1>2, <1>3, <1>5 DEF Removes

-----------------------------------------------------------------------------
(* What is enabled. *)

\* The write of a row is followed by the one that switches the module off, and
\* until then the request stands at it.
LEMMA EnabledStaysReviewed == MarketInv /\ [Next]_vars => EnabledWasReviewed'
<1> SUFFICES ASSUME MarketInv, [Next]_vars PROVE EnabledWasReviewed'
  OBVIOUS
<1>0. op \in [Operators -> Requests] /\ EnabledWasReviewed
  BY DEF MarketInv, ProcessesTyped
<1> DEFINE Due(o) == install # None /\ op[o].label = install.bundle
<1>1. CASE /\ UNCHANGED <<install, moduleState, reviewed>>
           /\ disableFailed => disableFailed'
           /\ \/ disableFailed'
              \/ \A o \in Operators :
                     op[o].at = "disable" /\ Due(o) => op'[o] = op[o]
  BY <1>0, <1>1 DEF EnabledWasReviewed
<1>2. CASE Enable
  BY <1>2 DEF Enable, EnabledWasReviewed
<1>3. ASSUME NEW o \in Operators, RecordInstall(o) PROVE EnabledWasReviewed'
  <2>1. op'[o].at = "disable" /\ op'[o].label = op[o].label
    BY <1>0, <1>3, RestIsTyped DEF RecordInstall, Requests
  <2>2. install'.bundle = op[o].label
    BY <1>3 DEF RecordInstall, PutPluginInstall
  <2> QED BY <2>1, <2>2 DEF EnabledWasReviewed
<1>4. ASSUME NEW o \in Operators,
             DisableInstalled(o) \/ DeleteState(o) \/ DeleteInstall(o)
      PROVE  EnabledWasReviewed'
  BY <1>4 DEF DisableInstalled, DeleteState, DeleteInstall,
     DeletePluginInstall, EnabledWasReviewed
<1>5. ASSUME NEW o \in Operators, RequestFails(o) PROVE EnabledWasReviewed'
  <2>1. /\ UNCHANGED <<install, moduleState, reviewed>>
        /\ disableFailed => disableFailed'
        /\ op[o].at = "disable" /\ Due(o) => disableFailed'
    BY <1>5 DEF RequestFails, Installed, database
  <2> QED BY <1>1, <1>5, <2>1, OthersStay
<1>6. ASSUME NEW o \in Operators, op[o].at # "disable",
             UNCHANGED <<install, moduleState, history>>,
             \A q \in Operators : q # o => op'[q] = op[q]
      PROVE  EnabledWasReviewed'
  BY <1>1, <1>6 DEF history
<1>7. ASSUME NEW o \in Operators, Begins(o) PROVE EnabledWasReviewed'
  <2>1. op[o] = Idle /\ UNCHANGED <<install, moduleState, history>>
    BY <1>7 DEF Begins, BeginSync, BeginSearch, BeginInstall, BeginTrust,
       StartSync, DeleteSource, BeginUpdate, BeginUninstall, Requested, database
  <2> QED BY <1>6, <1>7, <2>1, OthersStay DEF Idle
<1>8. ASSUME NEW o \in Operators, Proceeds(o),
             ~DisableInstalled(o), ~DeleteState(o)
      PROVE  EnabledWasReviewed'
  <2>1. op[o].at # "disable" /\ UNCHANGED <<install, moduleState, history>>
    BY <1>8 DEF Proceeds, DeleteSync, ReadKeys, TrustSigner, NameVendor,
       LinkKeys, ReadLabel, Scan, CheckCandidate, CopyBundle, PlaceRefused,
       ActivateRefused, database
  <2> QED BY <1>6, <1>8, <2>1, OthersStay
<1>9. ASSUME NEW o \in Operators,
             Syncs(o) \/ PlaceBundle(o) \/ ActivateBundle(o)
      PROVE  EnabledWasReviewed'
  <2>1. op[o].at # "disable" /\ UNCHANGED <<install, moduleState, history>>
    BY <1>9 DEF Syncs, LockSource, Fetch, FetchFails, RecordSync, PlaceBundle,
       ActivateBundle, database
  <2> QED BY <1>6, <1>9, <2>1, OthersStay DEF Writes
<1>10. ASSUME NEW o \in Operators,
              RemoveRoot(o) \/ RemoveStored(o) \/ RemoveCache(o)
       PROVE  EnabledWasReviewed'
  <2>1. /\ op[o].at # "disable"
        /\ UNCHANGED <<install, moduleState, reviewed, disableFailed>>
    BY <1>10 DEF RemoveRoot, RemoveStored, RemoveCache, database, history
  <2> QED BY <1>1, <1>10, <2>1, OthersStay DEF Removes
<1>11. CASE \/ \E o \in Operators, s \in Sources : UpsertSource(o, s)
            \/ \E s \in Sources : Commit(s)
            \/ \E n \in Names : EditBundle(n)
            \/ LoadStep \/ UNCHANGED vars
  <2>1. UNCHANGED <<install, moduleState, reviewed, disableFailed, op>>
    BY <1>11 DEF UpsertSource, Commit, EditBundle, LoadStep, ResolveBundle,
       VerifyBundle, HashBundle, BuildGeneration, Recheck, VerifyAgain, Serve,
       LoadFails, vars, database, history
  <2> QED BY <1>1, <2>1
<1> QED BY <1>2, <1>3, <1>4, <1>5, <1>7, <1>8, <1>9, <1>10, <1>11, StepsAreKnown
        DEF Removes, Writes

-----------------------------------------------------------------------------
(* What is recorded of the sources. *)

\* The configuration of a behaviour does not change.
LEMMA CastStays == [Next]_vars => cast' = cast
<1> SUFFICES ASSUME [Next]_vars PROVE cast' = cast
  OBVIOUS
<1>1. CASE UNCHANGED fixed
  BY <1>1 DEF fixed
<1>2. ASSUME NEW o \in Operators, Begins(o) \/ Proceeds(o) PROVE UNCHANGED fixed
  BY <1>2 DEF Begins, BeginSync, BeginSearch, BeginInstall, BeginTrust,
     StartSync, DeleteSource, BeginUpdate, BeginUninstall, Proceeds,
     DeleteSync, ReadKeys, TrustSigner, NameVendor, LinkKeys, ReadLabel, Scan,
     CheckCandidate, CopyBundle, PlaceRefused, ActivateRefused,
     DisableInstalled, DeleteState
<1>3. ASSUME NEW o \in Operators,
             Removes(o) \/ Syncs(o) \/ Writes(o) \/ RequestFails(o)
      PROVE  UNCHANGED fixed
  BY <1>3 DEF Removes, RemoveRoot, RemoveStored, RemoveCache, DeleteInstall,
     Syncs, LockSource, Fetch, FetchFails, RecordSync, Writes, PlaceBundle,
     ActivateBundle, RecordInstall, RequestFails
<1>4. CASE WorldStep \/ UNCHANGED vars
           \/ \E o \in Operators, s \in Sources : UpsertSource(o, s)
  BY <1>1, <1>4 DEF WorldStep, Commit, EditBundle, Enable, LoadStep,
     ResolveBundle, VerifyBundle, HashBundle, BuildGeneration, Recheck,
     VerifyAgain, Serve, LoadFails, UpsertSource, vars
<1> QED BY <1>1, <1>2, <1>3, <1>4, StepsAreKnown DEF WorldStep

\* No record of a source goes back in a step.
RecordsForward ==
    \A s \in Sources :
        syncs[s] # None /\ syncs'[s] # None =>
            (syncs[s].rev # None /\ syncs'[s].rev # None =>
                 syncs'[s].rev[2] >= syncs[s].rev[2])

\* What a step adds to the record of a source is the commit checked out.
LEMMA RecordsStayTrue ==
    ASSUME MarketInv, [Next]_vars, cast \cap CommandLine = {}
    PROVE  RecordsBehind' /\ LabelsCurrent' /\ RecordsForward
<1>0. /\ RecordsBehind /\ LabelsCurrent /\ LocksHeld
      /\ op \in [Operators -> Requests]
      /\ syncs \in [Sources -> SyncRows \cup {None}]
      /\ remote \in [Sources -> 1..MaxCommits]
      /\ checkout \in [Sources -> 0..MaxCommits]
      /\ \A o \in Operators : op[o].at \in Syncing => op[o].source \in Sources
  BY DEF MarketInv, RecordsFollowCheckouts, ProcessesTyped, DatabaseTyped,
     FilesTyped, Prepared, Ready, Sourced
<1>1. \A s \in Sources : syncs[s] # None /\ syncs[s].rev # None =>
                             syncs[s].rev[2] \in 1..MaxCommits
  BY <1>0 DEF SyncRows, Revisions
<1>2. ASSUME UNCHANGED <<syncs, remote, checkout>> PROVE RecordsBehind' /\ RecordsForward
  BY <1>0, <1>1, <1>2, CommitsPositive DEF RecordsBehind, RecordsForward
<1>3. ASSUME NEW o \in Operators, op'[o].at # "record" \/ op'[o].label = None,
             \A q \in Operators : q # o => op'[q] = op[q], checkout' = checkout
      PROVE  LabelsCurrent'
  BY <1>0, <1>3 DEF LabelsCurrent
<1>4. ASSUME NEW o \in Operators, o \in cast, Fetch(o) \/ FetchFails(o)
      PROVE  RecordsBehind' /\ LabelsCurrent' /\ RecordsForward
  <2> DEFINE s == op[o].source
  <2>1. /\ s \in Sources /\ op[o].at = "fetch"
        /\ op'[o].source = s
        /\ \A q \in Operators : q # o => op'[q] = op[q]
    BY <1>0, <1>4, SyncStages, OthersStay DEF Syncs, Syncing
  <2>2. /\ checkout' \in {checkout, [checkout EXCEPT ![s] = remote[s]]}
        /\ remote' = remote /\ syncs' = syncs
        /\ op'[o].label = None \/ op'[o].label = <<s, checkout'[s]>>
    <3>1. CASE Fetch(o)
      <4>1. op'[o].label = <<s, remote[s]>>
        BY <3>1, SyncStages DEF Syncs
      <4> QED BY <1>0, <2>1, <3>1, <4>1 DEF Fetch, database
    <3>2. CASE FetchFails(o)
      BY <3>2, SyncStages DEF Syncs, FetchFails, database
    <3> QED BY <1>4, <3>1, <3>2
  <2> HIDE DEF s
  <2>3. RecordsBehind'
    BY <1>0, <1>1, <2>1, <2>2, CommitsPositive DEF RecordsBehind
  <2>4. RecordsForward
    BY <1>1, <2>2 DEF RecordsForward
  <2>5. ASSUME NEW q \in Operators, op'[q].at = "record", op'[q].label # None
        PROVE  op'[q].label = <<op'[q].source, checkout'[op'[q].source]>>
    <3>1. CASE q = o
      BY <2>1, <2>2, <2>5, <3>1
    <3>2. CASE q # o
      <4>1. op'[q] = op[q] /\ op[q].at = "record" /\ op[q].source \in Sources
        BY <1>0, <2>1, <2>5, <3>2 DEF Syncing
      <4>2. q \in cast
        BY <4>1 DEF MarketInv, Prepared, Idle
      <4>3. Manager(q) = Manager(o)
        BY <1>4, <4>2 DEF Manager
      <4>4. lock[Manager(o)][s] = o
        BY <1>0, <2>1 DEF LocksHeld, Syncing, s
      <4>5. lock[Manager(q)][op[q].source] = q
        BY <1>0, <4>1 DEF LocksHeld, Syncing
      <4>6. op[q].source # s
        BY <3>2, <4>3, <4>4, <4>5
      <4> QED BY <1>0, <2>2, <2>5, <4>1, <4>6 DEF LabelsCurrent
    <3> QED BY <3>1, <3>2
  <2> QED BY <2>3, <2>4, <2>5 DEF LabelsCurrent
<1>5. ASSUME NEW o \in Operators, RecordSync(o)
      PROVE  RecordsBehind' /\ LabelsCurrent' /\ RecordsForward
  <2> DEFINE s == op[o].source
  <2>1. /\ s \in Sources /\ op[o].at = "record" /\ op'[o].at # "record"
        /\ \A q \in Operators : q # o => op'[q] = op[q]
    BY <1>0, <1>5, SyncStages, OthersStay DEF Syncs, Syncing
  <2>2. /\ syncs' = [syncs EXCEPT ![s] = [rev |-> op[o].label]]
        /\ remote' = remote /\ checkout' = checkout
    BY <1>5 DEF RecordSync, PutMarketplaceSourceSync
  <2>3. op[o].label # None => op[o].label[2] = checkout[s]
    <3>1. op[o].label # None => op[o].label = <<s, checkout[s]>>
      BY <1>0, <2>1 DEF LabelsCurrent
    <3> QED BY <3>1
  <2>4. syncs'[s].rev = op[o].label /\ \A t \in Sources : t # s => syncs'[t] = syncs[t]
    BY <1>0, <2>1, <2>2
  <2> HIDE DEF s
  <2>5. RecordsBehind'
    BY <1>0, <2>1, <2>2, <2>3, <2>4 DEF RecordsBehind
  <2>6. RecordsForward
    <3> SUFFICES ASSUME NEW t \in Sources, syncs[t] # None, syncs[t].rev # None,
                        syncs'[t] # None, syncs'[t].rev # None
                 PROVE  syncs'[t].rev[2] >= syncs[t].rev[2]
      BY DEF RecordsForward
    <3>1. CASE t = s
      BY <1>0, <1>1, <2>3, <2>4, <3>1, CommitsPositive DEF RecordsBehind
    <3>2. CASE t # s
      BY <1>1, <2>4, <3>2, CommitsPositive
    <3> QED BY <3>1, <3>2
  <2>7. LabelsCurrent'
    BY <1>3, <2>1, <2>2
  <2> QED BY <2>5, <2>6, <2>7
<1>6. ASSUME NEW o \in Operators, DeleteSync(o)
      PROVE  RecordsBehind' /\ LabelsCurrent' /\ RecordsForward
  <2>1. /\ syncs' = [syncs EXCEPT ![op[o].source] = None]
        /\ UNCHANGED <<remote, checkout>> /\ op'[o].at # "record"
        /\ \A q \in Operators : q # o => op'[q] = op[q]
    BY <1>6, QuietStages, OthersStay
       DEF DeleteSync, DeleteMarketplaceSourceSync, Proceeds, Syncing
  <2>2. RecordsBehind' /\ RecordsForward
    BY <1>0, <1>1, <2>1, CommitsPositive DEF RecordsBehind, RecordsForward
  <2> QED BY <1>3, <2>1, <2>2
<1>7. ASSUME NEW o \in Operators,
             Begins(o) \/ (Proceeds(o) /\ ~DeleteSync(o)) \/ Removes(o)
      PROVE  RecordsBehind' /\ LabelsCurrent' /\ RecordsForward
  <2>1. UNCHANGED <<syncs, remote, checkout>>
    BY <1>7 DEF Begins, BeginSync, BeginSearch, BeginInstall, BeginTrust,
       StartSync, DeleteSource, BeginUpdate, BeginUninstall, Proceeds,
       ReadKeys, TrustSigner, NameVendor, LinkKeys, ReadLabel, Scan,
       CheckCandidate, CopyBundle, PlaceRefused, ActivateRefused,
       DisableInstalled, DeleteState, Removes, RemoveRoot, RemoveStored,
       RemoveCache, DeleteInstall, database
  <2> QED BY <1>2, <1>3, <1>7, <2>1, QuietStages, OthersStay DEF Syncing
<1>8. ASSUME NEW o \in Operators, LockSource(o) \/ Writes(o) \/ RequestFails(o)
      PROVE  RecordsBehind' /\ LabelsCurrent' /\ RecordsForward
  <2>1. UNCHANGED <<syncs, remote, checkout>>
    BY <1>8 DEF LockSource, Writes, PlaceBundle, ActivateBundle,
       RecordInstall, RequestFails, database
  <2>2. op'[o].at # "record" \/ op'[o].label = None
    <3>1. CASE LockSource(o)
      BY <3>1, SyncStages DEF Syncs
    <3>2. CASE Writes(o)
      BY <1>0, <3>2 DEF Writes, PlaceBundle, ActivateBundle, RecordInstall,
         Goto, Requests, Idle
    <3>3. CASE RequestFails(o)
      BY <1>0, <3>3 DEF RequestFails, Done, Idle
    <3> QED BY <1>8, <3>1, <3>2, <3>3
  <2> QED BY <1>2, <1>3, <1>8, <2>1, <2>2, OthersStay DEF Syncs
<1>9. ASSUME NEW s \in Sources, Commit(s)
      PROVE  RecordsBehind' /\ LabelsCurrent' /\ RecordsForward
  <2>1. /\ remote' = [remote EXCEPT ![s] = @ + 1]
        /\ UNCHANGED <<syncs, checkout, op>>
    BY <1>9 DEF Commit, database
  <2>2. RecordsBehind' /\ RecordsForward
    BY <1>0, <1>1, <2>1, CommitsPositive DEF RecordsBehind, RecordsForward
  <2> QED BY <1>0, <2>1, <2>2 DEF LabelsCurrent
<1>10. CASE \/ \E o \in Operators, s \in Sources : UpsertSource(o, s)
            \/ \E n \in Names : EditBundle(n)
            \/ Enable \/ LoadStep \/ UNCHANGED vars
  <2>1. UNCHANGED <<syncs, remote, checkout, op>>
    BY <1>10 DEF UpsertSource, EditBundle, Enable, LoadStep, ResolveBundle,
       VerifyBundle, HashBundle, BuildGeneration, Recheck, VerifyAgain, Serve,
       LoadFails, vars, database
  <2> QED BY <1>0, <1>2, <2>1 DEF LabelsCurrent
<1> QED BY <1>4, <1>5, <1>6, <1>7, <1>8, <1>9, <1>10, StepsAreKnown DEF Syncs

-----------------------------------------------------------------------------
(* What the host serves. *)

\* The steps that are not the load's leave the directory a load reads alone,
\* remove it, or note what they do to it.
LEMMA DirectoryKeeps ==
    ASSUME MarketInv, [Next]_vars, ~LoadStep
    PROVE  /\ UNCHANGED <<served, evaded, backend, cast>>
           /\ \/ NoteSwap
              \/ /\ loader' = loader
                 /\ loader.at # "idle" =>
                        LoadDir(loader.dir)' \in {LoadDir(loader.dir), None}
<1> DEFINE Goal == /\ UNCHANGED <<served, evaded, backend, cast>>
                   /\ \/ NoteSwap
                      \/ /\ loader' = loader
                         /\ loader.at # "idle" =>
                                LoadDir(loader.dir)' \in {LoadDir(loader.dir), None}
<1>0. CASE UNCHANGED <<loader, served, evaded, fixed, bundles, cache>>
  BY <1>0 DEF LoadDir, fixed
<1>1. ASSUME NEW o \in Operators, Begins(o) \/ Proceeds(o) PROVE Goal
  <2>1. UNCHANGED <<loader, served, evaded, fixed, bundles, cache>>
    BY <1>1 DEF Begins, BeginSync, BeginSearch, BeginInstall, BeginTrust,
       StartSync, DeleteSource, BeginUpdate, BeginUninstall, Proceeds,
       DeleteSync, ReadKeys, TrustSigner, NameVendor, LinkKeys, ReadLabel, Scan,
       CheckCandidate, CopyBundle, PlaceRefused, ActivateRefused,
       DisableInstalled, DeleteState, files, history
  <2> QED BY <1>0, <2>1
<1>2. ASSUME NEW o \in Operators,
             \/ Syncs(o) \/ RecordInstall(o) \/ DeleteInstall(o)
             \/ RequestFails(o) \/ \E s \in Sources : UpsertSource(o, s)
      PROVE  Goal
  <2>1. UNCHANGED <<loader, served, evaded, fixed, bundles, cache>>
    BY <1>2 DEF Syncs, LockSource, Fetch, FetchFails, RecordSync, RecordInstall,
       DeleteInstall, RequestFails, UpsertSource, files, history
  <2> QED BY <1>0, <2>1
<1>3. ASSUME NEW o \in Operators, PlaceBundle(o) \/ ActivateBundle(o) PROVE Goal
  BY <1>3 DEF PlaceBundle, ActivateBundle, history, fixed
<1>4. ASSUME NEW o \in Operators,
             RemoveRoot(o) \/ RemoveStored(o) \/ RemoveCache(o)
      PROVE  Goal
  <2>1. /\ UNCHANGED <<loader, served, evaded, fixed>>
        /\ bundles' \in {bundles, [n \in Names |-> None]}
        /\ cache' \in {cache, [n \in Names |-> None]}
    BY <1>4 DEF RemoveRoot, RemoveStored, RemoveCache, history
  <2>2. loader.at # "idle" => loader.dir \in Names
    BY DEF MarketInv, LoadKnowsFirst
  <2> QED BY <2>1, <2>2 DEF LoadDir, fixed
<1>5. CASE (\E n \in Names : EditBundle(n)) \/ Enable
  BY <1>0, <1>5 DEF EditBundle, Enable, files, history, fixed
<1>6. CASE (\E s \in Sources : Commit(s)) \/ UNCHANGED vars
  BY <1>0, <1>6 DEF Commit, vars, files, history
<1> QED BY <1>1, <1>2, <1>3, <1>4, <1>5, <1>6, StepsAreKnown
        DEF Removes, Writes

\* A bundle the load may serve is signed where it must be, and not edited.
LEMMA AdmissibleIsVerified ==
    ASSUME NEW c \in Contents, Admissible(c)
    PROVE  /\ c.rev \in Signed => ~c.edited
           /\ RequireSigned => c.rev \in Signed
BY DEF Admissible, SignatureState

\* A step of the rest of the system swaps the files of a load, or leaves what
\* the load knows of them true.
LEMMA LoadsStayWhole ==
    ASSUME MarketInv, [Next]_vars, ~LoadStep
    PROVE  LoadKnowsFirst' /\ ServedIsVerified'
<1> DEFINE there == LoadDir(loader.dir)
           next == LoadDir(loader.dir)'
<1>1. /\ ProcessesTyped /\ LoadKnowsFirst /\ ServedIsVerified
      /\ UNCHANGED <<served, evaded, backend, cast>>
      /\ \/ NoteSwap
         \/ loader' = loader /\ (loader.at # "idle" => next \in {there, None})
  BY DirectoryKeeps DEF MarketInv
<1>2. ServedIsVerified'
  BY <1>1 DEF ServedIsVerified, RequireSigned
<1>3. /\ loader'.at = loader.at /\ loader'.dir = loader.dir
      /\ loader'.first = loader.first /\ loader'.code = loader.code
      /\ ~loader'.swapped => ~loader.swapped
  BY <1>1, SwapsAreTyped
<1>4. ASSUME loader.at \in Loading, ~loader'.swapped
      PROVE  \/ next \in {there, None}
             \/ next # loader.first /\ next.rev = loader.first.rev
  <2>1. CASE NoteSwap
    <3>1. ~Swapped
      BY <1>1, <1>4, <2>1, SwapsAreTyped
    <3>2. loader.first # None
      BY <1>1, <1>4, NoneIsNoValue DEF LoadKnowsFirst
    <3>3. next = IF backend = "local" THEN bundles'[loader.dir]
                 ELSE cache'[loader.dir]
      BY <1>1, <1>3 DEF LoadDir
    <3> QED BY <3>1, <3>2, <3>3 DEF Swapped
  <2>2. CASE ~NoteSwap
    BY <1>1, <1>4, <2>2 DEF Loading
  <2> QED BY <2>1, <2>2
<1>5. LoadDir(loader.dir)' = next /\ (RequireSigned' <=> RequireSigned)
  BY <1>1 DEF RequireSigned
<1> HIDE DEF next
<1>6. ASSUME loader.at \in Loading
      PROVE  /\ loader.first \in Contents
             /\ loader.first.rev \in Signed => ~loader.first.edited
             /\ RequireSigned => loader.first.rev \in Signed
             /\ ~loader'.swapped => next = None \/ next.rev = loader.first.rev
  BY <1>1, <1>3, <1>4, <1>6 DEF LoadKnowsFirst
<1>7. ASSUME loader.at \in Compiled
      PROVE  /\ loader.code \in Contents
             /\ ~loader'.swapped => /\ loader.code.rev = loader.first.rev
                                    /\ next = loader.first => loader.code = loader.first
  <2>1. loader.at \in Loading /\ loader.first # None
    BY <1>1, <1>7, NoneIsNoValue DEF LoadKnowsFirst, Loading, Compiled
  <2> QED BY <1>1, <1>3, <1>4, <1>7, <2>1 DEF LoadKnowsFirst
<1>8. LoadKnowsFirst'
  BY <1>1, <1>3, <1>5, <1>6, <1>7 DEF LoadKnowsFirst
<1> QED BY <1>2, <1>8

\* The files read are those that were verified if these are there at the end;
\* of an unsigned bundle only the revision matters.
LEMMA ServedStaysVerified ==
    MarketInv /\ [Next]_vars => LoadKnowsFirst' /\ ServedIsVerified'
<1> SUFFICES ASSUME MarketInv, [Next]_vars
             PROVE  LoadKnowsFirst' /\ ServedIsVerified'
  OBVIOUS
<1> DEFINE dir == loader.dir
<1>0. /\ loader \in Loads /\ ServedIsVerified /\ LoadKnowsFirst
      /\ loader.at # "idle" => dir \in Names
      /\ \A n \in Names : LoadDir(n) \in Contents \cup {None}
      /\ RequireSigned' <=> RequireSigned
  BY CastStays DEF MarketInv, ProcessesTyped, LoadKnowsFirst, FilesTyped,
     LoadDir, RequireSigned
<1>1. ASSUME UNCHANGED <<served, evaded>> PROVE ServedIsVerified'
  BY <1>0, <1>1 DEF ServedIsVerified
<1>2. CASE ~LoadStep
  BY <1>2, LoadsStayWhole
<1>3. CASE ResolveBundle
  <2>1. /\ loader'.at = "verify" /\ loader'.dir = ChosenBundle
        /\ UNCHANGED <<served, evaded>>
    BY <1>3 DEF ResolveBundle, Resting, history
  <2>2. ChosenBundle \in Names
    BY <1>3 DEF ResolveBundle, ChosenBundle, Installed, MarketInv,
       DatabaseTyped, FilesTyped, InstallRows
  <2> QED BY <1>1, <2>1, <2>2 DEF LoadKnowsFirst, Loading, Compiled
<1>4. CASE VerifyBundle
  <2>1. /\ loader.at = "verify" /\ LoadDir(dir) \in Contents
        /\ Admissible(LoadDir(dir))
        /\ loader'.at = "hash" /\ loader'.dir = dir
        /\ loader'.first = LoadDir(dir)
        /\ UNCHANGED <<served, evaded, backend, bundles, cache>>
    BY <1>0, <1>4 DEF VerifyBundle, Admissible, Loads, fixed, files, history
  <2>2. LoadDir(dir)' = LoadDir(dir)
    BY <2>1 DEF LoadDir
  <2>3. /\ LoadDir(dir).rev \in Signed => ~LoadDir(dir).edited
        /\ RequireSigned => LoadDir(dir).rev \in Signed
    BY <2>1, AdmissibleIsVerified
  <2> QED BY <1>0, <1>1, <2>1, <2>2, <2>3 DEF LoadKnowsFirst, Loading, Compiled
<1>5. CASE HashBundle \/ Recheck
  <2>1. /\ loader.at \in {"hash", "recheck"}
        /\ loader'.at \in {"build", "reverify"}
        /\ loader.at = "hash" => loader'.at = "build"
        /\ loader'.dir = dir /\ loader'.first = loader.first
        /\ loader'.code = loader.code /\ loader'.swapped = loader.swapped
        /\ UNCHANGED <<served, evaded, backend, bundles, cache>>
    BY <1>0, <1>5 DEF HashBundle, Recheck, Loads, fixed, files, history
  <2>2. LoadDir(dir)' = LoadDir(dir)
    BY <2>1 DEF LoadDir
  <2> QED BY <1>0, <1>1, <2>1, <2>2 DEF LoadKnowsFirst, Loading, Compiled
<1>6. CASE BuildGeneration
  <2>1. /\ loader.at = "build" /\ LoadDir(dir) \in Contents
        /\ loader'.at = "recheck" /\ loader'.dir = dir
        /\ loader'.first = loader.first /\ loader'.code = LoadDir(dir)
        /\ loader'.swapped = loader.swapped
        /\ UNCHANGED <<served, evaded, backend, bundles, cache>>
    BY <1>0, <1>6 DEF BuildGeneration, Loads, fixed, files, history
  <2>2. LoadDir(dir)' = LoadDir(dir) /\ LoadDir(dir) # None
    BY <2>1, NoneIsNoValue DEF LoadDir
  <2> QED BY <1>0, <1>1, <2>1, <2>2 DEF LoadKnowsFirst, Loading, Compiled
<1>7. CASE VerifyAgain
  <2>1. /\ loader.at = "reverify" /\ loader' = Resting
        /\ loader.first.rev \in Signed => LoadDir(dir) = loader.first
        /\ served' = loader.code /\ evaded' = loader.swapped
    BY <1>7 DEF VerifyAgain, Serve
  <2>2. ServedIsVerified'
    <3>1. /\ loader.first.rev \in Signed => ~loader.first.edited
          /\ RequireSigned => loader.first.rev \in Signed
          /\ ~loader.swapped => /\ loader.code.rev = loader.first.rev
                                /\ LoadDir(dir) = loader.first =>
                                       loader.code = loader.first
      BY <1>0, <2>1 DEF LoadKnowsFirst, Loading, Compiled
    <3> QED BY <1>0, <2>1, <3>1 DEF ServedIsVerified
  <2>3. LoadKnowsFirst'
    BY <2>1 DEF LoadKnowsFirst, Resting, Loading, Compiled
  <2> QED BY <2>2, <2>3
<1>8. CASE LoadFails
  <2>1. loader' = Resting /\ UNCHANGED <<served, evaded>>
    BY <1>8 DEF LoadFails, history
  <2> QED BY <1>1, <2>1 DEF LoadKnowsFirst, Resting, Loading, Compiled
<1> QED BY <1>2, <1>3, <1>4, <1>5, <1>6, <1>7, <1>8 DEF LoadStep

-----------------------------------------------------------------------------
(* The theorems. *)

\* Every step keeps MarketInv.
LEMMA MarketInvIsInductive == MarketInv /\ [Next]_vars => MarketInv'
<1> SUFFICES ASSUME MarketInv, [Next]_vars PROVE MarketInv'
  OBVIOUS
<1>1. DatabaseTyped' /\ FilesTyped' /\ ProcessesTyped'
  BY DatabaseStaysTyped, FilesStayTyped, ProcessesStayTyped
<1>2. Prepared' /\ LocksHeld'
  BY RequestsStayWell, LocksStayHeld DEF RequestsWell
<1>3. RowHasBundle' /\ PlacedIsThere'
  BY RowsKeepBundles, PlacedStaysThere
<1>4. ServedIsVerified' /\ LoadKnowsFirst'
  BY ServedStaysVerified
<1>5. EnabledWasReviewed'
  BY EnabledStaysReviewed
<1>6. RecordsFollowCheckouts'
  BY RecordsStayTrue, CastStays DEF RecordsFollowCheckouts
<1> QED BY <1>1, <1>2, <1>3, <1>4, <1>5, <1>6 DEF MarketInv

\* Every reachable state satisfies MarketInv.
LEMMA MarketInvHolds == Spec => []MarketInv
<1> QED BY StartsWell, MarketInvIsInductive, PTL DEF Spec

\* Every variable of the marketplace keeps its type, and the lock of a source
\* is held exactly by the request that syncs it (syncSourceRecord).
THEOREM MarketTypesHold == Spec => []MarketTypeOK
<1>1. MarketInv => MarketTypeOK
  <2> SUFFICES ASSUME MarketInv PROVE MarketTypeOK
    OBVIOUS
  <2>1. \A s \in Sources : syncs[s] = None \/ syncs[s].rev \in Revisions \cup {None}
    BY DEF MarketInv, DatabaseTyped, SyncRows
  <2>2. \A o \in Operators : op[o].at \in Stages
    BY DEF MarketInv, ProcessesTyped, Requests
  <2>3. loader.at \in {"idle", "verify", "hash", "build", "recheck", "reverify"}
    BY DEF MarketInv, ProcessesTyped, Loads
  <2>4. \A s \in Sources, o \in Operators :
            lock[Manager(o)][s] = o <=>
                /\ op[o].source = s
                /\ op[o].at \in {"fetch", "record"}
    BY DEF MarketInv, LocksHeld, Syncing
  <2> QED BY <2>1, <2>2, <2>3, <2>4
          DEF MarketInv, DatabaseTyped, FilesTyped, ProcessesTyped, MarketTypeOK
<1> QED BY <1>1, MarketInvHolds, PTL

\* The row of an installed plugin names a bundle that is there and was recorded
\* by its hash (Install, Update, MaterializeBundle), unless an uninstall
\* overlaps or stopped halfway.
THEOREM RowsHaveBundles == Spec => []RowHasBundle
<1>1. MarketInv => RowHasBundle
  BY DEF MarketInv
<1> QED BY <1>1, MarketInvHolds, PTL

\* What the host serves was verified: signed where it must be, and not edited
\* (loadOne), whatever edits, installs and removals come between its checks,
\* unless the files were swapped and put back while they were read.
THEOREM ServedCodeIsVerified == Spec => []ServedIsVerified
<1>1. MarketInv => ServedIsVerified
  BY DEF MarketInv
<1> QED BY <1>1, MarketInvHolds, PTL

\* An enabled module runs the bundle it was enabled with, unless the write that
\* switches it off failed or is the next step of the request that installed it
\* (recordInstall).
THEOREM EnabledCodeWasReviewed == Spec => []EnabledWasReviewed
<1>1. MarketInv => EnabledWasReviewed
  BY DEF MarketInv
<1> QED BY <1>1, MarketInvHolds, PTL

\* The recorded revision of a source does not go back, however many requests of
\* one process sync it (syncSourceRecord under its lock).
THEOREM SyncRecordsMoveForward == Spec => SyncRecordMovesForward
<1>1. MarketInv /\ [Next]_vars =>
          [cast \cap CommandLine = {} => RecordsForward]_vars
  BY RecordsStayTrue
<1>2. [cast \cap CommandLine = {} => RecordsForward]_vars =>
          [cast \cap CommandLine = {} => \A s \in Sources :
               syncs[s] # None /\ syncs'[s] # None =>
                   (syncs[s].rev # None /\ syncs'[s].rev # None =>
                        syncs'[s].rev[2] >= syncs[s].rev[2])]_vars
  BY DEF RecordsForward
<1> QED BY <1>1, <1>2, MarketInvHolds, PTL DEF Spec, SyncRecordMovesForward
=============================================================================
