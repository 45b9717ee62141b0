----------------------------- MODULE Marketplace ------------------------------
(***************************************************************************)
(* The marketplace (internal/marketplace/manager.go): sources in git       *)
(* repositories, and one plugin that is installed from them, updated,      *)
(* loaded and removed.                                                     *)
(*                                                                         *)
(* An operator's request runs through git checkouts, a bundle repository   *)
(* (internal/bundles, in its three forms) and single database statements   *)
(* (storage/postgres/marketplace/catalog.go), with no transaction around   *)
(* them and a lock around the checkout only: requests interleave between   *)
(* any two steps, and any step that does I/O may fail.  Meanwhile the      *)
(* plugin host loads what is there (runtime/plugins/host/load.go), and a   *)
(* person may edit the bundle files, which nothing protects.               *)
(*                                                                         *)
(* A revision is a commit of a source.  The contents of a directory are    *)
(* the revision it was copied from and whether it differs from that        *)
(* commit, by an edit or by a copy that another sync disturbed; hashes of  *)
(* directories are equal exactly when the contents are.                    *)
(***************************************************************************)
EXTENDS Integers, FiniteSets

CONSTANTS
    Operators,      \* requests under way at a time
    CommandLine,    \* those of them that are runs of "mamacord plugins ..."
    Sources,        \* ids of marketplace sources
    MaxCommits,     \* bound: commits of a source
    Signed,         \* revisions that carry a signature of the vendor's key
    Backends,       \* bundle backends of the configuration
    Casts,          \* what takes part: operators, kinds of requests, ...
    None

Revisions == Sources \X (1..MaxCommits)
Contents == [rev : Revisions, edited : BOOLEAN]

ASSUME CommitsPositive == MaxCommits \in Nat \ {0}
ASSUME CommandLineOperates == CommandLine \subseteq Operators
ASSUME SignedAreRevisions == Signed \subseteq Revisions
ASSUME NoneIsNoValue == None \notin Contents \cup Revisions \cup Operators
ASSUME KnownBackends == Backends \subseteq {"local", "cached", "object_store"}

VARIABLES
    \* Database.
    sources,        \* marketplace_sources: absent, enabled or disabled
    syncs,          \* marketplace_source_syncs: the revision, None after an error
    install,        \* the plugin's row in plugin_installs
    moduleState,    \* its row in module_states
    signer,         \* the vendor's key is in trusted_signers
    vendor,         \* the vendor's rows: "none", "named", "linked" to its key
    \* Files.
    backend,        \* the configured backend
    cast,           \* what takes part in this behaviour
    remote,         \* the last commit of a source's repository
    checkout,       \* the commit checked out in the cache directory
    root,           \* the plugin's root: whether it exists, the active bundle
    bundles,        \* the bundle directories: local ones or those of the store
    cache,          \* the copies the cached backends load from
    staged,         \* operators with a temporary copy in the repository
    \* Processes.
    lock,           \* Manager.locks, of every process: who syncs a source
    op,             \* the requests
    loader,         \* a load of the plugin by the host
    served,         \* the code the host serves
    \* History.
    reviewed,       \* the bundle that was installed when it was enabled
    disableFailed,  \* what is installed was not switched off: that write failed
    torn,           \* the root was removed under an install or update
    evaded          \* the code served was loaded while its files were swapped

database == <<sources, syncs, install, moduleState, signer, vendor>>
files == <<root, bundles, cache, staged>>
history == <<reviewed, disableFailed, torn, evaded>>
fixed == <<backend, cast>>
vars == <<database, fixed, remote, checkout, files, lock, op, loader, served,
          history>>

-----------------------------------------------------------------------------
(* Helpers. *)

\* git-<revision>, or sha256-<hash> of what was copied.
Names == ({"git"} \X Revisions) \cup ({"sha256"} \X Contents)
NoRoot == [exists |-> FALSE, active |-> None]
Idle == [at |-> "idle", kind |-> None, source |-> None, force |-> FALSE,
         label |-> None, found |-> None]
Resting == [at |-> "idle", dir |-> None, first |-> None, hash |-> None,
            code |-> None, swapped |-> FALSE]

Pristine(revision) == [rev |-> revision, edited |-> FALSE]

\* bundleDirName: the revision, or the hash when git did not tell it.
BundleName(label, contents) ==
    IF label = None THEN <<"sha256", contents>> ELSE <<"git", label>>

\* prodMode and not allowUnsigned.
RequireSigned == "production" \in cast

\* The server has one manager; every command opens one of its own.
Managers == {"server"} \cup CommandLine
Manager(o) == IF o \in CommandLine THEN o ELSE "server"

\* The subcommands of "mamacord plugins", and the routes of the admin API.
SourcesCommand == {"upsert", "delete", "sync"}
TrustCommand == {"trust"}
PluginsCommand ==
    SourcesCommand \cup TrustCommand
        \cup {"search", "install", "update", "uninstall"}
MarketplaceRoutes ==
    {"upsert", "delete", "sync", "search", "install", "update", "uninstall",
     "trust"}

\* SignatureStateForDir.
SignatureState(contents) ==
    IF contents.rev \notin Signed THEN "unsigned"
    ELSE IF contents.edited THEN "invalid"
    ELSE IF ~signer THEN "untrusted"
    ELSE "trusted"

\* ResolveBundleRelativeDir: local paths are not checked to exist.
Resolvable(name) == name # None /\ (backend = "local" \/ bundles[name] # None)

\* DirModified of the active bundle, for a bundle that can be read.
ActiveModified(hash) == bundles[root.active] # hash

\* Where the host loads a bundle from, after ensureCachedBundle.
LoadDir(name) == IF backend = "local" THEN bundles[name] ELSE cache[name]
EnsureCached(name) ==
    cache' = IF backend = "local" THEN cache
             ELSE [cache EXCEPT ![name] = bundles[name]]

\* History: since the load looked at the signature, this step puts the verified
\* contents back into its directory, or another revision into it.
Swapped ==
    LET dir == loader.dir
        next == IF backend = "local" THEN bundles'[dir] ELSE cache'[dir]
    IN
    /\ loader.first # None
    /\ next \notin {None, LoadDir(dir)}
    /\ next = loader.first \/ next.rev # loader.first.rev
NoteSwap == loader' = [loader EXCEPT !.swapped = @ \/ Swapped]

Init ==
    /\ sources = [s \in Sources |-> "enabled"]
    /\ syncs = [s \in Sources |-> None]
    /\ install = None
    /\ moduleState = "none"
    /\ cast \in Casts
    /\ signer = ("trust" \notin cast)
    /\ vendor = "none"
    /\ backend \in Backends
    /\ remote = [s \in Sources |-> 1]
    /\ checkout = [s \in Sources |-> 0]
    /\ root = NoRoot
    /\ bundles = [n \in Names |-> None]
    /\ cache = [n \in Names |-> None]
    /\ staged = {}
    /\ lock = [m \in Managers |-> [s \in Sources |-> None]]
    /\ op = [o \in Operators |-> Idle]
    /\ loader = Resting
    /\ served = None
    /\ reviewed = None
    /\ disableFailed = FALSE
    /\ torn = FALSE
    /\ evaded = FALSE

Goto(o, stage) == op' = [op EXCEPT ![o].at = stage]
Done(o) == op' = [op EXCEPT ![o] = Idle]

Requested(o, kind) ==
    /\ op[o] = Idle
    /\ kind \in cast
    /\ kind \in (IF o \in CommandLine THEN PluginsCommand ELSE MarketplaceRoutes)

\* GetMarketplaceSource and GetPluginInstall.
Known(s) == sources[s] # "absent"
Installed == install # None

-----------------------------------------------------------------------------
(* The statements of the store. *)

PutMarketplaceSource(s, state) == sources' = [sources EXCEPT ![s] = state]
DeleteMarketplaceSource(s) == sources' = [sources EXCEPT ![s] = "absent"]
PutMarketplaceSourceSync(s, row) == syncs' = [syncs EXCEPT ![s] = row]
DeleteMarketplaceSourceSync(s) == syncs' = [syncs EXCEPT ![s] = None]
PutPluginInstall(row) == install' = row
DeletePluginInstall == install' = None
PutTrustedVendor == vendor' = IF vendor = "linked" THEN "linked" ELSE "named"
ReplaceTrustedVendorKeys == vendor' = "linked"

-----------------------------------------------------------------------------
(* The world: commits, edits of bundle files, the switch in the dashboard. *)

Commit(s) ==
    /\ remote[s] < MaxCommits
    /\ remote' = [remote EXCEPT ![s] = @ + 1]
    /\ UNCHANGED <<database, fixed, checkout, files, lock, op, loader, served,
                   history>>

\* A person changes the files of a bundle, or puts them back as they were.
EditBundle(n) ==
    /\ bundles[n] # None
    /\ bundles' = [bundles EXCEPT ![n].edited = ~@]
    /\ cache' = cache
    /\ NoteSwap
    /\ UNCHANGED <<database, fixed, remote, checkout, root, staged, lock, op,
                   served, history>>

Enable ==
    /\ install # None
    /\ moduleState' = "on"
    /\ reviewed' = install.bundle
    /\ disableFailed' = FALSE
    /\ UNCHANGED <<sources, syncs, install, signer, vendor, fixed, remote,
                   checkout, files, lock, op, loader, served, torn, evaded>>

-----------------------------------------------------------------------------
(* Requests about sources and trust. *)

UpsertSource(o, s) ==
    /\ Requested(o, "upsert")
    /\ \E enabled \in {"enabled", "disabled"} : PutMarketplaceSource(s, enabled)
    /\ UNCHANGED <<syncs, install, moduleState, signer, vendor, fixed, remote,
                   checkout, files, lock, op, loader, served, history>>

\* DeleteSource: the source and its sync record, in two statements.
DeleteSource(o, s) ==
    /\ Requested(o, "delete")
    /\ DeleteMarketplaceSource(s)
    /\ op' = [op EXCEPT ![o] = [Idle EXCEPT !.at = "delete_sync",
                                            !.kind = "delete", !.source = s]]
    /\ UNCHANGED <<syncs, install, moduleState, signer, vendor, fixed, remote,
                   checkout, files, lock, loader, served, history>>

DeleteSync(o) ==
    /\ op[o].at = "delete_sync"
    /\ DeleteMarketplaceSourceSync(op[o].source)
    /\ Done(o)
    /\ UNCHANGED <<sources, install, moduleState, signer, vendor, fixed, remote,
                   checkout, files, lock, loader, served, history>>

\* TrustVendor, once it has read the keys: the signer, the vendor, the link.
TrustSigner(o) ==
    /\ op[o].at = "put_signer"
    /\ signer' = TRUE
    /\ Goto(o, "put_vendor")
    /\ UNCHANGED <<sources, syncs, install, moduleState, vendor, fixed, remote,
                   checkout, files, lock, loader, served, history>>

NameVendor(o) ==
    /\ op[o].at = "put_vendor"
    /\ PutTrustedVendor
    /\ Goto(o, "link_keys")
    /\ UNCHANGED <<sources, syncs, install, moduleState, signer, fixed, remote,
                   checkout, files, lock, loader, served, history>>

LinkKeys(o) ==
    /\ op[o].at = "link_keys"
    /\ ReplaceTrustedVendorKeys
    /\ Done(o)
    /\ UNCHANGED <<sources, syncs, install, moduleState, signer, fixed, remote,
                   checkout, files, lock, loader, served, history>>

-----------------------------------------------------------------------------
(* syncSourceRecord, under the lock of its source, and the scan after it. *)

StartSync(o, kind, s, force) ==
    /\ Requested(o, kind)
    /\ op' = [op EXCEPT ![o] = [Idle EXCEPT !.at = "lock", !.kind = kind,
                                            !.source = s, !.force = force]]
    /\ UNCHANGED <<database, fixed, remote, checkout, files, lock, loader,
                   served, history>>

\* Of an enabled source only, but for the import of keys.
BeginSync(o, s) == sources[s] = "enabled" /\ StartSync(o, "sync", s, FALSE)
BeginSearch(o, s) == sources[s] = "enabled" /\ StartSync(o, "search", s, FALSE)
BeginInstall(o, s) ==
    /\ sources[s] = "enabled"
    /\ \E force \in BOOLEAN : StartSync(o, "install", s, force)
BeginTrust(o, s) == Known(s) /\ StartSync(o, "trust", s, FALSE)

\* Update: of what is installed, unless its files were edited.
BeginUpdate(o) ==
    /\ Requested(o, "update")
    /\ Installed
    /\ Known(install.source)
    /\ root.exists => root.active # None /\ bundles[root.active] # None
    /\ \E force \in BOOLEAN :
        /\ root.exists /\ ActiveModified(install.hash) => force
        /\ op' = [op EXCEPT ![o] =
                      [Idle EXCEPT !.at = "lock", !.kind = "update",
                                   !.source = install.source,
                                   !.force = force]]
    /\ UNCHANGED <<database, fixed, remote, checkout, files, lock, loader,
                   served, history>>

\* Mutation: two requests sync one source at a time.
LockSource_Shared(o) ==
    /\ op[o].at = "lock"
    /\ Goto(o, "fetch")
    /\ UNCHANGED <<database, fixed, remote, checkout, files, lock, loader,
                   served, history>>

LockSource(o) ==
    LET s == op[o].source IN
    /\ op[o].at = "lock"
    /\ lock[Manager(o)][s] = None
    /\ lock' = [lock EXCEPT ![Manager(o)][s] = o]
    /\ Goto(o, "fetch")
    /\ UNCHANGED <<database, fixed, remote, checkout, files, loader, served,
                   history>>

\* Clone or set-url, fetch, checkout -f FETCH_HEAD, rev-parse.
Fetch(o) ==
    LET s == op[o].source IN
    /\ op[o].at = "fetch"
    /\ checkout' = [checkout EXCEPT ![s] = remote[s]]
    /\ op' = [op EXCEPT ![o].at = "record", ![o].label = <<s, remote[s]>>]
    /\ UNCHANGED <<database, fixed, remote, files, lock, loader, served,
                   history>>

\* ... of which any may fail, rev-parse after the checkout has moved.
FetchFails(o) ==
    LET s == op[o].source IN
    /\ op[o].at = "fetch"
    /\ checkout' \in {checkout, [checkout EXCEPT ![s] = remote[s]]}
    /\ op' = [op EXCEPT ![o].at = "record", ![o].label = None]
    /\ UNCHANGED <<database, fixed, remote, files, lock, loader, served,
                   history>>

AfterSync(kind) ==
    CASE kind = "sync" -> "done" [] kind = "trust" -> "read_keys"
      [] OTHER -> "label"

\* The sync record, and the deferred unlock.  A search goes on after an error.
RecordSync(o) ==
    LET s == op[o].source
        failed == op[o].label = None
        next == IF failed /\ op[o].kind # "search" THEN "done"
                ELSE AfterSync(op[o].kind)
    IN
    /\ op[o].at = "record"
    /\ PutMarketplaceSourceSync(s, [rev |-> op[o].label])
    /\ lock' = [lock EXCEPT ![Manager(o)][s] = None]
    /\ IF next = "done" THEN Done(o)
       ELSE op' = [op EXCEPT ![o].at = next, ![o].label = None]
    /\ UNCHANGED <<sources, install, moduleState, signer, vendor, fixed, remote,
                   checkout, files, loader, served, history>>

\* The keys file is in the checkout, or the import fails.
ReadKeys(o) ==
    /\ op[o].at = "read_keys"
    /\ Goto(o, "put_signer")
    /\ UNCHANGED <<database, fixed, remote, checkout, files, lock, loader,
                   served, history>>

\* scanSourceCandidates reads the revision first; an error leaves it empty.
ReadLabel(o) ==
    LET s == op[o].source IN
    /\ op[o].at = "label"
    /\ \E label \in {None, <<s, checkout[s]>>} :
        /\ label = None => checkout[s] = 0 \/ "faults" \in cast
        /\ label # None => checkout[s] # 0
        /\ op' = [op EXCEPT ![o].at = "scan", ![o].label = label]
    /\ UNCHANGED <<database, fixed, remote, checkout, files, lock, loader,
                   served, history>>

\* ... then the directories, with the state of their signatures.
Scan(o) ==
    LET s == op[o].source
        candidate == SignatureState(Pristine(<<s, checkout[s]>>))
    IN
    /\ op[o].at = "scan"
    /\ IF op[o].kind = "search" \/ checkout[s] = 0
       THEN Done(o)
       ELSE op' = [op EXCEPT ![o].at = "check", ![o].found = candidate]
    /\ UNCHANGED <<database, fixed, remote, checkout, files, lock, loader,
                   served, history>>

-----------------------------------------------------------------------------
(* Install and Update, after the candidate was found. *)

\* checkInstallCollision; "bundled": a bundled plugin has the plugin's id.
Collides(exists) == "bundled" \in cast \/ (~exists /\ (root.exists \/ install # None))

CheckCandidate(o) ==
    LET r == op[o]
        trusted == RequireSigned => r.found = "trusted"
        mayInstall == /\ install # None => install.source = r.source /\ r.force
                      /\ ~Collides(install # None)
    IN
    /\ r.at = "check"
    /\ IF trusted /\ (r.kind = "install" => mayInstall)
       THEN op' = [op EXCEPT ![o].at = "copy", ![o].found = None,
                             ![o].force = FALSE]
       ELSE Done(o)
    /\ UNCHANGED <<database, fixed, remote, checkout, files, lock, loader,
                   served, history>>

\* MaterializeBundle: the root, and a temporary copy of what is checked out now,
\* outside the lock: a sync may be moving the checkout meanwhile.
CopyBundle(o) ==
    LET s == op[o].source
        moving == \E q \in Operators : op[q].source = s /\ op[q].at = "fetch"
    IN
    /\ op[o].at = "copy"
    /\ root' = [root EXCEPT !.exists = TRUE]
    /\ staged' = staged \cup {o}
    /\ \E mixed \in {FALSE, moving} :
           op' = [op EXCEPT ![o].at = "place",
                            ![o].found = [rev |-> <<s, checkout[s]>>,
                                          edited |-> mixed]]
    /\ UNCHANGED <<database, fixed, remote, checkout, bundles, cache, lock,
                   loader, served, history>>

\* Mutation: replaces a bundle that is there.
PlaceBundle_Overwrite(o) ==
    LET name == BundleName(op[o].label, op[o].found) IN
    /\ op[o].at = "place"
    /\ o \in staged
    /\ bundles' = [bundles EXCEPT ![name] = op[o].found]
    /\ cache' = cache
    /\ NoteSwap
    /\ staged' = staged \ {o}
    /\ op' = [op EXCEPT ![o].at = "activate", ![o].label = name]
    /\ UNCHANGED <<database, fixed, remote, checkout, root, lock, served,
                   history>>

\* It becomes the bundle of its name, or is dropped for an equal one.
PlaceBundle(o) ==
    LET name == BundleName(op[o].label, op[o].found) IN
    /\ op[o].at = "place"
    /\ o \in staged
    /\ bundles[name] \in {None, op[o].found}
    /\ bundles' = [bundles EXCEPT ![name] = op[o].found]
    /\ cache' = cache
    /\ NoteSwap
    /\ staged' = staged \ {o}
    /\ op' = [op EXCEPT ![o].at = "activate", ![o].label = name]
    /\ UNCHANGED <<database, fixed, remote, checkout, root, lock, served,
                   history>>

\* The bundle exists with other contents, or the copy is gone with the root.
PlaceRefused(o) ==
    LET name == BundleName(op[o].label, op[o].found) IN
    /\ op[o].at = "place"
    /\ o \notin staged \/ bundles[name] \notin {None, op[o].found}
    /\ staged' = staged \ {o}
    /\ Done(o)
    /\ UNCHANGED <<database, fixed, remote, checkout, root, bundles, cache,
                   lock, loader, served, history>>

\* WriteState; the cached backends then fill the cache.
ActivateBundle(o) ==
    /\ op[o].at = "activate"
    /\ Resolvable(op[o].label)
    /\ root' = [exists |-> TRUE, active |-> op[o].label]
    /\ EnsureCached(op[o].label)
    /\ bundles' = bundles
    /\ NoteSwap
    /\ Goto(o, "put_install")
    /\ UNCHANGED <<database, fixed, remote, checkout, staged, lock, served,
                   history>>

ActivateRefused(o) ==
    /\ op[o].at = "activate"
    /\ ~Resolvable(op[o].label)
    /\ Done(o)
    /\ UNCHANGED <<database, fixed, remote, checkout, files, lock, loader,
                   served, history>>

\* The record of an update keeps the source of the row it read.
RecordInstall(o) ==
    LET r == op[o] IN
    /\ r.at = "put_install"
    /\ PutPluginInstall([source |-> r.source, bundle |-> r.label,
                         hash |-> r.found])
    /\ op' = [op EXCEPT ![o] = [Idle EXCEPT !.at = "disable",
                                            !.label = r.label]]
    /\ UNCHANGED <<sources, syncs, moduleState, signer, vendor, fixed, remote,
                   checkout, files, lock, loader, served, history>>

\* Mutation: leaves the module as it was.
DisableInstalled_Not(o) ==
    /\ op[o].at = "disable"
    /\ Done(o)
    /\ UNCHANGED <<database, fixed, remote, checkout, files, lock, loader,
                   served, history>>

DisableInstalled(o) ==
    /\ op[o].at = "disable"
    /\ moduleState' = "off"
    /\ disableFailed' = FALSE
    /\ Done(o)
    /\ UNCHANGED <<sources, syncs, install, signer, vendor, fixed, remote,
                   checkout, files, lock, loader, served, reviewed, torn,
                   evaded>>

-----------------------------------------------------------------------------
(* Uninstall. *)

BeginUninstall(o) ==
    /\ Requested(o, "uninstall")
    /\ Installed
    /\ op' = [op EXCEPT ![o] = [Idle EXCEPT !.at = "remove",
                                            !.kind = "uninstall"]]
    /\ UNCHANGED <<database, fixed, remote, checkout, files, lock, loader,
                   served, history>>

\* An install or an update is between two steps on the files.
Overlapped ==
    \E o \in Operators : op[o].at \in {"copy", "place", "activate", "put_install"}

\* RemovePluginRoot: the root, then what the other backends keep elsewhere.
RemoveRoot(o) ==
    LET local == backend = "local" IN
    /\ op[o].at = "remove"
    /\ root' = NoRoot
    /\ bundles' = IF local THEN [n \in Names |-> None] ELSE bundles
    /\ staged' = IF local THEN {} ELSE staged
    /\ torn' = (torn \/ Overlapped)
    /\ Goto(o, IF local THEN "delete_install" ELSE "remove_store")
    /\ UNCHANGED <<database, fixed, remote, checkout, cache, lock, loader,
                   served, reviewed, disableFailed, evaded>>

RemoveStored(o) ==
    /\ op[o].at = "remove_store"
    /\ bundles' = [n \in Names |-> None]
    /\ torn' = (torn \/ Overlapped)
    /\ Goto(o, "remove_cache")
    /\ UNCHANGED <<database, fixed, remote, checkout, root, cache, staged, lock,
                   loader, served, reviewed, disableFailed, evaded>>

RemoveCache(o) ==
    /\ op[o].at = "remove_cache"
    /\ cache' = [n \in Names |-> None]
    /\ Goto(o, "delete_install")
    /\ UNCHANGED <<database, fixed, remote, checkout, root, bundles, staged,
                   lock, loader, served, history>>

DeleteInstall(o) ==
    /\ op[o].at = "delete_install"
    /\ DeletePluginInstall
    /\ Goto(o, "delete_state")
    /\ UNCHANGED <<sources, syncs, moduleState, signer, vendor, fixed, remote,
                   checkout, files, lock, loader, served, history>>

DeleteState(o) ==
    /\ op[o].at = "delete_state"
    /\ moduleState' = "none"
    /\ Done(o)
    /\ UNCHANGED <<sources, syncs, install, signer, vendor, fixed, remote,
                   checkout, files, lock, loader, served, history>>

-----------------------------------------------------------------------------
(* A step of a request fails; what it staged is removed, its lock released. *)

RequestFails(o) ==
    LET r == op[o] IN
    /\ "faults" \in cast
    /\ r.at \notin {"idle", "lock", "fetch"}
    /\ Done(o)
    /\ staged' = staged \ {o}
    /\ lock' = IF r.at = "record"
               THEN [lock EXCEPT ![Manager(o)][r.source] = None] ELSE lock
    /\ disableFailed' = (\/ disableFailed
                         \/ /\ r.at = "disable"
                            /\ Installed /\ install.bundle = r.label)
    /\ torn' = (torn \/ r.at \in {"remove_store", "remove_cache",
                                  "delete_install"})
    /\ UNCHANGED <<database, fixed, remote, checkout, root, bundles, cache,
                   loader, served, reviewed, evaded>>

-----------------------------------------------------------------------------
(* The host loads the plugin: Host.LoadAll and loadOne. *)

\* resolveDiscoveredBundleDir: the bundle of the install row, if there is one.
ChosenBundle ==
    IF Installed /\ bundles[install.bundle] # None
    THEN install.bundle ELSE root.active

ResolveBundle ==
    /\ loader = Resting
    /\ root.exists
    /\ ChosenBundle # None
    /\ bundles[ChosenBundle] # None
    /\ EnsureCached(ChosenBundle)
    /\ loader' = [Resting EXCEPT !.at = "verify", !.dir = ChosenBundle]
    /\ UNCHANGED <<database, fixed, remote, checkout, root, bundles, staged,
                   lock, op, served, history>>

\* A signature in the bundle must hold; there must be one in production.
Admissible(contents) ==
    /\ contents # None
    /\ \/ SignatureState(contents) = "trusted"
       \/ SignatureState(contents) = "unsigned" /\ ~RequireSigned

VerifyBundle ==
    /\ loader.at = "verify"
    /\ Admissible(LoadDir(loader.dir))
    /\ loader' = [loader EXCEPT !.at = "hash", !.first = LoadDir(loader.dir)]
    /\ UNCHANGED <<database, fixed, remote, checkout, files, lock, op, served,
                   history>>

HashBundle ==
    /\ loader.at = "hash"
    /\ LoadDir(loader.dir) # None
    /\ loader' = [loader EXCEPT !.at = "build", !.hash = LoadDir(loader.dir)]
    /\ UNCHANGED <<database, fixed, remote, checkout, files, lock, op, served,
                   history>>

\* The sources are read while they are compiled and run.
BuildGeneration ==
    /\ loader.at = "build"
    /\ LoadDir(loader.dir) # None
    /\ loader' = [loader EXCEPT !.at = "recheck", !.code = LoadDir(loader.dir)]
    /\ UNCHANGED <<database, fixed, remote, checkout, files, lock, op, served,
                   history>>

\* The bundle must hash as before, ...
Recheck ==
    /\ loader.at = "recheck"
    /\ LoadDir(loader.dir) = loader.hash
    /\ loader' = [loader EXCEPT !.at = "reverify"]
    /\ UNCHANGED <<database, fixed, remote, checkout, files, lock, op, served,
                   history>>

Serve ==
    /\ served' = loader.code
    /\ evaded' = loader.swapped
    /\ loader' = Resting
    /\ UNCHANGED <<database, fixed, remote, checkout, files, lock, op, reviewed,
                   disableFailed, torn>>

\* Mutation: does not look at the signature again.
VerifyAgain_Skipped == loader.at = "reverify" /\ Serve

\* ... and the signature that was read first, if there was one, hold of it.
VerifyAgain ==
    /\ loader.at = "reverify"
    /\ loader.first.rev \in Signed => LoadDir(loader.dir) = loader.first
    /\ Serve

LoadFails ==
    /\ loader.at # "idle"
    /\ loader' = Resting
    /\ UNCHANGED <<database, fixed, remote, checkout, files, lock, op, served,
                   history>>

-----------------------------------------------------------------------------
SyncStep(o) ==
    \/ \E s \in Sources :
           BeginSync(o, s) \/ BeginSearch(o, s) \/ BeginInstall(o, s) \/ BeginTrust(o, s)
    \/ LockSource(o) \/ Fetch(o) \/ FetchFails(o) \/ RecordSync(o)
    \/ ReadLabel(o) \/ Scan(o)

TrustStep(o) == ReadKeys(o) \/ TrustSigner(o) \/ NameVendor(o) \/ LinkKeys(o)

InstallStep(o) ==
    \/ BeginUpdate(o) \/ CheckCandidate(o) \/ CopyBundle(o)
    \/ PlaceBundle(o) \/ PlaceRefused(o)
    \/ ActivateBundle(o) \/ ActivateRefused(o)
    \/ RecordInstall(o) \/ DisableInstalled(o)

UninstallStep(o) ==
    \/ BeginUninstall(o) \/ RemoveRoot(o) \/ RemoveStored(o) \/ RemoveCache(o)
    \/ DeleteInstall(o) \/ DeleteState(o)

LoadStep ==
    \/ ResolveBundle \/ VerifyBundle \/ HashBundle \/ BuildGeneration
    \/ Recheck \/ VerifyAgain \/ LoadFails

Next ==
    \/ \E o \in Operators \cap cast :
           \/ SyncStep(o)
           \/ TrustStep(o)
           \/ InstallStep(o)
           \/ UninstallStep(o)
           \/ DeleteSync(o)
           \/ RequestFails(o)
           \/ \E s \in Sources : UpsertSource(o, s) \/ DeleteSource(o, s)
    \/ \E s \in Sources : Commit(s)
    \/ "editor" \in cast /\ \E n \in Names : EditBundle(n)
    \/ "dashboard" \in cast /\ Enable
    \/ "host" \in cast /\ LoadStep

Spec == Init /\ [][Next]_vars

-----------------------------------------------------------------------------
(* Properties. *)

Stages == {"idle", "delete_sync", "lock", "fetch", "record", "read_keys",
           "put_signer", "put_vendor", "link_keys", "label", "scan", "check",
           "copy", "place", "activate", "put_install", "disable", "remove",
           "remove_store", "remove_cache", "delete_install", "delete_state"}
InstallRows == [source : Sources, bundle : Names, hash : Contents]

\* Every variable has its type, and the lock of a source is held exactly by the
\* request that syncs it.
MarketTypeOK ==
    /\ sources \in [Sources -> {"absent", "enabled", "disabled"}]
    /\ \A s \in Sources : syncs[s] = None \/ syncs[s].rev \in Revisions \cup {None}
    /\ install \in InstallRows \cup {None}
    /\ moduleState \in {"none", "off", "on"}
    /\ signer \in BOOLEAN /\ vendor \in {"none", "named", "linked"}
    /\ checkout \in [Sources -> 0..MaxCommits]
    /\ root \in [exists : BOOLEAN, active : Names \cup {None}]
    /\ bundles \in [Names -> Contents \cup {None}]
    /\ cache \in [Names -> Contents \cup {None}]
    /\ \A o \in Operators : op[o].at \in Stages
    /\ loader.at \in {"idle", "verify", "hash", "build", "recheck", "reverify"}
    /\ served \in Contents \cup {None}
    /\ \A s \in Sources, o \in Operators :
           lock[Manager(o)][s] = o <=>
                           /\ op[o].source = s
                           /\ op[o].at \in {"fetch", "record"}

Uninstalling == {"remove_store", "remove_cache", "delete_install"}

\* The row of the installed plugin names a bundle that is there, and records
\* the hash the bundle had before anybody edited it - although the checkout is
\* copied outside its lock.  Only an uninstall that overlaps the installation,
\* or stops halfway, leaves a row without files.
RowHasBundle ==
    install = None \/ torn \/ (\E o \in Operators : op[o].at \in Uninstalling)
    \/ /\ bundles[install.bundle] # None
       /\ bundles[install.bundle].rev = install.hash.rev

\* What the host serves was read from a bundle whose signature, if it has one,
\* held; in production it has one.  The check an install makes is of another
\* copy: it is the load's own checks, before and after, that this rests on,
\* whatever edits, installs and removals come between them.  One kind of change
\* escapes them and is excepted: files that are not the verified ones while the
\* code is read and are so again for the last check, because somebody put them
\* back, or because the plugin was removed and installed again.
ServedIsVerified ==
    served # None /\ ~evaded =>
        /\ served.rev \in Signed => ~served.edited
        /\ RequireSigned => served.rev \in Signed

\* An enabled module runs the bundle it was enabled with: whatever installs or
\* updates it in the meantime switches it off, next after it wrote the row -
\* unless that write, the last of its statements, failed.
EnabledWasReviewed ==
    \/ moduleState # "on"
    \/ install = None
    \/ install.bundle = reviewed
    \/ disableFailed
    \/ \E o \in Operators : op[o].at = "disable" /\ op[o].label = install.bundle

\* Requests of one process that sync one source at the same time never set its
\* recorded revision back to an older commit.  (A command line that runs beside
\* the server has a lock of its own, and may.)
SyncRecordMovesForward ==
    [][cast \cap CommandLine = {} => \A s \in Sources :
           syncs[s] # None /\ syncs'[s] # None =>
               (syncs[s].rev # None /\ syncs'[s].rev # None =>
                    syncs'[s].rev[2] >= syncs[s].rev[2])]_vars
=============================================================================
