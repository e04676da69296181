----------------------------- MODULE ShadowUpdate -----------------------------
(***************************************************************************)
(* Updating a VPS: scripts/deploy/update-vps-shadow.sh fast-forwards the   *)
(* checkout, installs its packages, proves it with the full shadow         *)
(* self-check and then runs install-vps-full-shadow.sh, which copies the   *)
(* review hook, replaces the systemd drop-ins and pins the commit the      *)
(* Hermes wrapper accepts.                                                 *)
(*                                                                         *)
(* Both are shell scripts under set -e without a lock: any command may     *)
(* fail and end the update, and the process may be killed between two of   *)
(* them.  Meanwhile upstream gains commits, somebody pulls or edits        *)
(* tracked files by hand, systemd reloads, and the service runs the hook   *)
(* (external: the wrapper, which refuses a checkout it is not pinned to).  *)
(*                                                                         *)
(* Abstracted: a commit is its number on a linear branch.  Left out: the   *)
(* branch name, missing commands, the environment file's other settings.   *)
(***************************************************************************)
EXTENDS Naturals, FiniteSets

CONSTANTS
  Updaters,     \* processes of the updater
  Options,      \* the flags an update may be started with
  Broken,       \* commits the self-check fails on
  MaxCommit,    \* bound: commits upstream
  MaxKills,     \* bound: updates that die
  MaxHands      \* bound: pulls and edits by hand

\* The --skip-... flags; a dry run prints every command and runs none.
Flags == [pull : BOOLEAN, ci : BOOLEAN, proof : BOOLEAN, install : BOOLEAN]

ASSUME ShadowUpdateAssumption ==
  /\ Options \subseteq Flags /\ Broken \subseteq Nat
  /\ MaxCommit \in Nat \ {0} /\ MaxKills \in Nat /\ MaxHands \in Nat

VARIABLES
  remote,     \* the newest commit upstream
  tree,       \* the checkout: its HEAD, origin/main, tracked changes, packages
  host,       \* hook: the commit it was copied from; pin: the expected commit;
              \*   dropins on disk, and those systemd has loaded
  update,     \* per process: where it is, its flags, the commit it read
  bounds,     \* kills and hands so far
  \* History variables: they record what happened and guard nothing.
  proven,     \* commits the self-check passed on
  served,     \* what ran when the wrapper let the hook run
  completed   \* what was in place when an update ended with "ok"

ghosts == <<proven, served, completed>>
updateVars == <<remote, tree, host, update, bounds, ghosts>>

NoFlags == [pull |-> TRUE, ci |-> TRUE, proof |-> TRUE, install |-> TRUE]
UpdateOff == [pc |-> "off", flags |-> NoFlags, expected |-> 0]

\* An older install: the first commit, its hook in a drop-in of the old name,
\* pinned by hand or not at all.
UpdateInit ==
  /\ remote = 1
  /\ tree = [head |-> 1, fetched |-> 1, dirty |-> FALSE, deps |-> 1]
  /\ \E pin \in {0, 1} :
       host = [hook |-> 1, pin |-> pin, dropins |-> {"legacy"}, loaded |-> {"legacy"}]
  /\ update = [u \in Updaters |-> UpdateOff]
  /\ bounds = [kills |-> 0, hands |-> 0]
  /\ proven = {1} /\ served = {} /\ completed = {}

Goes(u, pc) == update' = [update EXCEPT ![u].pc = pc]
Exits(u) == update' = [update EXCEPT ![u] = UpdateOff]
Flag(u) == update[u].flags

-----------------------------------------------------------------------------
(* update-vps-shadow.sh                                                    *)

\* ensure_clean_tracked_tree: tracked changes stop it before it began.
StartUpdate(u) ==
  /\ update[u].pc = "off" /\ ~tree.dirty
  /\ \E flags \in Options :
       update' = [update EXCEPT ![u] = [UpdateOff EXCEPT !.pc = "fetch", !.flags = flags]]
  /\ UNCHANGED <<remote, tree, host, bounds, ghosts>>

Fetch(u) ==
  /\ update[u].pc = "fetch"
  /\ IF Flag(u).pull THEN tree' = [tree EXCEPT !.fetched = remote] /\ Goes(u, "merge")
     ELSE UNCHANGED tree /\ Goes(u, "ci")
  /\ UNCHANGED <<remote, host, bounds, ghosts>>

\* git merge --ff-only; with tracked changes git itself may refuse.
Merge(u) ==
  /\ update[u].pc = "merge"
  /\ \/ tree' = [tree EXCEPT !.head = tree.fetched] /\ Goes(u, "ci")
     \/ tree.dirty /\ UNCHANGED tree /\ Exits(u)
  /\ UNCHANGED <<remote, host, bounds, ghosts>>

\* npm ci removes what is installed before it installs.
BeginCi(u) ==
  /\ update[u].pc = "ci"
  /\ IF Flag(u).ci THEN tree' = [tree EXCEPT !.deps = 0] /\ Goes(u, "packages")
     ELSE UNCHANGED tree /\ Goes(u, "proof")
  /\ UNCHANGED <<remote, host, bounds, ghosts>>

EndCi(u) ==
  /\ update[u].pc = "packages"
  /\ tree' = [tree EXCEPT !.deps = tree.head] /\ Goes(u, "proof")
  /\ UNCHANGED <<remote, host, bounds, ghosts>>

Passes == tree.head \notin Broken /\ tree.deps # 0

\* Mutant: a failed self-check is reported and the update goes on.
FullShadowMutant(u) ==
  /\ update[u].pc = "proof"
  /\ proven' = IF Flag(u).proof /\ Passes THEN proven \cup {tree.head} ELSE proven
  /\ Goes(u, IF Flag(u).install THEN "hook" ELSE "clean")
  /\ UNCHANGED <<remote, tree, host, bounds, served, completed>>

\* npm run deploy:full-shadow, which exits with 1 when a check fails.
FullShadow(u) ==
  /\ update[u].pc = "proof"
  /\ IF Flag(u).proof /\ ~Passes THEN Exits(u)
     ELSE Goes(u, IF Flag(u).install THEN "hook" ELSE "clean")
  /\ proven' = IF Flag(u).proof /\ Passes THEN proven \cup {tree.head} ELSE proven
  /\ UNCHANGED <<remote, tree, host, bounds, served, completed>>

InPlace == [head |-> tree.head, deps |-> tree.deps, hook |-> host.hook, pin |-> host.pin]

\* The tree must be clean again, then the update says "ok".
FinishUpdate(u) ==
  /\ update[u].pc = "clean" /\ Exits(u)
  /\ completed' = IF ~tree.dirty /\ Flag(u).install /\ Flag(u).ci
                  THEN completed \cup {InPlace} ELSE completed
  /\ UNCHANGED <<remote, tree, host, bounds, proven, served>>

-----------------------------------------------------------------------------
(* install-vps-full-shadow.sh                                              *)

\* Mutant: a hook that is there already is left alone.
InstallHookMutant(u) ==
  /\ update[u].pc = "hook" /\ Goes(u, "dropin")
  /\ UNCHANGED <<remote, tree, host, bounds, ghosts>>

InstallHook(u) ==
  /\ update[u].pc = "hook" /\ Goes(u, "dropin")
  /\ host' = [host EXCEPT !.hook = tree.head]
  /\ UNCHANGED <<remote, tree, bounds, ghosts>>

InstallDropin(u) ==
  /\ update[u].pc = "dropin" /\ Goes(u, "legacy")
  /\ host' = [host EXCEPT !.dropins = @ \cup {"current"}]
  /\ UNCHANGED <<remote, tree, bounds, ghosts>>

RemoveLegacyDropins(u) ==
  /\ update[u].pc = "legacy" /\ Goes(u, "rev-parse")
  /\ host' = [host EXCEPT !.dropins = @ \ {"legacy"}]
  /\ UNCHANGED <<remote, tree, bounds, ghosts>>

\* refresh_expected_commit_pin reads HEAD, then rewrites the file.
ReadExpectedCommit(u) ==
  /\ update[u].pc = "rev-parse"
  /\ update' = [update EXCEPT ![u].pc = "pin", ![u].expected = tree.head]
  /\ UNCHANGED <<remote, tree, host, bounds, ghosts>>

\* Mutant: an environment file that has a pin already keeps it.
WritePinMutant(u) ==
  /\ update[u].pc = "pin" /\ Goes(u, "reload")
  /\ host' = [host EXCEPT !.pin = IF @ = 0 THEN update[u].expected ELSE @]
  /\ UNCHANGED <<remote, tree, bounds, ghosts>>

WritePin(u) ==
  /\ update[u].pc = "pin" /\ Goes(u, "reload")
  /\ host' = [host EXCEPT !.pin = update[u].expected]
  /\ UNCHANGED <<remote, tree, bounds, ghosts>>

DaemonReload(u) ==
  /\ update[u].pc = "reload" /\ Goes(u, "clean")
  /\ host' = [host EXCEPT !.loaded = host.dropins]
  /\ UNCHANGED <<remote, tree, bounds, ghosts>>

-----------------------------------------------------------------------------
(* What goes on beside an update.                                          *)

\* Killed, or a command failed for a reason of its own.
Kill(u) ==
  /\ update[u].pc # "off" /\ bounds.kills < MaxKills /\ Exits(u)
  /\ bounds' = [bounds EXCEPT !.kills = @ + 1]
  /\ UNCHANGED <<remote, tree, host, ghosts>>

Push ==
  /\ remote < MaxCommit /\ remote' = remote + 1
  /\ UNCHANGED <<tree, host, update, bounds, ghosts>>

\* By hand: a pull while no update runs, or an edit, or its end, at any time.
ByHand ==
  /\ bounds.hands < MaxHands /\ bounds' = [bounds EXCEPT !.hands = @ + 1]
  /\ \/ /\ \A u \in Updaters : update[u].pc = "off"
        /\ tree' = [tree EXCEPT !.fetched = remote, !.head = remote]
     \/ tree' = [tree EXCEPT !.dirty = ~@]
  /\ UNCHANGED <<remote, host, update, ghosts>>

ExternalReload ==
  /\ host' = [host EXCEPT !.loaded = host.dropins]
  /\ UNCHANGED <<remote, tree, update, bounds, ghosts>>

\* The service ends and the hook runs: the wrapper refuses another commit than
\* the one it is pinned to, if it is pinned.
ServiceRunsHook ==
  /\ host.pin \in {0, tree.head}
  /\ served' = served \cup {[head |-> tree.head, hook |-> host.hook, pin |-> host.pin]}
  /\ UNCHANGED <<remote, tree, host, update, bounds, proven, completed>>

UpdateNext ==
  \/ \E u \in Updaters :
       \/ StartUpdate(u) \/ Fetch(u) \/ Merge(u) \/ BeginCi(u) \/ EndCi(u)
       \/ FullShadow(u) \/ FinishUpdate(u)
       \/ InstallHook(u) \/ InstallDropin(u) \/ RemoveLegacyDropins(u)
       \/ ReadExpectedCommit(u) \/ WritePin(u) \/ DaemonReload(u)
       \/ Kill(u)
  \/ Push \/ ByHand \/ ExternalReload \/ ServiceRunsHook

UpdateSpec == UpdateInit /\ [][UpdateNext]_updateVars

-----------------------------------------------------------------------------
(* Properties.                                                             *)

Commits == 0..MaxCommit

\* Every part keeps its shape, the checkout is never ahead of what it fetched,
\* and some drop-in is there at every step of an install.
UpdateTypeOK ==
  /\ remote \in Commits
  /\ tree \in [head : Commits, fetched : Commits, dirty : BOOLEAN, deps : Commits]
  /\ tree.head <= tree.fetched /\ tree.fetched <= remote
  /\ host.hook \in Commits /\ host.pin \in Commits
  /\ host.dropins \in (SUBSET {"legacy", "current"}) \ {{}}
  /\ host.loaded \in (SUBSET {"legacy", "current"}) \ {{}}
  /\ \A u \in Updaters : update[u].flags \in Flags /\ update[u].expected \in Commits

\* The wrapper is only ever pinned to a commit the self-check has passed on
\* (test/vps-shadow-deploy.test.mjs: the proof runs before the refresh),
\* wherever updates die and whatever upstream does meanwhile; unless an update
\* was asked to skip the check.
PinnedIsProven == host.pin # 0 => host.pin \in proven

\* A hook that runs under a pin comes from the very commit that is pinned and
\* checked out: the hook is copied before the pin is written, so an install
\* that dies half-way leaves one that is refused, never a mixed one.
ServedIsOneCommit ==
  \A s \in served : s.pin # 0 => s.hook = s.head

\* An update that ends with "ok" leaves checkout, packages, hook and pin at one
\* commit (changelog v0.27.2: "keeps the Hermes wrapper pin aligned").
CompletedIsAligned ==
  \A d \in completed : d.pin = d.head /\ d.hook = d.head /\ d.deps = d.head

\* Once an update has ended with "ok" the hook is in one drop-in, on disk and in
\* systemd, so one service run does not run it twice (changelog v0.27.3).
HookRunsOnce ==
  completed # {} /\ (\A u \in Updaters : update[u].pc = "off") =>
    Cardinality(host.dropins) = 1 /\ Cardinality(host.loaded) = 1
===============================================================================
