---------------------------- MODULE PackageDelivery ----------------------------
(***************************************************************************)
(* scripts/package-delivery/local-package-links.ts, the links of a         *)
(* checkout to local packages with their record, on which CI refuses a     *)
(* checkout that has any; and artifact-downloader.ts, the cache of         *)
(* artifacts that are named by their digest.                               *)
(*                                                                         *)
(* bun, git and the network are external.  A file of the cache is absent,  *)
(* good, or bad: torn, or of another digest.  Bounds: MaxCommands,         *)
(* MaxFaults failing calls, MaxCrashes.                                    *)
(***************************************************************************)
EXTENDS Naturals, FiniteSets

CONSTANTS
  Packages, Callers,
  Together,    \* whether commands on links run at once
  Late,        \* whether a command may fail after it has linked
  MaxCommands, MaxFaults, MaxCrashes

VARIABLES
  subject,     \* what a behaviour is about: "links" or "cache"
  linked,      \* packages that node_modules takes from a local producer
  record,      \* .forgeax/local-package-links.json
  command,     \* per caller
  file,        \* the artifact in the cache
  fetch,       \* per caller
  counts

linkVars == <<linked, record, command>>
fetchVars == <<file, fetch>>
vars == <<subject, linkVars, fetchVars, counts, subject>>

Count(what, max) == counts[what] < max /\ counts' = [counts EXCEPT ![what] = @ + 1]
Busy(c) == command[c].pc # "idle"
Links(c, pc) == command' = [command EXCEPT ![c].pc = pc]
Fetches(c, pc) == fetch' = [fetch EXCEPT ![c].pc = pc]
Loading(c) == fetch[c].pc \notin {"idle", "returned", "failed", "dead"}

\* Types; a caller that has returned a path was not stopped.
TypeOK ==
  /\ linked \subseteq Packages /\ record \subseteq Packages /\ file \in {"none", "good", "bad"}
  /\ \A c \in Callers : command[c].read \subseteq Packages /\ fetch[c].stands \in BOOLEAN

-----------------------------------------------------------------------------
(* local-package-links.ts *)

\* linkLocalPackage, unlinkLocalPackage: the protected files are read first.
Command(c) ==
  /\ ~Busy(c) /\ (Together \/ \A d \in Callers : ~Busy(d))
  /\ subject = "links" /\ Count("commands", MaxCommands)
  /\ \E p \in Packages, verb \in {"link", "unlink"} :
       command' = [command EXCEPT ![c] = [pc |-> verb, verb |-> verb, on |-> {p}, read |-> {}]]
  /\ UNCHANGED <<linked, record, fetchVars, subject>>

\* bun link needs the producer's build; what has failed has linked nothing.
Link(c) ==
  /\ command[c].pc = "link"
  /\ \/ linked' = linked \cup command[c].on /\ Links(c, "verify") /\ UNCHANGED counts
     \/ Count("faults", MaxFaults) /\ Links(c, "idle") /\ UNCHANGED linked
  /\ UNCHANGED <<record, fetchVars, subject>>

\* A mistake the properties would catch: an unlink that fails leaves no record.
UnlinkFirst(c) ==
  /\ command[c].pc \in {"unlink", "install"}
  /\ \/ /\ command[c].pc = "unlink" /\ Links(c, "install") /\ UNCHANGED <<counts, linked>>
        /\ record' = record \ command[c].on
     \/ /\ command[c].pc = "install" /\ Links(c, "verify") /\ UNCHANGED <<counts, record>>
        /\ linked' = linked \ command[c].on
     \/ Count("faults", MaxFaults) /\ Links(c, "idle") /\ UNCHANGED <<linked, record>>
  /\ UNCHANGED <<fetchVars, subject>>

\* bun unlink, then bun install, which may put others back on the registry.
Unlink(c) ==
  /\ command[c].pc \in {"unlink", "install"}
  /\ \/ /\ command[c].pc = "unlink" /\ Links(c, "install") /\ UNCHANGED counts
        /\ linked' = linked \ command[c].on
     \/ /\ command[c].pc = "install" /\ Links(c, "verify") /\ UNCHANGED counts
        /\ linked' \in {linked, {}}
     \/ Count("faults", MaxFaults) /\ Links(c, "idle") /\ UNCHANGED linked
  /\ UNCHANGED <<record, fetchVars, subject>>

\* The producer's HEAD and the protected files are verified, and the record read.
Verify(c) ==
  /\ command[c].pc = "verify"
  /\ \/ command' = [command EXCEPT ![c].pc = "write", ![c].read = record] /\ UNCHANGED counts
     \/ Late /\ Count("faults", MaxFaults) /\ Links(c, "idle")
  /\ UNCHANGED <<linked, record, fetchVars, subject>>

\* writeLocalPackageLinkState: a file beside it is renamed over the record.
Write(c) ==
  /\ command[c].pc = "write" /\ Links(c, "idle")
  /\ record' = IF command[c].verb = "link" THEN command[c].read \cup command[c].on
               ELSE command[c].read \ command[c].on
  /\ UNCHANGED <<linked, fetchVars, counts, subject>>

\* localPackageLinkCiErrorFromRoot
CiPasses == record = {}

-----------------------------------------------------------------------------
(* artifact-downloader.ts *)

\* A mistake the properties would catch: the file is taken for what its name says.
TakeByName(c) ==
  /\ ~Loading(c) /\ subject = "cache" /\ Count("fetches", MaxCommands)
  /\ fetch' = [fetch EXCEPT ![c].pc = IF file # "none" THEN "returned" ELSE "load", ![c].stands = TRUE]
  /\ UNCHANGED <<subject, linkVars, file>>

\* cachedArtifactValid: size and digest of the file are compared.
Take(c) ==
  /\ ~Loading(c) /\ subject = "cache" /\ Count("fetches", MaxCommands)
  /\ fetch' = [fetch EXCEPT ![c].pc = IF file = "good" THEN "returned" ELSE "load", ![c].stands = TRUE]
  /\ UNCHANGED <<subject, linkVars, file>>

\* The download goes to a name of its own; its size and digest are compared.
Load(c) ==
  /\ fetch[c].pc = "load"
  /\ \/ Fetches(c, "clear") /\ UNCHANGED counts
     \/ Count("faults", MaxFaults) /\ Fetches(c, "failed")
  /\ UNCHANGED <<subject, linkVars, file>>

\* rm, then rename.
Place(c) ==
  /\ \/ fetch[c].pc = "clear" /\ file' = "none" /\ Fetches(c, "place")
     \/ fetch[c].pc = "place" /\ file' = "good" /\ Fetches(c, "returned")
  /\ UNCHANGED <<subject, linkVars, counts>>

\* A download is killed; what others were told does not bind them any more.
Kill(c) ==
  /\ Loading(c) /\ Count("crashes", MaxCrashes)
  /\ fetch' = [d \in Callers |-> IF d = c THEN [fetch[c] EXCEPT !.pc = "dead"]
                                 ELSE [fetch[d] EXCEPT !.stands = FALSE]]
  /\ UNCHANGED <<subject, linkVars, file>>

\* What a former version of the program, or a disk, has left in the cache.
Init ==
  /\ subject \in {"links", "cache"} /\ linked = {} /\ record = {}
  /\ file \in IF subject = "cache" THEN {"none", "bad"} ELSE {"none"}
  /\ command = [c \in Callers |-> [pc |-> "idle", verb |-> "link", on |-> {}, read |-> {}]]
  /\ fetch = [c \in Callers |-> [pc |-> "idle", stands |-> TRUE]]
  /\ counts = [commands |-> 0, fetches |-> 0, faults |-> 0, crashes |-> 0]

Next == \E c \in Callers :
  \/ Command(c) \/ Link(c) \/ Unlink(c) \/ Verify(c) \/ Write(c)
  \/ Take(c) \/ Load(c) \/ Place(c) \/ Kill(c)

Spec == Init /\ [][Next]_vars

-----------------------------------------------------------------------------

\* local-package-links.ts:46-52: a checkout that CI lets pass has no local package
\* in it, whatever commands failed.
CiSeesLinks == (\A c \in Callers : ~Busy(c)) /\ CiPasses => linked = {}

\* artifact-downloader.ts: a path that was returned holds the artifact when no other
\* download is under way, also after downloads at once, unless one was killed.
FetchedTrue ==
  (\A c \in Callers : ~Loading(c)) =>
    \A c \in Callers : fetch[c].pc = "returned" /\ fetch[c].stands => file = "good"

\* A path that was returned holds the artifact.
FetchedStays == \A c \in Callers : fetch[c].pc = "returned" => file = "good"
=============================================================================
