----------------------------- MODULE PreviewBuild -----------------------------
(***************************************************************************)
(* scripts/game-runtime/preview-build.ts, preview-contract.ts and          *)
(* preview-serve.ts: the build of a game into an output directory named by *)
(* the hash of the game's files, its reuse by later builds, and the server *)
(* of an output.                                                           *)
(*                                                                         *)
(* The game's content is one of Contents; equal contents have equal        *)
(* hashes, equal files of an output equal digests.  An output is the       *)
(* content that its code and its pack of assets were made of, whether all  *)
(* of its files are there, and its manifest.  A build may die after any    *)
(* step and while it removes an output.  Bounds: MaxEdits of the game,     *)
(* MaxCrashes, MaxRuns per builder.                                        *)
(***************************************************************************)
EXTENDS Naturals, FiniteSets

CONSTANTS
  Builders, Contents,
  Assets(_),   \* the GUIDs that a content declares
  Together,    \* whether builders run at once: the set of what a behaviour may have
  Edits,       \* the game may be edited while one runs
  MaxEdits, MaxCrashes, MaxRuns

\* The content of what is not there; a manifest is absent, torn or whole, and then
\* has the digest of a payload.
Nothing == "nothing"
NoPayload == [code |-> Nothing, pack |-> Nothing]
NoManifest == [state |-> "none", digest |-> NoPayload]
Torn == [state |-> "torn", digest |-> NoPayload]
ManifestOf(payload) == [state |-> "whole", digest |-> payload]
NoOutput == [there |-> FALSE, code |-> Nothing, pack |-> Nothing, whole |-> TRUE, manifest |-> NoManifest]

VARIABLES
  together,
  game,      \* the content of the game
  output,    \* per hash, that is per content: the output directory
  builder,   \* per builder
  server,    \* the server of an output, and what it validated
  counts

vars == <<together, game, output, builder, server, counts>>

Running(b) == builder[b].pc \notin {"idle", "done", "failed", "dead"}
Goto(b, pc) == builder' = [builder EXCEPT ![b].pc = pc]
Count(what, max) == counts[what] < max /\ counts' = [counts EXCEPT ![what] = @ + 1]
Payload(o) == [code |-> o.code, pack |-> o.pack]

\* Types; a builder that runs has a hash.
TypeOK ==
  /\ game \in Contents /\ server.of \in Contents \cup {Nothing}
  /\ \A c \in Contents : output[c].code \in Contents \cup {Nothing} /\ output[c].whole \in BOOLEAN
  /\ \A b \in Builders : Running(b) => builder[b].hash \in Contents

-----------------------------------------------------------------------------
(* preview-contract.ts *)

\* validatePreviewPack: the index and what it names are there, and every GUID that
\* the game declares now is in it.
PackValid(o) == o.whole /\ Assets(game) \subseteq Assets(o.pack)

\* readPreviewManifest, previewPayloadDigest
DigestMatches(o) ==
  o.whole /\ o.manifest = ManifestOf(Payload(o))

\* A mistake the properties would catch: the payload is not digested again.
ManifestOnly(o) == o.there /\ o.manifest.state = "whole" /\ Assets(game) \subseteq Assets(o.pack)

\* validatePreviewOutput
OutputValid(o) == o.there /\ PackValid(o) /\ DigestMatches(o)

-----------------------------------------------------------------------------
(* preview-build.ts *)

Start(b) ==
  /\ ~Running(b) /\ builder[b].runs < MaxRuns
  /\ together \/ \A d \in Builders : ~Running(d)
  /\ builder' = [builder EXCEPT ![b] = [pc |-> "look", hash |-> game, code |-> Nothing, pack |-> Nothing,
                                        stands |-> TRUE, runs |-> @.runs + 1]]
  /\ UNCHANGED <<together, game, output, server, counts>>

\* A valid output is reused; an invalid one with a manifest is discarded.
Look(b) ==
  /\ builder[b].pc = "look"
  /\ LET o == output[builder[b].hash] IN
       IF ~o.there \/ o.manifest = NoManifest THEN Goto(b, "code")
       ELSE IF OutputValid(o) THEN Goto(b, "done") ELSE Goto(b, "discard")
  /\ UNCHANGED <<together, game, output, server, counts>>

\* vite.build, into a directory of its own: the code and the assets are read one
\* after the other.
BuildCode(b) ==
  /\ builder[b].pc = "code"
  /\ builder' = [builder EXCEPT ![b].pc = "pack", ![b].code = game]
  /\ UNCHANGED <<together, game, output, server, counts>>

BuildPack(b) ==
  /\ builder[b].pc = "pack"
  /\ builder' = [builder EXCEPT ![b].pc = "judge", ![b].pack = game]
  /\ UNCHANGED <<together, game, output, server, counts>>

\* The pack is validated and the payload digested.
Judge(b) ==
  /\ builder[b].pc = "judge"
  /\ Goto(b, IF Assets(game) \subseteq Assets(builder[b].pack) THEN "remove" ELSE "failed")
  /\ UNCHANGED <<together, game, output, server, counts>>

\* A mistake the properties would catch: an output is renamed over another.
RemoveNothing(b) ==
  /\ builder[b].pc \in {"discard", "remove"}
  /\ Goto(b, IF builder[b].pc = "discard" THEN "code" ELSE "rename")
  /\ UNCHANGED <<together, game, output, server, counts>>

\* rm -r of the output directory: files go one after the other, the manifest among
\* them.
Remove(b) ==
  LET h == builder[b].hash IN
  /\ builder[b].pc \in {"discard", "remove"}
  /\ \/ /\ output[h].there
        /\ \/ output[h].whole /\ output' = [output EXCEPT ![h].whole = FALSE]
           \/ output[h].manifest # NoManifest /\ output' = [output EXCEPT ![h].manifest = NoManifest]
        /\ UNCHANGED builder
     \/ output' = [output EXCEPT ![h] = NoOutput]
        /\ Goto(b, IF builder[b].pc = "discard" THEN "code" ELSE "rename")
  /\ UNCHANGED <<together, game, server, counts>>

\* A rename needs a name that is free, or the directory it replaces empty.
Rename(b) ==
  LET h == builder[b].hash IN
  /\ builder[b].pc = "rename"
  /\ IF output[h].there THEN Goto(b, "failed") /\ UNCHANGED output
     ELSE /\ output' = [output EXCEPT ![h] =
                [there |-> TRUE, code |-> builder[b].code, pack |-> builder[b].pack,
                 whole |-> TRUE, manifest |-> NoManifest]]
          /\ Goto(b, "manifest")
  /\ UNCHANGED <<together, game, server, counts>>

\* writeFileSync creates the manifest, then fills it.
Manifest(b) ==
  LET h == builder[b].hash IN
  /\ builder[b].pc \in {"manifest", "fill"}
  /\ IF ~output[h].there THEN Goto(b, "failed") /\ UNCHANGED output
     ELSE IF builder[b].pc = "manifest"
       THEN output' = [output EXCEPT ![h].manifest = Torn] /\ Goto(b, "fill")
     ELSE /\ output' = [output EXCEPT ![h].manifest = ManifestOf(Payload(builder[b]))]
          /\ Goto(b, "done")
  /\ UNCHANGED <<together, game, server, counts>>

\* A builder is killed; what others say of their outputs no longer binds them.
Die(b) ==
  /\ Running(b) /\ Count("crashes", MaxCrashes)
  /\ builder' = [d \in Builders |-> IF d = b THEN [builder[b] EXCEPT !.pc = "dead"]
                                    ELSE [builder[d] EXCEPT !.stands = FALSE]]
  /\ UNCHANGED <<together, game, output, server>>

-----------------------------------------------------------------------------
(* preview-serve.ts: an output is validated once, without the game, and its    *)
(* files are served as they are when asked for.                                *)

Serve ==
  /\ server.of = Nothing
  /\ \E h \in Contents :
       /\ output[h].there /\ output[h].whole /\ DigestMatches(output[h])
       /\ server' = [of |-> h, manifest |-> output[h].manifest]
  /\ UNCHANGED <<together, game, output, builder, counts>>

StopServing ==
  /\ server.of # Nothing /\ server' = [of |-> Nothing, manifest |-> NoManifest]
  /\ UNCHANGED <<together, game, output, builder, counts>>

\* The author edits the game.
Edit ==
  /\ Edits \/ \A b \in Builders : ~Running(b)
  /\ Count("edits", MaxEdits)
  /\ \E c \in Contents \ {game} : game' = c
  /\ UNCHANGED <<together, output, builder, server>>

Init ==
  /\ together \in Together /\ game \in Contents
  /\ output = [c \in Contents |-> NoOutput]
  /\ builder = [b \in Builders |-> [pc |-> "idle", hash |-> Nothing, code |-> Nothing, pack |-> Nothing,
                                    stands |-> TRUE, runs |-> 0]]
  /\ server = [of |-> Nothing, manifest |-> NoManifest]
  /\ counts = [edits |-> 0, crashes |-> 0]

Next ==
  \/ \E b \in Builders :
       \/ Start(b) \/ Look(b) \/ BuildCode(b) \/ BuildPack(b) \/ Judge(b)
       \/ Remove(b) \/ Rename(b) \/ Manifest(b) \/ Die(b)
  \/ Serve \/ StopServing \/ Edit

Spec == Init /\ [][Next]_vars

-----------------------------------------------------------------------------

\* preview-build.ts:90-118, 139-165: a build that says it has an output, made or
\* reused, leaves one that is whole, valid and made of the content it hashed, also if
\* others build the same beside it, unless one of them is killed.
OutputTrue ==
  \A b \in Builders :
    builder[b].pc = "done" /\ builder[b].stands /\ (\A d \in Builders : ~Running(d)) =>
      LET o == output[builder[b].hash] IN
        /\ o.there /\ o.whole /\ DigestMatches(o)
        /\ o.code = builder[b].hash /\ o.pack = builder[b].hash

\* preview-contract.ts: whatever builds died, an output that a server accepts is made
\* of the content of its name.
ValidTrue ==
  \A h \in Contents :
    output[h].there /\ DigestMatches(output[h]) => Payload(output[h]) = [code |-> h, pack |-> h]

\* preview-serve.ts: what a server serves is what it says in its health.
ServedTrue ==
  server.of # Nothing =>
    LET o == output[server.of] IN o.there /\ o.whole /\ ManifestOf(Payload(o)) = server.manifest

\* preview-build.ts: a build fails only because of the game.
BuildsSucceed == \A b \in Builders : builder[b].pc # "failed"
=============================================================================
