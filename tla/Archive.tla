------------------------------ MODULE Archive ------------------------------
(***************************************************************************)
(* pqc_evidence/archive.py and its commands in cli.py: archives of a log   *)
(* that may still be growing are created, damaged, decrypted and verified. *)
(*                                                                         *)
(* A hash and an AES-GCM tag stand for what they cover: the digest of a    *)
(* plaintext is the plaintext, and a payload remembers the manifest that   *)
(* was its additional authenticated data.  A log is a sequence of lines,   *)
(* a line a record of module Verifier or one that does not parse.          *)
(***************************************************************************)
EXTENDS Verifier, Sequences, FiniteSets, FiniteSetsExt

CONSTANTS
    Logs,        \* what the evidence log may come to contain
    MaxTracked,  \* MAX_TRACKED_HASHES
    MaxLines,    \* the limit on a plaintext, in lines
    Archiver,    \* calls of create_archive
    Concurrent,  \* whether two of them may overlap
    Reader,      \* calls of verify_archive and decrypt_archive
    MaxCalls,    \* bound: how many of these calls are made
    MaxDamage,   \* bound: how often the stored archive is damaged
    None,        \* no file, no value
    Broken       \* a file whose structure is not that of an archive

\* A line that is not JSON: here, one that is not completely written yet.
Torn == [content |-> NoHash, event_hash |-> NoHash, key |-> "unknown", sig |-> FALSE]

\* What a log may hold, and what an archive may.
Text == Seq(SignedEvent \cup {Torn})
Manifests == [node : Node, first : Nat, last : Nat, count : Nat, final : Hash \cup {NoHash},
              digest : Text, strict : BOOLEAN, nonce : Archiver \cup {None}]
Archives == [manifest : Manifests, aad : Manifests, plain : Text]

ASSUME ArchiveAssumption ==
    /\ MaxTracked \in Nat \ {0} /\ MaxLines \in Nat
    /\ MaxCalls \in Nat /\ MaxDamage \in Nat
    /\ Concurrent \in BOOLEAN
    /\ Logs \subseteq Seq(SignedEvent)
    /\ None \notin Archiver /\ None # Broken /\ None \notin Archives
    /\ None \notin SignedEvent \cup {Torn}

VARIABLES
    log,       \* the evidence log, as far as its records are committed
    pending,   \* a line behind them: Torn, or a record that may be rolled back yet
    apc,       \* where each create_archive is
    job,       \* its arguments and variables
    inode,     \* the files, each named by the create_archive that made it
    tmp,       \* the file <target>.tmp names, or None
    target,    \* the file the archive's path names, or None
    damage,    \* how often an archive was damaged
    rpc,       \* where each reader is
    ask,       \* its arguments
    opened,    \* the archive it has decrypted
    trust,     \* its ArchiveTrust
    dest,      \* the output of decrypt_archive: a plaintext, or None
    sealed     \* every archive as create_archive finished it (history)

logVars == <<log, pending>>
makeVars == <<apc, job, inode, tmp, target, sealed>>
readVars == <<rpc, ask, opened, trust, dest>>
vars == <<logVars, makeVars, damage, readVars>>

----------------------------------------------------------------------------
(* summarise_evidence *)

Present == IF pending = None THEN log ELSE Append(log, pending)

Parsed(s) == {i \in 1..Len(s) : s[i] # Torn}

\* The first pass counts every line, and takes the range of the sequences and the
\* last claimed hash from those that parse.
Summary(s) ==
    LET p == Parsed(s)
        seqs == {SeqOf[s[i].content] : i \in p}
    IN  [count |-> Len(s),
         first |-> IF p = {} THEN 0 ELSE Min(seqs),
         last  |-> IF p = {} THEN 0 ELSE Max(seqs),
         final |-> IF p = {} THEN NoHash ELSE s[Max(p)].event_hash,
         nodes |-> {NodeOf[s[i].content] : i \in p},
         unparsable |-> p # 1..Len(s)]

\* The trackers of verify_stream, and its counters.
NewStream == [position |-> [n \in Node |-> Start], seq |-> {}, hashes |-> {}, spent |-> {},
              failed |-> 0, malformed |-> 0, alerts |-> {}]

\* _NodeTracker.note: seen_sequences keeps one hash for a sequence.
Full(r, n) == Cardinality({x \in r.hashes : x[1] = n}) >= MaxTracked

NoteAlerts(r, n, e) ==
    LET old == {h \in Hash : <<n, SeqOf[e.content], h>> \in r.seq}
    IN  {a \in {"pqc_replayed_event"} :
            e.event_hash \in old \/ (old = {} /\ <<n, e.event_hash>> \in r.hashes)}
        \cup {a \in {"pqc_duplicate_sequence"} : \E h \in old : h # e.event_hash}
        \cup {a \in {"pqc_malformed_evidence"} : Full(r, n) /\ n \notin r.spent}

Noted(r, n, e) ==
    IF Full(r, n) THEN [r EXCEPT !.spent = @ \cup {n}]
    ELSE [r EXCEPT !.seq = {x \in @ : x[1] # n \/ x[2] # SeqOf[e.content]}
                           \cup {<<n, SeqOf[e.content], e.event_hash>>},
                   !.hashes = @ \cup {<<n, e.event_hash>>}]

\* One turn of verify_stream's loop (module Collector has it as actions).
ReadRecord(r, n, e) ==
    LET errors == VerifyEvent(e) \cup CheckChain(r.position[n], e) \cup NoteAlerts(r, n, e)
    IN  [Noted(r, n, e) EXCEPT
            !.position[n] = IF SeqOf[e.content] = NextSequence(@) THEN Advance(@, e) ELSE @,
            !.failed = IF errors = {} THEN @ ELSE @ + 1,
            !.alerts = @ \cup errors]

ReadLine(r, e) ==
    IF e = Torn
    THEN [r EXCEPT !.failed = @ + 1, !.malformed = @ + 1,
                   !.alerts = @ \cup {"pqc_malformed_evidence"}]
    ELSE ReadRecord(r, NodeOf[e.content], e)

\* The trackers after each line of s.
StreamAfter(s) ==
    LET after[i \in 0..Len(s)] == IF i = 0 THEN NewStream ELSE ReadLine(after[i - 1], s[i])
    IN  after

VerifyStream(s) == StreamAfter(s)[Len(s)]

SignatureAlerts == {"pqc_invalid_signature", "pqc_unknown_key", "pqc_revoked_key"}

\* Mutant: the links between records are left out.
ChainAlertsBySequence == {"pqc_sequence_gap", "pqc_duplicate_sequence", "pqc_replayed_event",
                          "pqc_chain_reset"}

ChainAlerts == {"pqc_sequence_gap", "pqc_previous_hash_mismatch", "pqc_duplicate_sequence",
                "pqc_replayed_event", "pqc_chain_reset", "pqc_event_hash_mismatch"}

\* The three facts about the records.
EvidenceTrust(s) ==
    LET r == VerifyStream(s)
    IN  [format |-> r.malformed = 0 /\ s # <<>>,
         signatures |-> r.alerts \cap SignatureAlerts = {},
         chain |-> r.alerts \cap ChainAlerts = {}]

\* Mutant: strict mode looks at what does not parse only.
StrictIfParsed(sum, s) == s = <<>> \/ VerifyStream(s).malformed > 0

\* What strict mode refuses, besides a line the first pass could not parse.
StrictErrors(sum, s) ==
    LET r == VerifyStream(s)
    IN  s = <<>> \/ r.malformed > 0 \/ r.failed > 0 \/ Cardinality(sum.nodes) > 1

----------------------------------------------------------------------------
(* The container *)

Manifest(a) ==
    LET j == job[a] IN
    [node |-> j.node, first |-> j.summary.first, last |-> j.summary.last,
     count |-> j.summary.count, final |-> j.summary.final, digest |-> j.content,
     strict |-> j.strict, nonce |-> a]

\* manifest.json and evidence.bin; the latter's tag covers aad and plain.
Container(m) == [manifest |-> m, aad |-> m, plain |-> m.digest]

\* The checks that need no key: the two entries are there, the manifest has all its
\* fields, and the payload has the length it declares.
StructureValid(x) == x \notin {None, Broken}

\* The tag verifies under the right key if manifest and payload are as they were;
\* a wrong key gives another secret (implicit rejection), and so a wrong tag.
Authentic(x, key) == key = "right" /\ x.aad = x.manifest

\* What the cipher makes of the payload.
Plaintext(x, key) == IF Authentic(x, key) THEN x.plain ELSE Broken

\* What may become of a stored archive: it, its manifest or its payload is damaged.
Damaged(x) ==
    {Broken, [x EXCEPT !.manifest.strict = ~@], [x EXCEPT !.aad.nonce = None]}

\* ArchiveTrust, with structure_valid of the report; errors: there is one.
Untrusted == [structure |-> FALSE, container |-> FALSE, hash |-> FALSE, format |-> FALSE,
              signatures |-> FALSE, chain |-> FALSE, node |-> FALSE, errors |-> FALSE]

----------------------------------------------------------------------------
Init ==
    /\ log = <<>> /\ pending = None
    /\ apc = [a \in Archiver |-> "none"]
    /\ job = [a \in Archiver |-> None]
    /\ inode = [a \in Archiver |-> None]
    /\ tmp = None /\ target = None /\ damage = 0
    /\ rpc = [r \in Reader |-> "none"]
    /\ ask = [r \in Reader |-> None]
    /\ opened = [r \in Reader |-> None]
    /\ trust = [r \in Reader |-> Untrusted]
    /\ dest = None
    /\ sealed = {}

\* One more call may be made.
MayCall ==
    Cardinality({a \in Archiver : apc[a] # "none"})
        + Cardinality({r \in Reader : rpc[r] # "none"}) < MaxCalls

\* The records that may come next.
NextRecords ==
    {l[Len(log) + 1] : l \in {l \in Logs : Len(log) < Len(l) /\ log = SubSeq(l, 1, Len(log))}}

\* The node's signer, as a reader without the store's lock sees it (module
\* EvidenceStore): the append of a line begins and ends,
AppendBegins == pending = None /\ NextRecords # {} /\ pending' = Torn /\ UNCHANGED log
AppendEnds == pending = Torn /\ (\E e \in NextRecords : pending' = e) /\ UNCHANGED log

\* the state or the journal commits the record, and, as long as they have not, the line
\* is cut off: by _rollback, or by the recovery after a crash.
Committed ==
    /\ pending \notin {None, Torn}
    /\ log' = Append(log, pending) /\ pending' = None

Truncated == pending # None /\ pending' = None /\ UNCHANGED log

Grow ==
    /\ AppendBegins \/ AppendEnds \/ Committed \/ Truncated
    /\ UNCHANGED <<makeVars, damage, readVars>>

----------------------------------------------------------------------------
(* create_archive *)

AGoto(a, l) == apc' = [apc EXCEPT ![a] = l]

\* The call returns, raises or dies, and its variables are gone.
AEnd(a) == AGoto(a, "ended") /\ job' = [job EXCEPT ![a] = None]

Idle(a) == apc[a] \in {"none", "ended"}
Oversized == Len(Present) > MaxLines

\* The checks before the first pass.
Begin(a, node, strict, force) ==
    /\ apc[a] = "none" /\ MayCall /\ (Concurrent \/ \A b \in Archiver : Idle(b))
    /\ ~Oversized /\ (target = None \/ force)
    /\ job' = [job EXCEPT ![a] = [node |-> node, strict |-> strict,
                                  summary |-> None, content |-> <<>>, fd |-> None]]
    /\ AGoto(a, "scan")
    /\ UNCHANGED <<logVars, inode, tmp, target, sealed, damage, readVars>>

BeginRefused(a) ==
    /\ apc[a] = "none" /\ MayCall /\ (Oversized \/ target # None)
    /\ AEnd(a)
    /\ UNCHANGED <<logVars, inode, tmp, target, sealed, damage, readVars>>

\* summarise_evidence, first pass
Scan(a) ==
    /\ apc[a] = "scan"
    /\ job' = [job EXCEPT ![a].summary = Summary(Present)]
    /\ AGoto(a, IF job[a].strict THEN "verify" ELSE "read")
    /\ UNCHANGED <<logVars, inode, tmp, target, sealed, damage, readVars>>

\* Its second pass, over the log as it is by then.
Refuses(j) ==
    \/ j.summary.unparsable
    \/ StrictErrors(j.summary, Present)
    \/ j.summary.nodes \notin {{}, {j.node}}

Verify(a) ==
    /\ apc[a] = "verify"
    /\ IF Refuses(job[a]) THEN AEnd(a) ELSE AGoto(a, "read") /\ UNCHANGED job
    /\ UNCHANGED <<logVars, inode, tmp, target, sealed, damage, readVars>>

\* The pass that hashes and compresses, over the log as it is by then.
Read(a) ==
    /\ apc[a] = "read"
    /\ IF Oversized THEN AEnd(a)
       ELSE AGoto(a, "open") /\ job' = [job EXCEPT ![a].content = Present]
    /\ UNCHANGED <<logVars, inode, tmp, target, sealed, damage, readVars>>

\* Mutant: the archive is written under its own name.
OpenTarget(a) ==
    /\ apc[a] = "open"
    /\ tmp' = a /\ target' = a
    /\ job' = [job EXCEPT ![a].fd = a]
    /\ inode' = [inode EXCEPT ![a] = Broken]
    /\ AGoto(a, "fill")
    /\ UNCHANGED <<logVars, sealed, damage, readVars>>

\* <target>.tmp is made, or emptied if it is there.
OpenTmp(a) ==
    /\ apc[a] = "open"
    /\ tmp' = IF tmp = None THEN a ELSE tmp
    /\ job' = [job EXCEPT ![a].fd = tmp']
    /\ inode' = [inode EXCEPT ![tmp'] = Broken]
    /\ AGoto(a, "fill")
    /\ UNCHANGED <<logVars, target, sealed, damage, readVars>>

\* Both entries are written.  What another call has written to the same file may
\* stay behind the end of the new archive.
Fill(a) ==
    LET file == job[a].fd IN
    /\ apc[a] = "fill"
    /\ \E y \in {Container(Manifest(a))} \cup (IF inode[file] = Broken THEN {} ELSE {Broken}) :
          inode' = [inode EXCEPT ![file] = y]
    /\ AGoto(a, "replace")
    /\ UNCHANGED <<logVars, job, tmp, target, sealed, damage, readVars>>

\* The file f has lost its last name.
Without(f) == [i \in Archiver |-> IF i = f THEN None ELSE inode[i]]

Replace(a) ==
    /\ apc[a] = "replace" /\ tmp # None
    /\ target' = tmp /\ tmp' = None
    /\ inode' = Without(target)
    /\ sealed' = sealed \cup {Container(Manifest(a))}
    /\ AEnd(a)
    /\ UNCHANGED <<logVars, damage, readVars>>

\* An OSError, or the temporary file is gone: it is unlinked and the error raised.
CreateFails(a) ==
    /\ apc[a] \in {"open", "fill", "replace"}
    /\ tmp' = None
    /\ inode' = Without(tmp)
    /\ AEnd(a)
    /\ UNCHANGED <<logVars, target, sealed, damage, readVars>>

CreateKilled(a) ==
    /\ ~Idle(a)
    /\ AEnd(a)
    /\ UNCHANGED <<logVars, inode, tmp, target, sealed, damage, readVars>>

\* The stored archive is damaged.
Damage ==
    /\ target # None /\ inode[target] # Broken /\ damage < MaxDamage
    /\ \E x \in Damaged(inode[target]) : inode' = [inode EXCEPT ![target] = x]
    /\ damage' = damage + 1
    /\ UNCHANGED <<logVars, apc, job, tmp, target, sealed, readVars>>

Create(a) ==
    \/ \E node \in Node, strict, force \in BOOLEAN : Begin(a, node, strict, force)
    \/ BeginRefused(a) \/ Scan(a) \/ Verify(a) \/ Read(a) \/ OpenTmp(a) \/ Fill(a) \/ Replace(a)
    \/ CreateFails(a) \/ CreateKilled(a)

----------------------------------------------------------------------------
(* verify_archive and decrypt_archive *)

RGoto(r, l) == rpc' = [rpc EXCEPT ![r] = l]

\* The command ends without a report.
REnd(r) ==
    /\ RGoto(r, "ended")
    /\ ask' = [ask EXCEPT ![r] = None]
    /\ opened' = [opened EXCEPT ![r] = None]
    /\ trust' = [trust EXCEPT ![r] = Untrusted]

Stored == IF target = None THEN None ELSE inode[target]

\* The command and its arguments; decrypt_archive wants a key, and looks for the
\* archive and the output first.
BeginRead(r, op, key, registry, force) ==
    /\ rpc[r] = "none" /\ MayCall
    /\ IF op = "decrypt" THEN key # "none" /\ ~registry ELSE ~force
    /\ op = "decrypt" => target # None /\ (dest = None \/ force)
    /\ ask' = [ask EXCEPT ![r] = [op |-> op, key |-> key, registry |-> registry]]
    /\ RGoto(r, IF op = "verify" THEN "structure" ELSE "decrypt")
    /\ UNCHANGED <<logVars, makeVars, damage, opened, trust, dest>>

ReadRefused(r) ==
    /\ rpc[r] = "none" /\ MayCall /\ (target = None \/ dest # None)
    /\ REnd(r)
    /\ UNCHANGED <<logVars, makeVars, damage, dest>>

\* verify_archive opens the archive for its structure, and without a key that is all.
CheckStructure(r) ==
    /\ rpc[r] = "structure"
    /\ trust' = [trust EXCEPT ![r].structure = StructureValid(Stored),
                              ![r].errors = ~StructureValid(Stored)]
    /\ RGoto(r, IF StructureValid(Stored) /\ ask[r].key # "none" THEN "decrypt" ELSE "done")
    /\ UNCHANGED <<logVars, makeVars, damage, ask, opened, dest>>

\* decrypt_archive opens it, for verify_archive once more: the tag, then the limit
\* on the plaintext, then its digest.  What was decrypted is in a scratch file.
Decrypts(r) ==
    /\ StructureValid(Stored) /\ Authentic(Stored, ask[r].key)
    /\ Len(Stored.plain) <= MaxLines /\ Stored.plain = Stored.manifest.digest

\* Mutant: the output is written before the tag is looked at.
DecryptToOutput(r) ==
    /\ rpc[r] = "decrypt" /\ StructureValid(Stored)
    /\ opened' = [opened EXCEPT ![r] = Stored]
    /\ RGoto(r, "publish")
    /\ UNCHANGED <<logVars, makeVars, damage, ask, trust, dest>>

Decrypt(r) ==
    /\ rpc[r] = "decrypt" /\ Decrypts(r)
    /\ opened' = [opened EXCEPT ![r] = Stored]
    /\ trust' = [trust EXCEPT ![r].container = TRUE, ![r].hash = TRUE]
    /\ RGoto(r, CASE ask[r].op = "decrypt" -> "publish"
                  [] ask[r].op = "verify" /\ ask[r].registry -> "summarise"
                  [] OTHER -> "done")
    /\ UNCHANGED <<logVars, makeVars, damage, ask, dest>>

\* An ArchiveError: verify_archive records it, the decrypt command ends.
DecryptFails(r) ==
    /\ rpc[r] = "decrypt" /\ ~Decrypts(r)
    /\ IF ask[r].op = "decrypt" THEN REnd(r)
       ELSE /\ trust' = [trust EXCEPT ![r].errors = TRUE]
            /\ RGoto(r, "done")
            /\ UNCHANGED <<ask, opened>>
    /\ UNCHANGED <<logVars, makeVars, damage, dest>>

\* The scratch file becomes the output.
Publish(r) ==
    /\ rpc[r] = "publish"
    /\ dest' = Plaintext(opened[r], ask[r].key)
    /\ REnd(r)
    /\ UNCHANGED <<logVars, makeVars, damage>>

\* What the manifest says of the evidence is what the evidence says.
Describes(m, s) ==
    LET sum == Summary(s)
    IN  /\ sum.nodes \in {{}, {m.node}}
        /\ <<sum.count, sum.first, sum.last, sum.final>> = <<m.count, m.first, m.last, m.final>>

\* summarise_evidence on the scratch file, and the comparison with the manifest
Summarise(r) ==
    LET x == opened[r]
        matches == Describes(x.manifest, x.plain)
        evidence == EvidenceTrust(x.plain)
    IN
    /\ rpc[r] = "summarise"
    /\ trust' = [trust EXCEPT ![r].format = evidence.format,
                              ![r].signatures = evidence.signatures,
                              ![r].chain = evidence.chain,
                              ![r].node = matches /\ Summary(x.plain).nodes # {},
                              ![r].errors = ~matches]
    /\ RGoto(r, "done")
    /\ UNCHANGED <<logVars, makeVars, damage, ask, opened, dest>>

ReaderKilled(r) ==
    /\ rpc[r] \notin {"none", "done", "ended"}
    /\ REnd(r)
    /\ UNCHANGED <<logVars, makeVars, damage, dest>>

FullyVerified(t) == t.container /\ t.hash /\ t.format /\ t.signatures /\ t.chain /\ t.node

\* The exit status of verify-archive is EXIT_OK.
ExitOk(r) ==
    /\ trust[r].structure /\ ~trust[r].errors
    /\ ask[r].key # "none" => trust[r].container
    /\ ask[r].registry => FullyVerified(trust[r])

ReadArchive(r) ==
    \/ \E op \in {"verify", "decrypt"}, key \in {"none", "wrong", "right"},
          registry, force \in BOOLEAN : BeginRead(r, op, key, registry, force)
    \/ ReadRefused(r) \/ CheckStructure(r) \/ Decrypt(r) \/ DecryptFails(r) \/ Publish(r)
    \/ Summarise(r) \/ ReaderKilled(r)

Next ==
    \/ Grow \/ Damage
    \/ \E a \in Archiver : Create(a)
    \/ \E r \in Reader : ReadArchive(r)

Spec == Init /\ [][Next]_vars

----------------------------------------------------------------------------
(* Properties *)

\* A chain of node n from its genesis on, every record as n signed it.
GenuineChain(n, s) ==
    \A i \in 1..Len(s) :
        /\ s[i] # Torn /\ s[i].key = "usable" /\ s[i].sig
        /\ s[i].event_hash = s[i].content
        /\ NodeOf[s[i].content] = n /\ SeqOf[s[i].content] = i
        /\ PrevOf[s[i].content] = IF i = 1 THEN Genesis[n] ELSE s[i - 1].content

Trusts == [structure : BOOLEAN, container : BOOLEAN, hash : BOOLEAN, format : BOOLEAN,
           signatures : BOOLEAN, chain : BOOLEAN, node : BOOLEAN, errors : BOOLEAN]

\* The log holds signed records, files are archives or incomplete, and the temporary
\* file and the archive are never the same file (create_archive renames the one to the
\* other).
TypeOK ==
    /\ log \in Seq(SignedEvent) /\ pending \in SignedEvent \cup {Torn, None}
    /\ inode \in [Archiver -> Archives \cup {None, Broken}]
    /\ tmp \in Archiver \cup {None} /\ target \in Archiver \cup {None}
    /\ tmp # None => tmp # target /\ inode[tmp] # None
    /\ target # None => inode[target] # None
    /\ sealed \subseteq Archives /\ damage \in 0..MaxDamage
    /\ apc \in [Archiver -> {"none", "scan", "verify", "read", "open", "fill", "replace",
                              "ended"}]
    /\ rpc \in [Reader -> {"none", "structure", "decrypt", "publish", "summarise", "done",
                            "ended"}]
    /\ trust \in [Reader -> Trusts]

\* Calls of create_archive, one after the other, crash or fail where they may: what
\* the archive's path names is always a whole archive, unless it was damaged since.
TargetWhole == target # None /\ damage = 0 => inode[target] \in sealed

\* verify-archive with the right key and a registry succeeds on an archive exactly if
\* nothing was altered since it was sealed, it holds a genuine chain of the node its
\* manifest names, from the first record on, and the manifest, which the first pass made
\* of the log as it was then, describes it: the number of its lines, its range and its
\* last hash.  The log may have grown in between, or lost a line it showed.
ArchiveVerdict ==
    \A r \in Reader :
        rpc[r] = "done" /\ ask[r].op = "verify" /\ ask[r].key = "right" /\ ask[r].registry
        => (ExitOk(r) <=>
              LET x == opened[r] IN
              /\ x \in sealed
              /\ x.plain # <<>> /\ GenuineChain(x.manifest.node, x.plain)
              /\ x.manifest.count = Len(x.plain)
              /\ x.manifest.first = 1 /\ x.manifest.last = Len(x.plain)
              /\ x.manifest.final = x.plain[Len(x.plain)].event_hash)

\* verify-archive and decrypt-archive accept no archive with a wrong key, and none
\* that was altered: what decrypt_archive leaves at its output was sealed by
\* create_archive, whatever became of the archive and whenever the command died.
DestIsSealed ==
    /\ dest # None => \E x \in sealed : x.plain = dest
    /\ \A r \in Reader : rpc[r] = "done" /\ ask[r].key # "none" /\ trust[r].container
                         => ask[r].key = "right" /\ opened[r] \in sealed

\* An archive marked evidence_strictly_verified: the records its manifest counts are in
\* it and a genuine chain of the manifest's node, though the log grows and is rolled back
\* during create_archive; only the last of them may be missing or be another record, for
\* the first pass may have seen a line that was rolled back.
StrictCoversCount ==
    \A x \in sealed : x.manifest.strict =>
        /\ x.manifest.count - 1 <= Len(x.plain)
        /\ GenuineChain(x.manifest.node, SubSeq(x.plain, 1, x.manifest.count - 1))

\* create_archive's documentation of strict mode: every enclosed record parses, has a
\* verifying signature, chains, and belongs to a single node.
StrictMeansVerified ==
    \A x \in sealed : x.manifest.strict => \E n \in Node : GenuineChain(n, x.plain)
=============================================================================
