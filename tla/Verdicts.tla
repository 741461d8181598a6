------------------------------ MODULE Verdicts ------------------------------
(***************************************************************************)
(* How the daemon decides and reports (src/userspace/avd/avd.c): the       *)
(* engines of perform_scan over one shared file offset, the ring of recent *)
(* verdicts, and the replies of SCAN, VERDICTS RECENT and QUARANTINE LIST, *)
(* with avctl's reading of a reply that may have been cut short            *)
(* (src/userspace/avctl/avctl.c).                                          *)
(*                                                                         *)
(* A file is a model value; what each engine finds in its bytes is given   *)
(* by the constants below, and an engine that starts at the end of the     *)
(* file finds nothing.  A quarantine entry is known by the number of the   *)
(* scan that made it, as its name by the time; how a file gets into and    *)
(* out of quarantine is module Quarantine.                                 *)
(***************************************************************************)
EXTENDS Integers, Sequences, FiniteSets, SequencesExt

CONSTANTS
    Files, Owner,            \* the files, and the user each belongs to
    Starts,                  \* sets of files to start with
    Root, NoUser,            \* uid 0; the (uid_t)-1 of a failed fstat, no sidecar
    Workers, Conns,          \* scan workers; connection threads that SCAN
    Listers, Users,          \* connections that list; the uids of their peers
    Weight, Override,        \* the weight of each YARA rule; those that convict alone
    Matches,                 \* the rules that match each file
    Threshold,               \* MALICIOUS_SCORE_THRESHOLD
    FuzzyFile, TlshFile,     \* the lines of the two corpus files
    Malformed, Oversized,    \* lines without hash and name; with too long a hash
    Similarity, FuzzyThreshold, \* fuzzy_compare(file, line), 0..100 or -1
    Distance, MaxDiff,       \* av_tlsh_diff(file, line), or -1
    Big, Short,              \* files over the size limit; too short for TLSH
    HistoryMax,              \* AVD_VERDICT_HISTORY_MAX
    MaxScans,                \* bound: scans begun
    MaxDisturbances          \* bound: calls that fail, restores and deletes

NoFile == "none"

ASSUME VerdictsAssumption ==
    /\ Starts \subseteq SUBSET Files
    /\ NoUser \notin Users
    /\ IsFiniteSet(DOMAIN Weight) /\ \A r \in DOMAIN Weight : Weight[r] \in Nat
    /\ \A f \in Files : Matches[f] \subseteq DOMAIN Weight
    /\ FuzzyFile \in Seq(Range(FuzzyFile)) /\ TlshFile \in Seq(Range(TlshFile))
    /\ \A f \in Files : /\ \A l \in Range(FuzzyFile) : Similarity[f][l] \in Int
                        /\ \A l \in Range(TlshFile) : Distance[f][l] \in Int
    /\ HistoryMax \in Nat \ {0} /\ MaxScans \in Nat /\ MaxDisturbances \in Nat
    /\ Threshold \in Nat \ {0} /\ FuzzyThreshold \in Nat \ {0} /\ MaxDiff \in Nat

VARIABLES
    sc,                             \* the scan of each thread
    hist, count, next, nextId,      \* the ring of recent verdicts
    there,                          \* the files found under their path
    box,                            \* quarantine: entry -> file, owner it records
    ls,                             \* the list reply of each lister
    told,                           \* what avctl printed for each SCAN
    log,                            \* ghost: every verdict recorded, in order
    scans, disturbances             \* counts of the bounded events

ring == <<hist, count, next, nextId, log>>
quarantine == <<there, box>>
vars == <<sc, ring, quarantine, ls, told, scans, disturbances>>

Scanners == Workers \cup Conns

\* A step in which something goes wrong, or does not, as bad says.
Disturbed(bad) ==
    /\ bad => disturbances < MaxDisturbances
    /\ disturbances' = IF bad THEN disturbances + 1 ELSE disturbances

----------------------------------------------------------------------------
(* The corpora, read once at start-up.                                     *)

\* The loops that keep some of the items they go through: those of s in S.
Keep(s, S) ==
    LET kept[i \in 0 .. Len(s)] ==
          IF i = 0 THEN <<>>
          ELSE IF s[i] \in S THEN Append(kept[i-1], s[i]) ELSE kept[i-1]
    IN  kept[Len(s)]

\* parse_corpus_line(): comments, blank and malformed lines are skipped.
parse_corpus_line(l) == l \notin Malformed

load_fuzzy_corpus == Keep(FuzzyFile, {l \in Range(FuzzyFile) : parse_corpus_line(l)})

load_tlsh_corpus ==
    Keep(TlshFile, {l \in Range(TlshFile) : parse_corpus_line(l) /\ l \notin Oversized})

\* The loop over the fuzzy corpus: the first line with the highest score.
BestFuzzy(f) ==
    LET corpus == load_fuzzy_corpus
        best[i \in 0 .. Len(corpus)] ==
          IF i = 0 THEN [score |-> -1, line |-> NoFile]
          ELSE IF Similarity[f][corpus[i]] > best[i-1].score
               THEN [score |-> Similarity[f][corpus[i]], line |-> corpus[i]]
               ELSE best[i-1]
    IN  best[Len(corpus)]

\* The loop over the TLSH corpus: the first line with the lowest distance,
\* malformed hashes (-1) left out.
BestTlsh(f) ==
    LET corpus == load_tlsh_corpus
        best[i \in 0 .. Len(corpus)] ==
          IF i = 0 THEN [diff |-> -1, line |-> NoFile]
          ELSE LET d == Distance[f][corpus[i]]
               IN  IF d >= 0 /\ (best[i-1].diff < 0 \/ d < best[i-1].diff)
                   THEN [diff |-> d, line |-> corpus[i]]
                   ELSE best[i-1]
    IN  best[Len(corpus)]

\* yara_callback() adds up the weights of the rules that match.
Score(rules) == FoldSet(LAMBDA r, acc : Weight[r] + acc, 0, rules)

----------------------------------------------------------------------------
(* perform_scan.                                                           *)

Idle == [pc |-> "idle", no |-> 0, file |-> NoFile, uid |-> NoUser, eof |-> FALSE,
         sha |-> FALSE, verdict |-> "CLEAN", by |-> NoFile, faulty |-> FALSE]

\* Faulty variant: nobody rewinds the shared offset.
OffsetStays(eof) == eof

\* lseek(fd, 0, SEEK_SET), by perform_scan before YARA and by the two other
\* engines themselves: they share the offset of one open file.
Rewind(eof) == FALSE

\* The four stages of perform_scan on the record r of a scan; bad says that the
\* stage fails.  sha256_fd() reads through a dup of the descriptor: the offset
\* stays at the end.
Hash(r, bad) == IF r.sha THEN r ELSE [r EXCEPT !.eof = TRUE, !.sha = ~bad]

\* The rewind and the YARA scan; a failure of either ends the scan as clean.
Yara(r, bad) ==
    LET eof == Rewind(r.eof)
        rules == IF eof THEN {} ELSE Matches[r.file]
        guilty == rules \cap Override # {} \/ Score(rules) >= Threshold
    IN  IF bad THEN [r EXCEPT !.pc = "record", !.faulty = TRUE]
        ELSE IF guilty
        THEN [r EXCEPT !.pc = "quarantine", !.verdict = "MALICIOUS", !.by = "yara"]
        ELSE [r EXCEPT !.eof = eof]

\* check_fuzzy_corpus() leaves the offset where it stopped reading.
Fuzzy(r, bad) ==
    LET looks == load_fuzzy_corpus # <<>> /\ r.file \notin Big
        best == BestFuzzy(r.file)
    IN  IF r.pc # "scan" \/ ~looks THEN r
        ELSE IF bad THEN [r EXCEPT !.eof = TRUE, !.faulty = TRUE]
        ELSE IF ~Rewind(r.eof) /\ best.score >= FuzzyThreshold
        THEN [r EXCEPT !.pc = "quarantine", !.verdict = "MALICIOUS", !.by = best.line]
        ELSE [r EXCEPT !.eof = TRUE]

\* check_tlsh_corpus() with av_tlsh_hash_fd(), which rewinds too.
Tlsh(r, bad) ==
    LET looks == load_tlsh_corpus # <<>> /\ r.file \notin Big
        sees == ~Rewind(r.eof) /\ r.file \notin Short
        best == BestTlsh(r.file)
    IN  IF r.pc # "scan" THEN r
        ELSE IF bad /\ looks THEN [r EXCEPT !.pc = "record", !.faulty = TRUE]
        ELSE IF looks /\ sees /\ best.diff >= 0 /\ best.diff <= MaxDiff
        THEN [r EXCEPT !.pc = "quarantine", !.verdict = "MALICIOUS", !.by = best.line]
        ELSE [r EXCEPT !.pc = "record"]

\* handle_scan_request() and cmd_scan() open the file once, and look up its
\* owner; a worker's request brings the kernel's digest.
OpenFile(t, f, owner) ==
    [Idle EXCEPT !.pc = "scan", !.no = scans + 1, !.file = f, !.uid = owner,
                 !.sha = t \in Workers]

\* The stages touch nothing that other threads do, once the file is open.
perform_scan(t, f) ==
    /\ sc[t].pc = "idle" /\ f \in there
    /\ scans < MaxScans /\ scans' = scans + 1
    /\ \E bad \in {"none", "owner", "hash", "yara", "fuzzy", "tlsh"} :
         LET opened == OpenFile(t, f, IF bad = "owner" THEN NoUser ELSE Owner[f])
             hashed == Hash(opened, bad = "hash")
             matched == Yara(hashed, bad = "yara")
             compared == Fuzzy(matched, bad = "fuzzy")
         IN  /\ sc' = [sc EXCEPT ![t] = [Tlsh(compared, bad = "tlsh") EXCEPT !.eof = FALSE]]
             /\ Disturbed(bad # "none")
    /\ told' = [told EXCEPT ![t] = "nothing"]
    /\ UNCHANGED <<ring, quarantine, ls>>

\* A file that cannot be opened: nothing is recorded; the kernel is told that
\* it is clean, the client that there was an error.
OpenFails(t, f) ==
    /\ sc[t].pc = "idle"
    /\ scans < MaxScans /\ scans' = scans + 1
    /\ Disturbed(f \in there)
    /\ told' = [told EXCEPT ![t] = IF t \in Conns THEN "error" ELSE @]
    /\ UNCHANGED <<sc, ring, quarantine, ls>>

\* quarantine_file(): the entry appears before its sidecar; or it gives up.
LinkIn(t) ==
    LET e == sc[t].no IN
    /\ sc[t].pc = "quarantine"
    /\ \/ /\ box' = [d \in DOMAIN box \cup {e} |->
                      IF d = e THEN [file |-> sc[t].file, uid |-> NoUser] ELSE box[d]]
          /\ sc' = [sc EXCEPT ![t].pc = "meta"]
          /\ UNCHANGED disturbances
       \/ UNCHANGED box /\ sc' = [sc EXCEPT ![t].pc = "record"] /\ Disturbed(TRUE)
    /\ UNCHANGED <<ring, there, ls, told, scans>>

\* Ghost: the entries that a listing must show are those that stay.
EntriesLeave == ls' = [c \in Listers |-> [ls[c] EXCEPT !.stay = @ \cap DOMAIN box']]

Without(e) == [d \in DOMAIN box \ {e} |-> box[d]]

\* Its second half: the sidecar, which may fail, and says uid 0 when fstat()
\* did; chmod, whose failure takes the entry back (so does its absence); and
\* the path is removed.
SealEntry(t) ==
    LET e == sc[t].no IN
    /\ sc[t].pc = "meta"
    /\ \/ /\ e \in DOMAIN box
          /\ \E uid \in {Owner[sc[t].file], Root, NoUser} :
               box' = [box EXCEPT ![e].uid = uid] /\ Disturbed(uid # Owner[sc[t].file])
          /\ there' = there \ {sc[t].file}
       \/ box' = Without(e) /\ Disturbed(e \in DOMAIN box) /\ UNCHANGED there
    /\ EntriesLeave
    /\ sc' = [sc EXCEPT ![t].pc = "record"]
    /\ UNCHANGED <<ring, told, scans>>

\* record_verdict_history(), under its lock.
Record(t) ==
    /\ sc[t].pc = "record"
    /\ LET rec == [id |-> nextId, file |-> sc[t].file, uid |-> sc[t].uid,
                   verdict |-> sc[t].verdict, by |-> sc[t].by, faulty |-> sc[t].faulty]
       IN  hist' = [hist EXCEPT ![next] = rec] /\ log' = Append(log, rec)
    /\ nextId' = nextId + 1
    /\ next' = (next + 1) % HistoryMax
    /\ count' = IF count < HistoryMax THEN count + 1 ELSE count
    /\ sc' = [sc EXCEPT ![t].pc = "reply"]
    /\ UNCHANGED <<quarantine, ls, told, scans, disturbances>>

\* avctl's do_scan on the first `got' parts of <OK, COUNT, verdict, rule, score,
\* sha256, END>, the last perhaps cut within: the row must have its four fields
\* and a digest, of any length.
do_scan(got, r) == IF got >= 6 /\ r.sha THEN r.verdict ELSE "error"

\* A worker sends its verdict to the kernel; a connection writes the reply, of
\* which a failing write leaves only the beginning.
Reply(t) ==
    /\ sc[t].pc = "reply"
    /\ \E got \in IF t \in Conns THEN 0 .. 7 ELSE {7} :
         /\ Disturbed(got < 7)
         /\ told' = [told EXCEPT ![t] = IF t \in Conns THEN do_scan(got, sc[t]) ELSE @]
    /\ sc' = [sc EXCEPT ![t] = [Idle EXCEPT !.file = sc[t].file]]
    /\ UNCHANGED <<ring, quarantine, ls, scans>>

----------------------------------------------------------------------------
(* VERDICTS RECENT and QUARANTINE LIST.                                    *)

NoReply == [pc |-> "idle", peer |-> NoUser, rows |-> <<>>, count |-> 0, whole |-> FALSE,
            names |-> <<>>, i |-> 1, visible |-> {}, upto |-> 0, limit |-> 0, stay |-> {}]

verdict_visible_to(rec, peer) == peer = Root \/ rec.uid = peer

\* Faulty variant: one slot too far back.
SnapshotOffByOne == [i \in 1 .. count |-> hist[(next + HistoryMax - i - 1) % HistoryMax]]

\* The snapshot, newest first: slot (next - 1 - i) modulo the size of the ring.
Snapshot == [i \in 1 .. count |-> hist[(next + HistoryMax - i) % HistoryMax]]

\* The whole reply is made from one snapshot taken under the lock; a write that
\* fails ends it.
cmd_verdicts_recent(c) ==
    /\ ls[c].pc = "idle"
    /\ \E n \in 1 .. HistoryMax, peer \in Users :
         LET seen == Keep(Snapshot, {r \in Range(Snapshot) : verdict_visible_to(r, peer)})
             take == IF Len(seen) < n THEN Len(seen) ELSE n
         IN \E sent \in 0 .. take, whole \in BOOLEAN :
              /\ whole => sent = take
              /\ Disturbed(~whole)
              /\ ls' = [ls EXCEPT ![c] = [NoReply EXCEPT
                          !.pc = "verdicts", !.peer = peer, !.rows = SubSeq(seen, 1, sent),
                          !.count = take, !.whole = whole, !.upto = Len(log), !.limit = n]]
    /\ UNCHANGED <<sc, ring, quarantine, told, scans>>

\* The order of alphasort(): names go by the time.
Sorted(S) == CHOOSE s \in [1 .. Cardinality(S) -> S] : \A i, j \in DOMAIN s : i < j => s[i] < s[j]

\* scandir(), sorted.
ListNames(c) ==
    /\ ls[c].pc = "idle"
    /\ \E peer \in Users :
         ls' = [ls EXCEPT ![c] = [NoReply EXCEPT
                  !.pc = "check", !.peer = peer,
                  !.names = Sorted(DOMAIN box),
                  !.stay = {e \in DOMAIN box : Root = peer \/ box[e].uid = peer}]]
    /\ UNCHANGED <<sc, ring, quarantine, told, scans, disturbances>>

\* Faulty variant: an entry without a readable sidecar is shown to everybody.
VisibleUnlessOwned(c, e, read) ==
    ls[c].peer = Root \/ ~read \/ e \notin DOMAIN box \/ box[e].uid \in {ls[c].peer, NoUser}

\* First pass: who owns each entry, as its sidecar says now, if it can be read.
\* For root it is not read.
Visible(c, e, read) ==
    ls[c].peer = Root \/ (read /\ e \in DOMAIN box /\ box[e].uid = ls[c].peer)

\* (Ghost: an entry whose sidecar cannot be read has no known owner.)
CheckEntry(c) ==
    LET r == ls[c] IN
    /\ r.pc = "check" /\ r.i <= Len(r.names)
    /\ \E read \in BOOLEAN :
         LET e == r.names[r.i] IN
         /\ r.peer = Root => read
         /\ ls' = [ls EXCEPT ![c].i = r.i + 1,
                             ![c].visible = IF Visible(c, e, read) THEN @ \cup {r.i} ELSE @,
                             ![c].stay = IF read THEN @ ELSE @ \ {e}]
         /\ Disturbed(~read)
    /\ UNCHANGED <<sc, ring, quarantine, told, scans>>

SendCount(c) ==
    /\ ls[c].pc = "check" /\ ls[c].i > Len(ls[c].names)
    /\ ls' = [ls EXCEPT ![c].pc = "rows", ![c].i = 1, ![c].count = Cardinality(ls[c].visible)]
    /\ UNCHANGED <<sc, ring, quarantine, told, scans, disturbances>>

\* Second pass: the sidecar is read again; without it the row has no details.
SendRow(c) ==
    LET r == ls[c]
        e == r.names[r.i]
    IN  /\ r.pc = "rows" /\ r.i <= Len(r.names)
        /\ IF r.i \notin r.visible
           THEN ls' = [ls EXCEPT ![c].i = r.i + 1] /\ UNCHANGED disturbances
           ELSE \/ \E read \in BOOLEAN :
                     LET known == read /\ e \in DOMAIN box /\ box[e].uid # NoUser IN
                     /\ ls' = [ls EXCEPT ![c].i = r.i + 1,
                                         ![c].rows = Append(@, [id |-> e, known |-> known])]
                     /\ Disturbed(~read)
                \/ ls' = [ls EXCEPT ![c].pc = "listed"] /\ Disturbed(TRUE)
        /\ UNCHANGED <<sc, ring, quarantine, told, scans>>

SendEnd(c) ==
    /\ ls[c].pc = "rows" /\ ls[c].i > Len(ls[c].names)
    /\ ls' = [ls EXCEPT ![c].pc = "listed", ![c].whole = TRUE]
    /\ UNCHANGED <<sc, ring, quarantine, told, scans, disturbances>>

Hangup(c) ==
    /\ ls[c].pc \in {"verdicts", "listed"}
    /\ ls' = [ls EXCEPT ![c] = NoReply]
    /\ UNCHANGED <<sc, ring, quarantine, told, scans, disturbances>>

\* QUARANTINE RESTORE and DELETE take an entry and its sidecar away; a restored
\* file is back under its path, which only the sidecar knows.
RestoreOrDelete(e) ==
    /\ e \in DOMAIN box
    /\ box' = Without(e)
    /\ there' \in {there} \cup (IF box[e].uid = NoUser THEN {} ELSE {there \cup {box[e].file}})
    /\ EntriesLeave
    /\ Disturbed(TRUE)
    /\ UNCHANGED <<sc, ring, told, scans>>

----------------------------------------------------------------------------
\* The ring is static and all zero.
NoRecord == [id |-> 0, file |-> NoFile, uid |-> Root, verdict |-> "CLEAN", by |-> NoFile,
             faulty |-> FALSE]

Init ==
    /\ sc = [t \in Scanners |-> Idle]
    /\ hist = [i \in 0 .. HistoryMax - 1 |-> NoRecord]
    /\ count = 0 /\ next = 0 /\ nextId = 1
    /\ there \in Starts /\ box = <<>>
    /\ ls = [c \in Listers |-> NoReply]
    /\ told = [t \in Scanners |-> "nothing"]
    /\ log = <<>> /\ scans = 0 /\ disturbances = 0

ScanNext(t) ==
    \/ \E f \in Files : perform_scan(t, f) \/ OpenFails(t, f)
    \/ LinkIn(t) \/ SealEntry(t) \/ Record(t) \/ Reply(t)

ListNext(c) ==
    \/ cmd_verdicts_recent(c) \/ ListNames(c) \/ CheckEntry(c) \/ SendCount(c)
    \/ SendRow(c) \/ SendEnd(c) \/ Hangup(c)

Next ==
    \/ \E t \in Scanners : ScanNext(t)
    \/ \E c \in Listers : ListNext(c)
    \/ \E e \in DOMAIN box : RestoreOrDelete(e)

Spec == Init /\ [][Next]_vars

----------------------------------------------------------------------------
(* Properties.                                                             *)

\* What the rule set and the corpora say of a file, without any order of
\* engines, loop or threshold arithmetic.
KnownBad(f) ==
    \/ \E r \in Matches[f] : r \in Override
    \/ \E S \in SUBSET Matches[f] : Score(S) >= Threshold
    \/ /\ f \notin Big
       /\ \/ \E l \in Range(FuzzyFile) \ Malformed : Similarity[f][l] >= FuzzyThreshold
          \/ /\ f \notin Short
             /\ \E l \in Range(TlshFile) \ (Malformed \cup Oversized) :
                  Distance[f][l] \in 0 .. MaxDiff

\* A file is convicted only on evidence, and a file with evidence is convicted
\* whenever no engine failed, by workers and by on-demand scans alike: the
\* digest that leaves the shared offset at the end of the file, and the engine
\* that ran before, cost no engine its input (perform_scan).  What avctl scan
\* prints is the verdict recorded for that file, even when its reply was cut.
VerdictFollowsEvidence ==
    /\ \A i \in DOMAIN log :
         LET r == log[i] IN
         /\ r.verdict = "MALICIOUS" => KnownBad(r.file)
         /\ r.verdict = "CLEAN" /\ ~r.faulty => ~KnownBad(r.file)
    /\ \A t \in Conns :
         told[t] \in {"CLEAN", "MALICIOUS"} =>
           \E i \in DOMAIN log : log[i].file = sc[t].file /\ log[i].verdict = told[t]

Newest(s, n) == SubSeq(s, IF Len(s) > n THEN Len(s) - n + 1 ELSE 1, Len(s))

\* The reply to VERDICTS RECENT n lists, newest first, the verdicts among the
\* last HistoryMax recorded that the peer may see, none skipped and no more than
\* n; unless a write failed there are COUNT of them, however many threads record
\* meanwhile and wherever the ring wraps.
RecentIsNewest ==
    \A c \in Listers :
      ls[c].pc = "verdicts" =>
        LET all == Keep(Reverse(Newest(SubSeq(log, 1, ls[c].upto), HistoryMax)),
                        {r \in Range(log) : ls[c].peer \in {Root, r.uid}})
        IN  /\ IsPrefix(ls[c].rows, all)
            /\ Len(ls[c].rows) <= ls[c].limit
            /\ ls[c].whole => /\ Len(ls[c].rows) = ls[c].count
                              /\ ls[c].count = ls[c].limit \/ ls[c].rows = all

\* A QUARANTINE LIST reply never shows a peer another user's entry; unless a
\* write failed, COUNT is the number of rows and no entry of the peer that was
\* in quarantine from the first to the last step is missing, though entries
\* come and go between the two passes over the sidecars, but for one whose
\* sidecar could not be read: that one is root's alone.
ListIsFaithful ==
    \A c \in Listers :
      LET ids == {ls[c].rows[i].id : i \in DOMAIN ls[c].rows} IN
      ls[c].pc = "listed" =>
        /\ \A e \in ids : ls[c].peer = Root \/ e \notin DOMAIN box \/ box[e].uid = ls[c].peer
        /\ ls[c].whole =>
             /\ Len(ls[c].rows) = ls[c].count
             /\ ls[c].stay \subseteq ids

\* The row of question marks, of an entry without metadata, is "only reachable
\* here when is_root" (comment of cmd_quarantine_list, avd.c:2343).
UnknownIsRootOnly ==
    \A c \in Listers :
      ls[c].pc \in {"rows", "listed"} /\ ls[c].peer # Root =>
        \A i \in DOMAIN ls[c].rows : ls[c].rows[i].known

----------------------------------------------------------------------------
(* The inductive invariant (module VerdictsProofs).                        *)

Uids == {Owner[f] : f \in Files} \cup {NoUser, Root}
Reasons == {NoFile, "yara"} \cup Range(FuzzyFile) \cup Range(TlshFile)
Scan == [pc : {"idle", "quarantine", "meta", "record", "reply"}, no : Nat,
         file : Files \cup {NoFile}, uid : Uids, eof : BOOLEAN, sha : BOOLEAN,
         verdict : {"CLEAN", "MALICIOUS"}, by : Reasons, faulty : BOOLEAN]
Verdict == [id : Nat, file : Files \cup {NoFile}, uid : Uids,
            verdict : {"CLEAN", "MALICIOUS"}, by : Reasons, faulty : BOOLEAN]
Row == [id : Nat, known : BOOLEAN]
ListReply == [pc : {"idle", "verdicts", "check", "rows", "listed"}, peer : Users \cup {NoUser},
              rows : Seq(Verdict) \cup Seq(Row), count : Nat, whole : BOOLEAN, names : Seq(Nat),
              i : Nat, visible : SUBSET Nat, upto : Nat, limit : Nat, stay : SUBSET Nat]

TypeOK ==
    /\ sc \in [Scanners -> Scan] /\ scans \in Nat
    /\ hist \in [0 .. HistoryMax - 1 -> Verdict] /\ log \in Seq(Verdict)
    /\ count \in Nat /\ next \in 0 .. HistoryMax - 1 /\ nextId \in Nat
    /\ there \subseteq Files
    /\ DOMAIN box \subseteq 1 .. scans
    /\ \A e \in DOMAIN box : box[e] \in [file : Files, uid : Uids]
    /\ ls \in [Listers -> ListReply]
    /\ told \in [Scanners -> {"nothing", "error", "CLEAN", "MALICIOUS"}]

\* Behind VerdictFollowsEvidence: it holds of each scan before its verdict is
\* recorded, and what a connection is about to reply has been recorded.
Justified(r) == /\ r.verdict = "MALICIOUS" => KnownBad(r.file)
                /\ r.verdict = "CLEAN" /\ ~r.faulty => ~KnownBad(r.file)
Logged(f, v) == \E i \in DOMAIN log : log[i].file = f /\ log[i].verdict = v

EvidenceInv ==
    /\ \A t \in Scanners :
         /\ sc[t].pc # "idle" => sc[t].file \in Files /\ Justified(sc[t])
         /\ sc[t].pc = "reply" => Logged(sc[t].file, sc[t].verdict)
         /\ told[t] \in {"CLEAN", "MALICIOUS"} => Logged(sc[t].file, told[t])
    /\ \A i \in DOMAIN log : Justified(log[i])

\* Behind RecentIsNewest: walking back from the cursor, the ring holds the last
\* entries of the history.
RingInv ==
    /\ count = IF Len(log) < HistoryMax THEN Len(log) ELSE HistoryMax
    /\ \A i \in 1 .. count : hist[(next + HistoryMax - i) % HistoryMax] = log[Len(log) + 1 - i]

RecentInv ==
    \A c \in Listers : ls[c].pc = "verdicts" => ls[c].rows \in Seq(Verdict) /\ ls[c].upto <= Len(log)

\* Behind ListIsFaithful: a number is given to one scan, whose entry appears
\* once; a listing has seen of its entries what it has passed.
NumberInv ==
    /\ \A t \in Scanners : sc[t].pc # "idle" => sc[t].no \in 1 .. scans
    /\ \A t, u \in Scanners :
         t # u /\ sc[t].pc # "idle" /\ sc[u].pc # "idle" => sc[t].no # sc[u].no
    /\ \A c \in Listers : Range(ls[c].names) \subseteq 1 .. scans
    /\ \A t \in Scanners :
         /\ sc[t].pc = "quarantine" =>
              sc[t].no \notin DOMAIN box /\ \A c \in Listers : sc[t].no \notin Range(ls[c].names)
         /\ sc[t].pc = "meta" /\ sc[t].no \in DOMAIN box => box[sc[t].no].uid = NoUser

\* e is not another user's, as far as one can tell.
Own(r, e) == r.peer = Root \/ e \notin DOMAIN box \/ box[e].uid = r.peer
Passed(r) == {j \in r.visible : j < r.i}
Listing(r) ==
    /\ r.i \in 1 .. Len(r.names) + 1
    /\ r.stay \subseteq Range(r.names) \cap DOMAIN box
    /\ \A j \in r.visible : j \in 1 .. Len(r.names)
    /\ \A j \in 1 .. Len(r.names) :
         r.names[j] \in r.stay /\ (r.pc = "check" => j < r.i) => j \in r.visible
    /\ \A e \in r.stay \cup {r.names[j] : j \in r.visible} : Own(r, e)

ListInv ==
    \A c \in Listers :
      LET r == ls[c] IN
      /\ r.pc # "idle" => r.peer \in Users
      /\ r.pc \in {"check", "rows"} => Listing(r)
      /\ r.pc = "check" => r.rows = <<>> /\ ~r.whole /\ \A j \in r.visible : j < r.i
      /\ r.pc = "rows" =>
           /\ r.rows \in Seq(Row) /\ ~r.whole
           /\ r.count = Cardinality(r.visible)
           /\ Len(r.rows) = Cardinality(Passed(r))
           /\ {r.rows[k].id : k \in DOMAIN r.rows} = {r.names[j] : j \in Passed(r)}
      /\ r.pc = "listed" =>
           /\ r.rows \in Seq(Row)
           /\ \A k \in DOMAIN r.rows : r.rows[k].id \in Range(r.names)

IInv == /\ TypeOK /\ EvidenceInv /\ RingInv /\ RecentInv /\ NumberInv /\ ListInv
        /\ RecentIsNewest /\ ListIsFaithful
=============================================================================
