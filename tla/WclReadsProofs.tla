--------------------------- MODULE WclReadsProofs ---------------------------
(***************************************************************************)
(* What a Warcraft Logs command shows, for any plans of reads, accounts,   *)
(* lifetimes and bounds, wherever logins, logouts, growths of the report   *)
(* and ticks of the clock fall between its steps.  The inductive invariant *)
(* has a part for the login, one for the entries of the cache and one for  *)
(* the command: an entry is its asker's, whole, and not kept for longer    *)
(* than what the report's state allowed when it was read.                  *)
(***************************************************************************)
EXTENDS WclReads, TLAPS

(* The names in the plans. *)
Reads == {"-"} \cup UNION {{Plan[c][i].read : i \in DOMAIN Plan[c]} : c \in DOMAIN Plan}
Slugs == UNION {{Plan[c][i].slug : i \in DOMAIN Plan[c]} : c \in DOMAIN Plan}

Shown == [read : Reads, owner : Owners, of : Owners, version : Nat, asked : Nat, when : Nat, keep : Nat]

Runs == [command : DOMAIN Plan \cup {"-"}, count : Nat, watch : Reads, at : Nat, policy : {"-", "client", "user", "auto"},
         keep : Nat, refresh : BOOLEAN, began : Nat, via : {"-", "client", "user"}, owner : Owners, gap : BOOLEAN, warned : BOOLEAN,
         shown : Shown, result : {"-", "done", "failed"}]

Entries == [key : [owner : Owners, read : Reads, slug : Slugs], of : Owners, version : Nat,
            asked : Nat, until : Nat, keep : Nat, gap : BOOLEAN, absent : BOOLEAN]

(* An account that reads has logged in on the site of the commands. *)
Fits(owner) == owner # Client => SiteOf[owner] = Site

WorldTyped ==
  /\ clock \in Nat /\ grown \in Seq(Nat) /\ grown # <<>>
  /\ login.kind = "user" => login.account \in Account /\ SiteOf[login.account] = login.site

(* The report grows forward in time. *)
GrowsOn ==
  /\ \A i \in 1..Len(grown) : grown[i] <= clock
  /\ \A i, j \in 1..Len(grown) : i <= j => grown[i] <= grown[j]

(* An entry was read from the version that was there, and is kept for long  *)
(* only if the report had been quiet then, or --cache-ttl asked for it.     *)
InTimeWith(version, asked) ==
  /\ version \in 1..Len(grown) /\ grown[version] <= asked /\ asked <= clock
  /\ version < Len(grown) => asked <= grown[version + 1]

EntryHolds(e) ==
  /\ e \in Entries
  /\ e.of = e.key.owner /\ ~e.gap
  /\ InTimeWith(e.version, e.asked) /\ clock < e.until
  /\ e.key.read \notin Live
  /\ e.key.read = "raw" => e.until <= e.asked + e.keep
  /\ e.key.read \in Recomputed => e.until <= e.asked + LiveTTL
  /\ e.key.read \in OfReport =>
       \/ e.until <= e.asked + LiveTTL
       \/ e.asked - grown[e.version] >= Quiet /\ e.until <= e.asked + FinishedTTL

CacheHolds == \A e \in cache : EntryHolds(e)

RunTyped(r) ==
  /\ r \in Runs
  /\ IF r.command = "-" THEN r.result = "-" ELSE r.at \in 1..Len(Plan[r.command])
  /\ r.began <= clock

Owned(r) == Fits(r.owner) /\ Fits(r.shown.owner) /\ r.shown.of = r.shown.owner

Told(r) == r.gap => r.warned

(* What was shown was not far behind, and does not get so by what happens   *)
(* later.                                                                   *)
Allowed(read, keep) == IF read = "raw" THEN keep ELSE LiveTTL

Behind(s) ==
  \/ s.when <= grown[s.version + 1]
  \/ s.when - grown[s.version + 1] < Allowed(s.read, s.keep)
  \/ /\ s.read \in OfReport
     /\ grown[s.version + 1] - grown[s.version] >= Quiet
     /\ s.when - grown[s.version + 1] < FinishedTTL

Sighted(r) ==
  r.shown # Nothing =>
    /\ r.shown.version \in 1..Len(grown) /\ r.shown.when <= clock
    /\ r.refresh => r.shown.asked >= r.began
    /\ r.shown.read \in OfReport \cup Recomputed \cup Live \cup {"raw"} /\ r.shown.version < Len(grown) => Behind(r.shown)

RunHolds(r) == RunTyped(r) /\ Owned(r) /\ Told(r) /\ Sighted(r)

Inv == WorldTyped /\ GrowsOn /\ CacheHolds /\ RunHolds(run)

-----------------------------------------------------------------------------
(* Where a command can go after a step. *)

After(r) == {Onward(r), Refuse(r), Answer(r)}

LEMMA NothingTyped == Nothing \in Shown
BY DEF Nothing, Shown, Owners, Reads

LEMMA IdleHolds ==
  ASSUME WorldTyped
  PROVE  RunHolds(Idle)
<1>1. Idle \in Runs
  BY NothingTyped DEF Idle, Runs, Owners, Reads
<1>2. QED
  BY <1>1 DEF Idle, RunHolds, RunTyped, Owned, Fits, Told, Sighted, Nothing, WorldTyped

LEMMA RestedHolds ==
  ASSUME NEW r, RunHolds(r)
  PROVE  RunHolds(Rested(r))
<1>1. Rested(r) \in Runs
  BY NothingTyped DEF RunHolds, RunTyped, Rested, Runs, Owners
<1>2. Rested(r).shown \in {r.shown, Nothing} /\ Rested(r).owner = Client
  BY DEF RunHolds, RunTyped, Rested, Runs
<1>3. /\ Rested(r).command = r.command /\ Rested(r).at = r.at /\ Rested(r).began = r.began
      /\ Rested(r).gap = r.gap /\ Rested(r).warned = r.warned /\ Rested(r).refresh = r.refresh
      /\ Rested(r).result = r.result
  BY DEF RunHolds, RunTyped, Rested, Runs
<1>4. RunTyped(Rested(r)) /\ Told(Rested(r))
  BY <1>1, <1>3 DEF RunHolds, RunTyped, Told
<1>5. Owned(Rested(r))
  BY <1>2 DEF RunHolds, Owned, Fits, Nothing
<1>6. Sighted(Rested(r))
  BY <1>2, <1>3 DEF RunHolds, Sighted
<1>7. QED BY <1>4, <1>5, <1>6 DEF RunHolds

LEMMA AfterHolds ==
  ASSUME NEW r, RunHolds(r), r.command # "-", NEW x \in After(r)
  PROVE  RunHolds(x)
<1> DEFINE q == Rested(r)
<1>1. RunHolds(q) /\ q \in Runs
  BY RestedHolds DEF RunHolds, RunTyped
<1>2. q.command = r.command /\ q.at = r.at
  BY DEF RunHolds, RunTyped, Rested, Runs
<1>3. ASSUME NEW result \in {"done", "failed"}
      PROVE  RunHolds([q EXCEPT !.result = result])
  <2> DEFINE o == [q EXCEPT !.result = result]
  <2>1. /\ o \in Runs /\ o.command # "-" /\ o.at = q.at /\ o.command = q.command /\ o.began = q.began
        /\ o.owner = q.owner /\ o.shown = q.shown /\ o.gap = q.gap /\ o.warned = q.warned
        /\ o.refresh = q.refresh
    BY <1>1, <1>2 DEF Runs
  <2>2. QED BY <1>1, <2>1 DEF RunHolds, RunTyped, Owned, Told, Sighted
<1>4. CASE r.at # Len(Plan[r.command])
  <2>1. Plan[r.command] \in Seq([kind : {"need", "spare", "may", "probe", "spell", "check"}, read : STRING, slug : STRING])
    BY ReadsAssumption DEF RunHolds, RunTyped, Runs
  <2>2. r.at + 1 \in 1..Len(Plan[r.command])
    BY <1>4, <2>1 DEF RunHolds, RunTyped
  <2> DEFINE o == [q EXCEPT !.at = @ + 1]
  <2>3. /\ o \in Runs /\ o.at = r.at + 1 /\ o.command = r.command /\ o.began = q.began /\ o.owner = q.owner
        /\ o.shown = q.shown /\ o.gap = q.gap /\ o.warned = q.warned /\ o.refresh = q.refresh
    BY <1>1, <1>2 DEF Runs
  <2>4. RunHolds(o)
    BY <1>1, <2>2, <2>3 DEF RunHolds, RunTyped, Owned, Told, Sighted
  <2>5. Onward(r) = o
    BY <1>4 DEF Onward
  <2>6. QED BY <1>3, <2>4, <2>5 DEF After, Refuse, Answer
<1>5. CASE r.at = Len(Plan[r.command])
  BY <1>3, <1>5 DEF After, Refuse, Answer, Onward
<1>6. QED BY <1>4, <1>5

LEMMA AfterIsOne ==
  ASSUME NEW r
  PROVE  AfterFailure(r) \in After(r) /\ AfterMissing(r) \in After(r) /\ AfterFound(r) \in After(r)
BY DEF After, AfterFailure, AfterMissing, AfterFound

-----------------------------------------------------------------------------
(* The step a command is at, and its names. *)
LEMMA StepNamed ==
  ASSUME RunHolds(run), run.command # "-"
  PROVE  Step.read \in Reads /\ Step.slug \in Slugs
<1>1. run.command \in DOMAIN Plan /\ run.at \in 1..Len(Plan[run.command])
  BY DEF RunHolds, RunTyped, Runs
<1>2. run.at \in DOMAIN Plan[run.command]
  BY <1>1, ReadsAssumption
<1>3. QED BY <1>1, <1>2 DEF Step, Reads, Slugs

(* What others do leaves the command as it is. *)
LEMMA RunStays ==
  ASSUME Inv, WorldTyped', clock' \in {clock, clock + 1}, UNCHANGED grown, run' = run
  PROVE  RunHolds(run)'
<1>1. RunTyped(run)' /\ Told(run)' /\ Owned(run)'
  BY DEF Inv, WorldTyped, RunHolds, RunTyped, Runs, Told, Owned, Fits
<1>2. Sighted(run)'
  BY DEF Inv, WorldTyped, RunHolds, RunTyped, Runs, Shown, Sighted, Behind
<1>3. QED BY <1>1, <1>2 DEF RunHolds

(* A command that goes on, when the world stays as it is. *)
LEMMA RunMoves ==
  ASSUME Inv, UNCHANGED <<clock, grown, login, cache>>, RunHolds(run')
  PROVE  Inv'
BY DEF Inv, WorldTyped, GrowsOn, CacheHolds, EntryHolds, InTimeWith,
       RunHolds, RunTyped, Owned, Told, Sighted, Behind

(* A command that has just started. *)
LEMMA FreshHolds ==
  ASSUME WorldTyped, NEW r \in Runs, r.command # "-", r.at = 1, r.began <= clock,
         r.owner = Client, r.shown = Nothing, r.gap = FALSE
  PROVE  RunHolds(r)
<1>1. 1 \in 1..Len(Plan[r.command])
  BY ReadsAssumption DEF Runs
<1>2. QED BY <1>1 DEF RunHolds, RunTyped, Owned, Fits, Told, Sighted, Nothing

LEMMA StartHolds ==
  ASSUME Inv, (\E command \in DOMAIN Plan : Start(command)) \/ StartAgain
  PROVE  Inv'
<1>1. Idle \in Runs /\ WorldTyped
  BY IdleHolds DEF Inv, RunHolds, RunTyped
<1>2. ASSUME NEW c \in DOMAIN Plan, Start(c) PROVE Inv'
  <2>1. PICK policy \in {"client", "user", "auto"}, w \in Watch[c], keep \in CacheTTL :
          run' = [Idle EXCEPT !.command = c, !.count = 1, !.at = 1, !.watch = w, !.policy = policy,
                              !.keep = keep]
    BY <1>2 DEF Start
  <2>2. w \in Reads /\ c # "-" /\ keep \in Nat
    BY ReadsAssumption DEF Reads
  <2>3. /\ run' \in Runs /\ run'.command = c /\ run'.at = 1 /\ run'.began = 0
        /\ run'.owner = Client /\ run'.shown = Nothing /\ run'.gap = FALSE
    BY <1>1, <2>1, <2>2 DEF Runs, Idle
  <2>4. run'.began <= clock
    BY <1>1, <2>3 DEF WorldTyped
  <2>5. RunHolds(run')
    BY <1>1, <2>2, <2>3, <2>4, FreshHolds
  <2>6. QED BY <1>2, <2>5, RunMoves DEF Start, others
<1>3. ASSUME StartAgain PROVE Inv'
  <2>1. PICK refresh \in BOOLEAN, keep \in CacheTTL :
          run' = [Idle EXCEPT !.command = run.command, !.count = run.count + 1, !.at = 1,
                              !.watch = run.watch, !.policy = run.policy, !.keep = keep,
                              !.refresh = refresh,
                              !.began = IF refresh THEN clock ELSE 0]
    BY <1>3 DEF StartAgain
  <2>2. run.command # "-"
    BY <1>3 DEF StartAgain, Inv, RunHolds, RunTyped
  <2>3. /\ run.command \in DOMAIN Plan /\ run.watch \in Reads /\ run.count + 1 \in Nat
        /\ run.policy \in {"-", "client", "user", "auto"} /\ keep \in Nat
    BY <2>2, ReadsAssumption DEF Inv, RunHolds, RunTyped, Runs
  <2>4. \E began \in Nat : began <= clock /\ began = (IF refresh THEN clock ELSE 0)
    BY <1>1 DEF WorldTyped
  <2>5. /\ run' \in Runs /\ run'.command = run.command /\ run'.at = 1 /\ run'.began <= clock
        /\ run'.owner = Client /\ run'.shown = Nothing /\ run'.gap = FALSE
    BY <1>1, <2>1, <2>3, <2>4 DEF Runs, Idle
  <2>6. RunHolds(run')
    BY <1>1, <2>2, <2>5, FreshHolds
  <2>7. QED BY <1>3, <2>6, RunMoves DEF StartAgain, others
<1>4. QED BY <1>2, <1>3

(* A command that takes none of its reads further. *)
LEMMA PassCheckHolds ==
  ASSUME Inv, PassCheck \/ Skip
  PROVE  Inv'
<1>1. run' \in After(run) /\ run.command # "-"
  BY DEF PassCheck, Skip, Running, After
<1>2. RunHolds(run')
  BY <1>1, AfterHolds DEF Inv
<1>3. QED BY <1>2, RunMoves DEF PassCheck, Skip, others

LEMMA ChooseEndpointHolds ==
  ASSUME Inv, ChooseEndpoint
  PROVE  Inv'
<1>1. PICK via \in {"user", "client"} : run' = [run EXCEPT !.via = via]
  BY DEF ChooseEndpoint
<1>2. /\ run' \in Runs /\ run'.command = run.command /\ run'.at = run.at /\ run'.began = run.began
      /\ run'.owner = run.owner /\ run'.shown = run.shown /\ run'.gap = run.gap
      /\ run'.warned = run.warned /\ run'.refresh = run.refresh /\ run'.result = run.result
  BY <1>1 DEF Inv, RunHolds, RunTyped, Runs
<1>3. RunHolds(run')
  BY <1>2 DEF Inv, RunHolds, RunTyped, Owned, Told, Sighted
<1>4. QED BY <1>3, RunMoves DEF ChooseEndpoint, others

(* A token that is good belongs to an account of the commands' site. *)
LEMMA TakeTokenHolds ==
  ASSUME Inv, TakeToken
  PROVE  Inv'
<1>1. CASE HasUserToken
  <2>1. run' = [run EXCEPT !.owner = login.account]
    BY <1>1 DEF TakeToken
  <2>2. login.account \in Owners /\ Fits(login.account)
    BY <1>1 DEF HasUserToken, Inv, WorldTyped, Owners, Fits
  <2>3. /\ run' \in Runs /\ run'.command = run.command /\ run'.at = run.at /\ run'.began = run.began
        /\ run'.owner = login.account /\ run'.shown = run.shown /\ run'.gap = run.gap
        /\ run'.warned = run.warned /\ run'.refresh = run.refresh /\ run'.result = run.result
    BY <2>1, <2>2 DEF Inv, RunHolds, RunTyped, Runs
  <2>4. RunHolds(run')
    BY <2>2, <2>3 DEF Inv, RunHolds, RunTyped, Owned, Told, Sighted
  <2>5. QED BY <2>4, RunMoves DEF TakeToken, others
<1>2. CASE ~HasUserToken
  <2>1. run' \in After(run) /\ run.command # "-"
    BY <1>2, AfterIsOne DEF TakeToken, Running
  <2>2. RunHolds(run')
    BY <2>1, AfterHolds DEF Inv
  <2>3. QED BY <2>2, RunMoves DEF TakeToken, others
<1>3. QED BY <1>1, <1>2

(* What a replayed entry, or an answer just read, shows. *)
LEMMA ShownHolds ==
  ASSUME Inv, NEW e, NEW r, RunHolds(r), r.command # "-", r.refresh => e.asked >= r.began,
         e.of = r.owner, e.of \in Owners, e.version \in Nat, e.asked \in Nat, e.keep \in Nat, e.gap \in BOOLEAN,
         Step.read \in Reads, InTimeWith(e.version, e.asked), e.gap => r.warned,
         Step.read \in OfReport \cup Recomputed \cup Live \cup {"raw"} /\ e.version < Len(grown)
           => \/ clock < e.asked + Allowed(Step.read, e.keep)
              \/ /\ Step.read \in OfReport /\ clock < e.asked + FinishedTTL
                 /\ e.asked - grown[e.version] >= Quiet
  PROVE  RunHolds(Shows(r, e)) /\ Shows(r, e).command # "-"
<1> DEFINE s == [read |-> Step.read, owner |-> r.owner, of |-> e.of,
                 version |-> e.version, asked |-> e.asked, when |-> clock, keep |-> e.keep]
           q == Shows(r, e)
<1>1. s \in Shown
  BY DEF Shown, RunHolds, RunTyped, Runs, Inv, WorldTyped
<1>2. (r.gap \/ (e.gap /\ Step.kind # "probe")) \in BOOLEAN
  BY DEF RunHolds, RunTyped, Runs
<1>3. /\ q \in Runs /\ q.command = r.command /\ q.at = r.at /\ q.began = r.began /\ q.owner = r.owner
      /\ q.shown = s /\ q.warned = r.warned /\ q.refresh = r.refresh /\ q.result = r.result
      /\ q.gap = (r.gap \/ (e.gap /\ Step.kind # "probe"))
  BY <1>1, <1>2 DEF RunHolds, RunTyped, Runs, Shows
<1>4. RunTyped(q) /\ Told(q) /\ q.command # "-"
  BY <1>3 DEF RunHolds, RunTyped, Told
<1>5. Owned(q)
  BY <1>3 DEF RunHolds, Owned, Fits
<1>6. Sighted(q)
  <2>1. /\ q.shown.version = e.version /\ q.shown.when = clock /\ q.shown.asked = e.asked
        /\ q.shown.read = Step.read /\ q.shown.keep = e.keep
    BY <1>3
  <2>2. q.shown.version \in 1..Len(grown) /\ q.shown.when <= clock
    BY <2>1 DEF InTimeWith, Inv, WorldTyped
  <2>3. ASSUME Step.read \in OfReport \cup Recomputed \cup Live \cup {"raw"}, e.version < Len(grown)
        PROVE  Behind(s)
    <3>1. /\ e.asked <= grown[e.version + 1] /\ grown[e.version] \in Nat /\ grown[e.version + 1] \in Nat
          /\ clock \in Nat
      <4>1. clock \in Nat /\ grown \in Seq(Nat) /\ e.version \in 1..Len(grown)
        BY DEF InTimeWith, Inv, WorldTyped
      <4>2. e.version + 1 \in 1..Len(grown)
        BY <2>3, <4>1
      <4>3. QED BY <2>3, <4>1, <4>2 DEF InTimeWith
    <3>2. LiveTTL \in Nat /\ FinishedTTL \in Nat /\ Quiet \in Nat /\ Allowed(Step.read, e.keep) \in Nat
      BY ReadsAssumption DEF Allowed
    <3>3. /\ s.version = e.version /\ s.when = clock /\ s.read = Step.read /\ s.keep = e.keep
          /\ e.version + 1 \in Nat /\ e.asked \in Nat
      OBVIOUS
    <3>4. CASE clock < e.asked + Allowed(Step.read, e.keep)
      <4>1. clock - grown[e.version + 1] < Allowed(Step.read, e.keep)
        BY <3>1, <3>2, <3>3, <3>4
      <4>2. QED BY <3>3, <4>1 DEF Behind
    <3>5. CASE /\ Step.read \in OfReport /\ clock < e.asked + FinishedTTL
               /\ e.asked - grown[e.version] >= Quiet
      <4>1. clock - grown[e.version + 1] < FinishedTTL /\ grown[e.version + 1] - grown[e.version] >= Quiet
        BY <3>1, <3>2, <3>3, <3>5
      <4>2. QED BY <3>3, <3>5, <4>1 DEF Behind
    <3>6. QED BY <2>3, <3>4, <3>5
  <2>4. QED BY <1>3, <2>1, <2>2, <2>3 DEF Sighted
<1>7. QED BY <1>4, <1>5, <1>6 DEF RunHolds

(* An entry is only kept while the report it was read from allows it. *)
LEMMA ReplayHolds ==
  ASSUME Inv, Replay
  PROVE  Inv'
<1>1. Ready /\ run.command # "-" /\ ~run.refresh
  BY DEF Replay, Ready, Running, MayReplay
<1>2. PICK e \in Cached : run' = IF e.absent THEN AfterMissing(run) ELSE AfterFound(Shows(run, e))
  BY DEF Replay
<1>3. RunHolds(run)
  BY DEF Inv
<1>4. Step.read \in Reads /\ Step.slug \in Slugs
  BY <1>1, <1>3, StepNamed
<1>5. e \in cache /\ EntryHolds(e) /\ e.key.owner = run.owner /\ e.key.read = Step.read
  BY <1>2 DEF Cached, Key, Inv, CacheHolds
<1>6. RunHolds(Shows(run, e)) /\ Shows(run, e).command # "-"
  <2>1. /\ e.of = run.owner /\ e.gap = FALSE /\ e.of \in Owners /\ e.version \in Nat /\ e.asked \in Nat
        /\ e.keep \in Nat
    BY <1>5 DEF EntryHolds, Entries
  <2>2. InTimeWith(e.version, e.asked)
    BY <1>5 DEF EntryHolds
  <2>3. ASSUME Step.read \in OfReport \cup Recomputed \cup Live \cup {"raw"}
        PROVE  \/ clock < e.asked + Allowed(Step.read, e.keep)
               \/ /\ Step.read \in OfReport /\ clock < e.asked + FinishedTTL
                  /\ e.asked - grown[e.version] >= Quiet
    <3>1. clock \in Nat /\ e.asked \in Nat /\ e.until \in Nat /\ clock < e.until
      BY <1>5 DEF EntryHolds, Entries, Inv, WorldTyped
    <3>2. LiveTTL \in Nat /\ FinishedTTL \in Nat
      BY ReadsAssumption
    <3>3. Step.read # "rate_limit" /\ Step.read # "current_user"
      BY <1>5 DEF EntryHolds, Live
    <3>4. CASE Step.read = "raw"
      <4>1. e.until <= e.asked + e.keep /\ Allowed(Step.read, e.keep) = e.keep
        BY <1>5, <3>4 DEF EntryHolds, Allowed
      <4>2. QED BY <2>1, <3>1, <4>1
    <3>5. CASE Step.read # "raw"
      <4>1. Allowed(Step.read, e.keep) = LiveTTL /\ Step.read \in OfReport \cup Recomputed
        BY <2>3, <3>3, <3>5 DEF Allowed, Live
      <4>2. \/ e.until <= e.asked + LiveTTL
            \/ /\ Step.read \in OfReport /\ e.until <= e.asked + FinishedTTL
               /\ e.asked - grown[e.version] >= Quiet
        BY <1>5, <4>1 DEF EntryHolds
      <4>3. QED BY <3>1, <3>2, <4>1, <4>2
    <3>6. QED BY <3>4, <3>5
  <2>4. QED BY <1>1, <1>3, <1>4, <2>1, <2>2, <2>3, ShownHolds
<1>7. RunHolds(run')
  BY <1>1, <1>2, <1>3, <1>6, AfterIsOne, AfterHolds
<1>8. QED BY <1>7, RunMoves DEF Replay, others

LEMMA AskFailsHolds ==
  ASSUME Inv, AskFails
  PROVE  Inv'
<1>1. run' \in After(run) /\ run.command # "-"
  BY AfterIsOne DEF AskFails, Ready, Running
<1>2. RunHolds(run')
  BY <1>1, AfterHolds DEF Inv
<1>3. QED BY <1>2, RunMoves DEF AskFails, others

(* How long an answer is kept; one that is not kept has no lifetime. *)
LEMMA TTLHolds ==
  ASSUME WorldTyped, NEW step, NEW absent \in BOOLEAN, run.keep \in Nat, NEW owner, Keeps(step, owner)
  PROVE  /\ TTL(step, absent) \in Nat \ {0}
         /\ step.read = "raw" => TTL(step, absent) = run.keep
         /\ step.read \in Recomputed => TTL(step, absent) = LiveTTL
         /\ step.read \in OfReport =>
              TTL(step, absent) = LiveTTL
                \/ (TTL(step, absent) = FinishedTTL /\ clock - grown[Len(grown)] >= Quiet)
<1>1. {LiveTTL, GuildTTL, StaticTTL, FinishedTTL} \subseteq Nat \ {0}
  BY ReadsAssumption
<1>2. /\ step.read \in OfReport => step.read \notin Recomputed \cup OfGuild /\ step.read # "raw"
      /\ step.read \in Recomputed => step.read \notin OfGuild /\ step.read # "raw"
      /\ step.read = "raw" => step.read \notin OfGuild
  BY DEF Recomputed, OfReport, OfGuild
<1>3. CASE step.read \in OfReport
  <2>1. TTL(step, absent) = IF Finished(absent) THEN FinishedTTL ELSE LiveTTL
    BY <1>2, <1>3 DEF TTL
  <2>2. QED BY <1>1, <1>2, <1>3, <2>1 DEF Finished
<1>4. CASE step.read \in Recomputed
  <2>1. TTL(step, absent) = LiveTTL
    BY <1>2, <1>4 DEF TTL
  <2>2. QED BY <1>1, <1>2, <1>4, <2>1
<1>5. CASE step.read = "raw"
  <2>1. TTL(step, absent) = run.keep
    BY <1>2, <1>5 DEF TTL
  <2>2. run.keep > 0
    BY <1>5 DEF Keeps
  <2>3. QED BY <1>2, <1>5, <2>1, <2>2
<1>6. CASE step.read \notin OfReport \cup Recomputed \cup {"raw"}
  <2>1. TTL(step, absent) \in {GuildTTL, StaticTTL}
    BY <1>6 DEF TTL
  <2>2. QED BY <1>1, <1>6, <2>1
<1>7. QED BY <1>3, <1>4, <1>5, <1>6

(* An answer is kept as it was read, and only if it is whole. *)
LEMMA KeptHolds ==
  ASSUME Inv, Ready, NEW gap \in BOOLEAN, NEW absent \in BOOLEAN, NEW e,
         e = [key |-> Key(run.owner, Step), of |-> run.owner, version |-> Len(grown),
              asked |-> clock, until |-> clock + TTL(Step, absent), keep |-> run.keep,
              gap |-> gap, absent |-> absent],
         KeepsAnswer(e)
  PROVE  EntryHolds(e)
<1>1. Step.read \in Reads /\ Step.slug \in Slugs /\ run.owner \in Owners
  BY StepNamed DEF Inv, Ready, Running, RunHolds, RunTyped, Runs
<1>2. /\ TTL(Step, absent) \in Nat \ {0} /\ clock \in Nat /\ Len(grown) \in Nat
      /\ run.keep \in Nat /\ Keeps(Step, run.owner)
  BY TTLHolds DEF Inv, WorldTyped, RunHolds, RunTyped, Runs, KeepsAnswer
<1>3. e \in Entries
  BY <1>1, <1>2 DEF Entries, Key
<1>4. e.of = e.key.owner /\ e.key.read = Step.read /\ ~e.gap /\ Step.read \notin Live
  BY DEF Key, KeepsAnswer, Keeps
<1>5. InTimeWith(e.version, e.asked) /\ clock < e.until
  BY <1>2 DEF InTimeWith, Inv, GrowsOn, WorldTyped
<1>6. /\ Step.read = "raw" => e.until <= e.asked + e.keep
      /\ Step.read \in Recomputed => e.until <= e.asked + LiveTTL
  BY <1>2, TTLHolds, ReadsAssumption DEF Inv
<1>7. Step.read \in OfReport =>
        \/ e.until <= e.asked + LiveTTL
        \/ e.asked - grown[e.version] >= Quiet /\ e.until <= e.asked + FinishedTTL
  BY <1>2, TTLHolds, ReadsAssumption DEF Inv
<1>8. QED BY <1>3, <1>4, <1>5, <1>6, <1>7 DEF EntryHolds

LEMMA AskHolds ==
  ASSUME Inv, NEW gap \in BOOLEAN, NEW absent \in BOOLEAN, Ask(gap, absent)
  PROVE  Inv'
<1> DEFINE e == [key |-> Key(run.owner, Step), of |-> run.owner, version |-> Len(grown),
                 asked |-> clock, until |-> clock + TTL(Step, absent), keep |-> run.keep,
              gap |-> gap, absent |-> absent]
           r == [run EXCEPT !.warned = @ \/ gap]
<1>1. /\ Ready /\ cache' = Stored(e) /\ UNCHANGED <<clock, grown, login>>
      /\ run' = IF absent THEN AfterMissing(r) ELSE AfterFound(Shows(r, e))
  BY DEF Ask, others
<1>2. /\ r \in Runs /\ r.command = run.command /\ r.at = run.at /\ r.began = run.began
      /\ r.owner = run.owner /\ r.shown = run.shown /\ r.gap = run.gap /\ r.refresh = run.refresh
      /\ r.warned = (run.warned \/ gap) /\ r.result = run.result
  BY DEF Inv, RunHolds, RunTyped, Runs
<1>3. RunHolds(r) /\ r.command # "-"
  BY <1>1, <1>2 DEF Inv, RunHolds, RunTyped, Owned, Told, Sighted, Ready, Running
<1>4. Step.read \in Reads /\ run.owner \in Owners
  BY <1>1, StepNamed DEF Inv, Ready, Running, RunHolds, RunTyped, Runs
<1>5. InTimeWith(Len(grown), clock) /\ Len(grown) \in Nat /\ clock \in Nat
  BY DEF InTimeWith, Inv, GrowsOn, WorldTyped
<1>6. RunHolds(Shows(r, e)) /\ Shows(r, e).command # "-"
  <2>1. /\ e.of = r.owner /\ e.of \in Owners /\ e.version = Len(grown) /\ e.asked = clock /\ e.gap = gap
        /\ (gap => r.warned)
    BY <1>2, <1>4
  <2>2. r.began <= clock
    BY <1>2 DEF Inv, RunHolds, RunTyped
  <2>3. r.refresh => clock >= r.began
    BY <2>2, <1>5, <1>2 DEF Runs
  <2>4. ~(e.version < Len(grown))
    BY <2>1, <1>5
  <2>5. /\ InTimeWith(e.version, e.asked) /\ e.version \in Nat /\ e.asked \in Nat /\ e.gap \in BOOLEAN
        /\ e.keep \in Nat
    BY <1>5, <2>1 DEF Inv, RunHolds, RunTyped, Runs
  <2>6. (r.refresh => e.asked >= r.began) /\ (e.gap => r.warned) /\ e.of = r.owner /\ e.of \in Owners
    BY <2>1, <2>3
  <2> HIDE DEF e, r
  <2>7. QED BY <1>3, <1>4, <2>4, <2>5, <2>6, ShownHolds
<1>7. RunHolds(run')
  BY <1>1, <1>3, <1>6, AfterIsOne, AfterHolds
<1>8. ASSUME NEW x \in cache' PROVE EntryHolds(x)
  <2>1. x \in cache \/ (x = e /\ KeepsAnswer(e))
    BY <1>1 DEF Stored
  <2>2. QED BY <1>1, <2>1, KeptHolds DEF Inv, CacheHolds
<1>9. CacheHolds'
  BY <1>1, <1>8 DEF CacheHolds, EntryHolds, InTimeWith
<1>10. RunHolds(run)' /\ WorldTyped' /\ GrowsOn'
  BY <1>1, <1>7 DEF Inv, WorldTyped, GrowsOn, RunHolds, RunTyped, Owned, Told, Sighted, Behind
<1>11. QED BY <1>9, <1>10 DEF Inv

(* Logins and logouts. *)
LEMMA LoginHolds ==
  ASSUME Inv, LoginCommands
  PROVE  Inv'
<1>1. UNCHANGED <<clock, grown, cache, run>>
  BY DEF LoginCommands, BeginLogin, LoadPending, SaveToken, ExchangeFails, Logout, ChangesLogin
<1>2. WorldTyped'
  <2>1. CASE login' = login
    BY <1>1, <2>1 DEF Inv, WorldTyped
  <2>2. CASE \E account \in Account : SaveToken(account)
    <3>1. PICK account \in Account : SaveToken(account)
      BY <2>2
    <3>2. login' = Saved("user", SiteOf[account], account, clock + TokenLife)
      BY <3>1 DEF SaveToken, ChangesLogin
    <3>3. login'.account = account /\ login'.site = SiteOf[account]
      BY <3>2 DEF Saved
    <3>4. QED BY <1>1, <3>3 DEF Inv, WorldTyped
  <2>3. CASE login' = NoLogin \/ \E site \in Sites : login' = Saved("pending", site, Client, 0)
    <3>1. login'.kind # "user"
      BY <2>3 DEF NoLogin, Saved
    <3>2. QED BY <1>1, <3>1 DEF Inv, WorldTyped
  <2>4. QED BY <2>1, <2>2, <2>3
    DEF LoginCommands, BeginLogin, LoadPending, ExchangeFails, Logout, ChangesLogin
<1>3. QED BY <1>1, <1>2 DEF Inv, WorldTyped, GrowsOn, CacheHolds, EntryHolds, InTimeWith,
                           RunHolds, RunTyped, Owned, Told, Sighted, Behind

(* An entry that is still kept when a second has passed. *)
LEMMA TickHolds ==
  ASSUME Inv, Tick
  PROVE  Inv'
<1>1. clock' = clock + 1 /\ UNCHANGED <<grown, login, run>> /\ clock \in Nat
  BY DEF Tick, Inv, WorldTyped
<1>2. WorldTyped'
  BY <1>1 DEF Inv, WorldTyped
<1>3. GrowsOn'
  BY <1>1 DEF Inv, WorldTyped, GrowsOn
<1>4. RunHolds(run)'
  BY <1>1, <1>2, RunStays
<1>5. ASSUME NEW e \in cache' PROVE EntryHolds(e)'
  <2>1. e \in cache /\ clock + 1 < e.until
    BY DEF Tick
  <2>2. EntryHolds(e)
    BY <2>1 DEF Inv, CacheHolds
  <2>3. InTimeWith(e.version, e.asked)'
    BY <1>1, <2>2 DEF EntryHolds, Entries, InTimeWith
  <2>4. QED BY <1>1, <2>1, <2>2, <2>3 DEF EntryHolds
<1>6. QED BY <1>2, <1>3, <1>4, <1>5 DEF Inv, CacheHolds

(* A report that grows leaves what was there in its place. *)
LEMMA GrowHolds ==
  ASSUME Inv, Grow
  PROVE  Inv'
<1>1. /\ grown' = Append(grown, clock) /\ UNCHANGED <<clock, login, cache, run>>
      /\ clock \in Nat /\ grown \in Seq(Nat) /\ grown # <<>>
  BY DEF Grow, Inv, WorldTyped
<1>2. /\ grown' \in Seq(Nat) /\ grown' # <<>> /\ Len(grown') = Len(grown) + 1 /\ Len(grown) \in Nat
      /\ \A i \in 1..Len(grown) : grown'[i] = grown[i]
      /\ grown'[Len(grown) + 1] = clock
  BY <1>1
<1>3. WorldTyped'
  BY <1>1, <1>2 DEF Inv, WorldTyped
<1>4. GrowsOn'
  <2>1. \A i \in 1..Len(grown') : grown'[i] <= clock
    BY <1>1, <1>2 DEF Inv, GrowsOn
  <2>2. ASSUME NEW i \in 1..Len(grown'), NEW j \in 1..Len(grown'), i <= j PROVE grown'[i] <= grown'[j]
    <3>1. CASE j \in 1..Len(grown)
      BY <1>2, <2>2, <3>1 DEF Inv, GrowsOn
    <3>2. CASE j = Len(grown) + 1
      BY <1>2, <2>1, <3>2
    <3>3. QED BY <1>2, <3>1, <3>2
  <2>3. QED BY <1>1, <2>1, <2>2 DEF GrowsOn
<1>5. ASSUME NEW e \in cache PROVE EntryHolds(e)'
  <2>1. EntryHolds(e) /\ e.version \in Nat /\ e.asked \in Nat
    BY DEF Inv, CacheHolds, EntryHolds, Entries
  <2>2. e.version \in 1..Len(grown) /\ grown'[e.version] = grown[e.version]
    BY <1>2, <2>1 DEF EntryHolds, InTimeWith
  <2>3. ASSUME e.version < Len(grown') PROVE e.asked <= grown'[e.version + 1]
    <3>1. CASE e.version < Len(grown)
      <4>1. e.version + 1 \in 1..Len(grown)
        BY <1>2, <2>2, <3>1
      <4>2. grown'[e.version + 1] = grown[e.version + 1]
        BY <1>2, <4>1
      <4>3. QED BY <2>1, <3>1, <4>2 DEF EntryHolds, InTimeWith
    <3>2. CASE e.version = Len(grown)
      BY <1>2, <2>1, <3>2 DEF EntryHolds, InTimeWith
    <3>3. QED BY <2>2, <3>1, <3>2
  <2>4. InTimeWith(e.version, e.asked)'
    BY <1>1, <1>2, <2>1, <2>2, <2>3 DEF EntryHolds, InTimeWith
  <2>5. QED BY <1>1, <2>1, <2>2, <2>4 DEF EntryHolds
<1>6. RunHolds(run)'
  <2>1. RunTyped(run)' /\ Owned(run)' /\ Told(run)'
    BY <1>1 DEF Inv, RunHolds, RunTyped, Owned, Told
  <2> DEFINE s == run.shown
  <2>2. ASSUME s # Nothing
        PROVE  /\ s.version \in 1..Len(grown') /\ s.when <= clock
               /\ run.refresh => s.asked >= run.began
               /\ s.read \in OfReport \cup Recomputed \cup Live \cup {"raw"} /\ s.version < Len(grown') => Behind(s)'
    <3>1. /\ s.version \in 1..Len(grown) /\ s.when <= clock /\ s.when \in Nat /\ s.version \in Nat
          /\ run.refresh => s.asked >= run.began
      BY <2>2 DEF Inv, RunHolds, RunTyped, Runs, Shown, Sighted
    <3>2. CASE s.version < Len(grown)
      <4>1. s.version + 1 \in 1..Len(grown)
        BY <1>2, <3>1, <3>2
      <4>2. grown'[s.version] = grown[s.version] /\ grown'[s.version + 1] = grown[s.version + 1]
        BY <1>2, <3>1, <4>1
      <4>3. s.read \in OfReport \cup Recomputed \cup Live \cup {"raw"} => Behind(s)
        BY <2>2, <3>2 DEF Inv, RunHolds, Sighted
      <4>4. s.read \in OfReport \cup Recomputed \cup Live \cup {"raw"} => Behind(s)'
        BY <1>1, <4>2, <4>3 DEF Behind
      <4>5. QED BY <1>2, <3>1, <4>4
    <3>3. CASE s.version = Len(grown)
      <4>1. grown'[s.version + 1] = clock /\ LiveTTL \in Nat \ {0}
        BY <1>2, <3>3, ReadsAssumption
      <4>2. s.when <= clock
        BY <3>1
      <4>3. Behind(s)'
        BY <1>1, <4>1, <4>2 DEF Behind
      <4>4. QED BY <1>2, <3>1, <4>3
    <3>4. QED BY <1>2, <3>1, <3>2, <3>3
  <2>3. QED BY <1>1, <2>1, <2>2 DEF RunHolds, Sighted
<1>7. QED BY <1>1, <1>3, <1>4, <1>5, <1>6 DEF Inv, CacheHolds

-----------------------------------------------------------------------------
LEMMA InitHolds == Init => Inv
<1> SUFFICES ASSUME Init PROVE Inv
  OBVIOUS
<1>1. /\ clock \in Nat /\ grown = <<0>> /\ cache = {} /\ run = Idle
      /\ login = NoLogin \/ \E a \in Account : SiteOf[a] = Site /\ login = Saved("user", Site, a, clock + TokenLife)
  BY ReadsAssumption DEF Init
<1>2. grown \in Seq(Nat) /\ grown # <<>> /\ Len(grown) = 1 /\ grown[1] = 0
  BY <1>1
<1>3. login.kind = "user" => login.account \in Account /\ SiteOf[login.account] = login.site
  BY <1>1 DEF NoLogin, Saved
<1>4. WorldTyped
  BY <1>1, <1>2, <1>3 DEF WorldTyped
<1>5. GrowsOn
  BY <1>1, <1>2 DEF GrowsOn
<1>6. QED BY <1>1, <1>4, <1>5, IdleHolds DEF Inv, CacheHolds

LEMMA StepHolds == Inv /\ [Next]_vars => Inv'
<1> SUFFICES ASSUME Inv, [Next]_vars PROVE Inv'
  OBVIOUS
<1>1. CASE UNCHANGED vars
  BY <1>1, RunMoves DEF vars, Inv
<1>2. CASE Reader
  BY <1>2, StartHolds, PassCheckHolds, ChooseEndpointHolds, TakeTokenHolds, ReplayHolds,
     AskFailsHolds, AskHolds DEF Reader
<1>3. CASE LoginCommands
  BY <1>3, LoginHolds
<1>4. CASE Tick
  BY <1>4, TickHolds
<1>5. CASE Grow
  BY <1>5, GrowHolds
<1>6. QED BY <1>1, <1>2, <1>3, <1>4, <1>5 DEF Next

(* The login file holds only users of the site it names, the report grows   *)
(* forward in time, every kept entry is its asker's, whole and young enough *)
(* for the state its report was in, and the command is what it has read.    *)
THEOREM ReadsInvariant == Spec => []Inv
BY InitHolds, StepHolds, PTL DEF Spec

(* What a command shows was fetched for the account, or the endpoint, whose *)
(* answer it asked for, on its own site (client.py: the owner of a key).    *)
THEOREM ForeignNeverReplayed == Spec => []NoForeignReplay
<1>1. Inv => NoForeignReplay
  BY DEF Inv, RunHolds, Owned, Fits, NoForeignReplay
<1>2. QED BY <1>1, ReadsInvariant, PTL

(* An answer put together from a partial one says so: what an earlier       *)
(* command has kept has no gap (client.py: _write_cache).                   *)
THEOREM GapsAlwaysTold == Spec => []GapsAreTold
<1>1. Inv => GapsAreTold
  BY DEF Inv, RunHolds, Told, GapsAreTold
<1>2. QED BY <1>1, ReadsInvariant, PTL

(* A report is never shown further behind than its lifetime allows, a raw    *)
(* answer than the --cache-ttl it was fetched with, whatever that was; and   *)
(* --refresh shows nothing older than the command (client.py: the TTLs).    *)
THEOREM BehindIsBounded == Spec => []NeverFarBehind
<1>1. Inv => NeverFarBehind
  BY DEF Inv, RunHolds, Sighted, Behind, Allowed, NeverFarBehind
<1>2. QED BY <1>1, ReadsInvariant, PTL
=============================================================================
