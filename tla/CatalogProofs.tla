----------------------------- MODULE CatalogProofs -----------------------------
(***************************************************************************)
(* The symbol catalog, for any clients, commands and tables: what the      *)
(* universe of a report holds though it is read tag by tag, and what the   *)
(* counts of the commands add up to though each is made of statements that *)
(* interleave with those of others.  Both follow what one client has read  *)
(* so far, and what a step of another client leaves of it.  Then what a    *)
(* screen and a report of signals say, for any universe and bars.          *)
(***************************************************************************)
EXTENDS Catalog, FiniteSetTheorems, SequenceTheorems, WellFoundedInduction,
        NaturalsInduction, TLAPS

-----------------------------------------------------------------------------
(* One step of a client changes its own call only, but for the races of the *)
(* deletes that it disturbs.                                                *)

Fields == {"pc", "cmd", "todo", "reads", "found", "count", "raced", "answer"}
Shaped ==
    /\ DOMAIN call = Client /\ call = [c \in Client |-> call[c]]
    /\ \A c \in Client : DOMAIN call[c] = Fields

\* What call d had it still has.
Stands(d) == \A x \in Fields \ {"raced"} : call'[d][x] = call[d][x]

LEMMA Went ==
    ASSUME Shaped, NEW c \in Client, NEW changes, Go(c, changes)
    PROVE  /\ Shaped'
           /\ \A d \in Client : d # c => call'[d] = call[d]
           /\ \A x \in Fields : call'[c][x] = IF x \in DOMAIN changes THEN changes[x] ELSE call[c][x]
  <1>1. call' = [call EXCEPT ![c] = With(changes, call[c])]
    BY DEF Go
  <1>2. call'[c] = With(changes, call[c]) /\ \A d \in Client : d # c => call'[d] = call[d]
    BY <1>1 DEF Shaped
  <1>3. DOMAIN call'[c] = Fields
    BY <1>2 DEF Shaped, With
  <1>4. \A x \in Fields : call'[c][x] = IF x \in DOMAIN changes THEN changes[x] ELSE call[c][x]
    BY <1>2 DEF Shaped, With
  <1>5. DOMAIN call' = Client /\ call' = [d \in Client |-> call'[d]]
    BY <1>1 DEF Shaped
  <1> QED  BY <1>2, <1>3, <1>4, <1>5 DEF Shaped

\* A change of the features, which other deletes may notice.
Touches(c, changes) ==
    call' = [Race(c) EXCEPT ![c] = With(changes, @)]

LEMMA Touched ==
    ASSUME Shaped, NEW c \in Client, NEW changes, Touches(c, changes)
    PROVE  /\ Shaped'
           /\ \A d \in Client : d # c => Stands(d)
           /\ \A d \in Client : d # c =>
                 call'[d].raced = IF call[d].pc = "deleting" /\ feature' # feature THEN TRUE
                                  ELSE call[d].raced
           /\ \A x \in Fields : call'[c][x] = IF x \in DOMAIN changes THEN changes[x] ELSE call[c][x]
  <1>1. Race(c)[c] = call[c] /\ DOMAIN Race(c) = Client
    BY DEF Race
  <1>2. call'[c] = With(changes, call[c]) /\ \A d \in Client : d # c => call'[d] = Race(c)[d]
    BY <1>1 DEF Touches
  <1>3. DOMAIN call' = Client /\ call' = [d \in Client |-> call'[d]]
    BY <1>1 DEF Touches
  <1>4. ASSUME NEW d \in Client, d # c
        PROVE  call'[d] = IF call[d].pc = "deleting" /\ feature' # feature
                          THEN [call[d] EXCEPT !.raced = TRUE] ELSE call[d]
    BY <1>2, <1>4 DEF Race
  <1>5. \A d \in Client : d # c =>
            /\ Stands(d) /\ DOMAIN call'[d] = Fields
            /\ call'[d].raced = IF call[d].pc = "deleting" /\ feature' # feature THEN TRUE
                                ELSE call[d].raced
    BY <1>4 DEF Stands, Shaped, Fields
  <1>6. DOMAIN call'[c] = Fields
    BY <1>2 DEF Shaped, With
  <1>7. \A x \in Fields : call'[c][x] = IF x \in DOMAIN changes THEN changes[x] ELSE call[c][x]
    BY <1>2 DEF Shaped, With
  <1> QED  BY <1>3, <1>5, <1>6, <1>7 DEF Shaped

\* The steps that leave the features alone.
Moves(c) ==
    \/ \E cmd \in Command[c] :
          ImportGet(c, cmd) \/ LabelList(c, cmd) \/ CreateList(c, cmd) \/ DeleteCount(c, cmd)
          \/ ReportStart(c, cmd)
    \/ AddTicker(c) \/ AddTag(c) \/ RemoveTag(c) \/ Counted(c)
    \/ ReadUniverse(c) \/ Report(c) \/ Kill(c)

LEMMA MovesGo ==
    ASSUME NEW c \in Client, Moves(c)
    PROVE  \E changes : Go(c, changes)
  BY DEF Moves, ImportGet, LabelList, CreateList, DeleteCount, ReportStart, AddTicker, AddTag,
         RemoveTag, Counted, ReadUniverse, Report, Kill

LEMMA OthersStand ==
    ASSUME Shaped, NEW c \in Client, Step(c)
    PROVE  Shaped' /\ \A d \in Client : d # c => Stands(d)
  <1>1. CASE Moves(c)
    <2>1. PICK changes : Go(c, changes)
      BY <1>1, MovesGo
    <2> QED  BY <2>1, Went DEF Stands
  <1>2. CASE AddFeature(c)
    BY <1>2, Touched DEF AddFeature, Touches
  <1>3. CASE DeleteFeatures(c)
    BY <1>3, Touched DEF DeleteFeatures, Touches
  <1> QED  BY <1>1, <1>2, <1>3 DEF Step, Moves

-----------------------------------------------------------------------------
(* The universe of a report. *)

HavingAny(rows, tags) == {r[1][1] : r \in {x \in rows : x[2] \in tags}}
ReadsOf(cmd) ==
    {<<"in", t>> : t \in ToSet(cmd.include)} \cup {<<"out", t>> : t \in ToSet(cmd.exclude)}
LeftToRead(c) == ToSet(call[c].reads)
IncludesRead(c) == {t \in ToSet(call[c].cmd.include) : <<"in", t>> \notin LeftToRead(c)}
ExcludesRead(c) == {t \in ToSet(call[c].cmd.exclude) : <<"out", t>> \notin LeftToRead(c)}

\* The tags are included before any is excluded.
InOrder(reads) == \A i, j \in DOMAIN reads : i < j /\ reads[i][1] = "out" => reads[j][1] = "out"

\* A report's record of the tags holds the tags of now.
SeesTags(c) ==
    Watching(c) => during[c].always \subseteq ticker_tag /\ ticker_tag \subseteq during[c].ever

\* What UniverseWasTagged says of the tags that have been read.
Resolves(c) ==
    Watching(c) /\ call[c].cmd.include # <<>> =>
        LET cmd == call[c].cmd
            found == call[c].found
            ever == during[c].ever
            always == during[c].always
        IN /\ call[c].reads \in Seq(ReadsOf(cmd)) /\ InOrder(call[c].reads)
           /\ (\E r \in LeftToRead(c) : r[1] = "in") => ExcludesRead(c) = {}
           /\ found \subseteq cmd.explicit \cup Having(ever, cmd.include)
           /\ HavingAny(always, IncludesRead(c)) \ Having(ever, cmd.exclude) \subseteq found
           /\ (found \ cmd.explicit) \cap HavingAny(always, ExcludesRead(c)) = {}

UniverseInv ==
    /\ Shaped /\ DOMAIN during = Client
    /\ \A c \in Client : SeesTags(c) /\ Resolves(c)

\* Nothing that others do to the tags makes a universe wrong.
LEMMA OthersKeepUniverse ==
    ASSUME UniverseInv, NEW d \in Client, Stands(d),
           \/ ticker_tag' = ticker_tag /\ during'[d] = during[d]
           \/ Observe
    PROVE  SeesTags(d)' /\ Resolves(d)'
  <1>1. /\ call'[d].pc = call[d].pc /\ call'[d].cmd = call[d].cmd
        /\ call'[d].reads = call[d].reads /\ call'[d].found = call[d].found
    BY DEF Stands, Fields
  <1>2. Watching(d)' <=> Watching(d)
    BY <1>1 DEF Watching
  <1>3. CASE ~Watching(d)
    BY <1>2, <1>3 DEF SeesTags, Resolves
  <1>4. CASE Watching(d)
    <2>1. /\ during[d].ever \subseteq during'[d].ever /\ during'[d].always \subseteq during[d].always
          /\ ticker_tag' \subseteq during'[d].ever /\ during'[d].always \subseteq ticker_tag'
      <3>1. CASE ticker_tag' = ticker_tag /\ during'[d] = during[d]
        BY <1>4, <3>1 DEF UniverseInv, SeesTags
      <3>2. CASE Observe
        <4>1. during'[d] = [ever |-> during[d].ever \cup ticker_tag',
                            always |-> during[d].always \cap ticker_tag']
          BY <1>4, <3>2 DEF Observe
        <4> QED  BY <4>1
      <3> QED  BY <3>1, <3>2
    <2>2. SeesTags(d)'
      BY <2>1 DEF SeesTags
    <2>3. Resolves(d)'
      <3> SUFFICES ASSUME call[d].cmd.include # <<>> PROVE Resolves(d)'
        BY <1>1 DEF Resolves
      <3>1. Resolves(d)
        BY DEF UniverseInv
      <3>2. /\ LeftToRead(d)' = LeftToRead(d) /\ IncludesRead(d)' = IncludesRead(d)
            /\ ExcludesRead(d)' = ExcludesRead(d)
        BY <1>1 DEF LeftToRead, IncludesRead, ExcludesRead
      <3>3. \A tags : /\ Having(during[d].ever, tags) \subseteq Having(during'[d].ever, tags)
                      /\ HavingAny(during'[d].always, tags) \subseteq HavingAny(during[d].always, tags)
        BY <2>1 DEF Having, HavingAny
      <3> QED  BY <1>1, <1>4, <3>1, <3>2, <3>3 DEF Resolves
    <2> QED  BY <2>2, <2>3
  <1> QED  BY <1>3, <1>4

LEMMA HeadAndTail ==
    ASSUME NEW S, NEW q \in Seq(S), q # <<>>
    PROVE  /\ Head(q) \in S /\ Head(q) = q[1] /\ Tail(q) \in Seq(S)
           /\ ToSet(q) = {Head(q)} \cup ToSet(Tail(q))
           /\ DOMAIN Tail(q) = 1..(Len(q) - 1) /\ \A i \in DOMAIN Tail(q) : Tail(q)[i] = q[i + 1]
  <1>1. Len(q) \in Nat /\ Len(q) # 0 /\ DOMAIN q = 1..Len(q)
    OBVIOUS
  <1>2. /\ Head(q) \in S /\ Head(q) = q[1] /\ Tail(q) \in Seq(S)
        /\ DOMAIN Tail(q) = 1..(Len(q) - 1) /\ \A i \in DOMAIN Tail(q) : Tail(q)[i] = q[i + 1]
    BY <1>1
  <1>3. ASSUME NEW x \in ToSet(q) PROVE x \in {Head(q)} \cup ToSet(Tail(q))
    <2>1. PICK i \in 1..Len(q) : x = q[i]
      BY <1>1 DEF ToSet
    <2>2. CASE i = 1
      BY <1>2, <2>1, <2>2
    <2>3. CASE i # 1
      <3>1. i - 1 \in DOMAIN Tail(q) /\ Tail(q)[i - 1] = x
        BY <1>1, <1>2, <2>1, <2>3
      <3> QED  BY <3>1 DEF ToSet
    <2> QED  BY <2>2, <2>3
  <1>4. ASSUME NEW x \in {Head(q)} \cup ToSet(Tail(q)) PROVE x \in ToSet(q)
    <2>1. CASE x = Head(q)
      BY <1>1, <1>2, <2>1 DEF ToSet
    <2>2. CASE x \in ToSet(Tail(q))
      <3>1. PICK i \in DOMAIN Tail(q) : x = Tail(q)[i]
        BY <2>2 DEF ToSet
      <3>2. i + 1 \in DOMAIN q /\ x = q[i + 1]
        BY <1>1, <1>2, <3>1
      <3> QED  BY <3>2 DEF ToSet
    <2> QED  BY <2>1, <2>2
  <1> QED  BY <1>2, <1>3, <1>4

\* One read brings the found symbols a tag further (resolve_universe).
LEMMA ReadKeepsUniverse ==
    ASSUME UniverseInv, NEW c \in Client, ReadUniverse(c)
    PROVE  SeesTags(c)' /\ Resolves(c)'
  <1> DEFINE cmd == call[c].cmd
             reads == call[c].reads
             read == Head(reads)
             found == call[c].found
             after == CASE read[1] = "all" -> Priced
                        [] read[1] = "in" -> found \cup Tagged(read[2])
                        [] read[1] = "out" -> found \ Tagged(read[2])
             ever == during[c].ever
             always == during[c].always
  <1>1. /\ Watching(c) /\ reads # <<>> /\ ticker_tag' = ticker_tag /\ during' = during
        /\ Go(c, [reads |-> Tail(reads), found |-> after])
    BY DEF ReadUniverse, Watching, tables
  <1>2. \A x \in Fields : call'[c][x] = IF x = "reads" THEN Tail(reads)
                                        ELSE IF x = "found" THEN after ELSE call[c][x]
    <2> PICK changes : changes = [reads |-> Tail(reads), found |-> after]
      OBVIOUS
    <2>1. /\ DOMAIN changes = {"reads", "found"}
          /\ changes["reads"] = Tail(reads) /\ changes["found"] = after
      <3> HIDE DEF after
      <3> QED  OBVIOUS
    <2>2. Go(c, changes)
      BY <1>1
    <2>3. \A x \in Fields : call'[c][x] = IF x \in DOMAIN changes THEN changes[x] ELSE call[c][x]
      <3>1. Shaped
        BY DEF UniverseInv
      <3> HIDE DEF after, reads, read, found
      <3> QED  BY <2>2, <3>1, Went
    <2> HIDE DEF after, reads
    <2> QED  BY <2>1, <2>3
  <1>3. /\ call'[c].pc = call[c].pc /\ call'[c].cmd = cmd
        /\ call'[c].reads = Tail(reads) /\ call'[c].found = after
    <2> HIDE DEF after
    <2> QED  BY <1>2 DEF Fields
  <1>4. SeesTags(c) /\ Resolves(c)
    BY DEF UniverseInv
  <1>5. SeesTags(c)'
    BY <1>1, <1>3, <1>4 DEF SeesTags, Watching
  <1>6. ASSUME cmd.include # <<>> PROVE Resolves(c)'
    <2>1. /\ reads \in Seq(ReadsOf(cmd)) /\ InOrder(reads)
          /\ (\E r \in LeftToRead(c) : r[1] = "in") => ExcludesRead(c) = {}
          /\ found \subseteq cmd.explicit \cup Having(ever, cmd.include)
          /\ HavingAny(always, IncludesRead(c)) \ Having(ever, cmd.exclude) \subseteq found
          /\ (found \ cmd.explicit) \cap HavingAny(always, ExcludesRead(c)) = {}
      BY <1>1, <1>4, <1>6 DEF Resolves
    <2>2. always \subseteq ticker_tag /\ ticker_tag \subseteq ever
      BY <1>1, <1>4 DEF SeesTags
    <2>3. /\ read \in ReadsOf(cmd) /\ read = reads[1] /\ Tail(reads) \in Seq(ReadsOf(cmd))
          /\ LeftToRead(c) = {read} \cup ToSet(Tail(reads))
          /\ DOMAIN Tail(reads) = 1..(Len(reads) - 1)
          /\ \A i \in DOMAIN Tail(reads) : Tail(reads)[i] = reads[i + 1]
      <3> PICK S, q : S = ReadsOf(cmd) /\ q = reads
        OBVIOUS
      <3>1. q \in Seq(S) /\ q # <<>>
        BY <1>1, <2>1
      <3>2. /\ Head(q) \in S /\ Head(q) = q[1] /\ Tail(q) \in Seq(S)
            /\ ToSet(q) = {Head(q)} \cup ToSet(Tail(q))
            /\ DOMAIN Tail(q) = 1..(Len(q) - 1) /\ \A i \in DOMAIN Tail(q) : Tail(q)[i] = q[i + 1]
        BY <3>1, HeadAndTail
      <3> QED  BY <3>2 DEF LeftToRead
    <2>4. LeftToRead(c)' = ToSet(Tail(reads))
      BY <1>3 DEF LeftToRead
    <2>5. Len(reads) \in Nat /\ DOMAIN reads = 1..Len(reads)
      BY <2>1
    <2>6. InOrder(Tail(reads))
      <3> SUFFICES ASSUME NEW i \in DOMAIN Tail(reads), NEW j \in DOMAIN Tail(reads), i < j,
                          Tail(reads)[i][1] = "out"
                   PROVE  Tail(reads)[j][1] = "out"
        BY DEF InOrder
      <3>1. i + 1 \in DOMAIN reads /\ j + 1 \in DOMAIN reads /\ i + 1 < j + 1
        BY <2>3, <2>5
      <3> QED  BY <2>1, <2>3, <3>1 DEF InOrder
    <2>7. PICK t : \/ read = <<"in", t>> /\ t \in ToSet(cmd.include)
                   \/ read = <<"out", t>> /\ t \in ToSet(cmd.exclude)
      BY <2>3 DEF ReadsOf
    <2>8. /\ HavingAny(always, {t}) \subseteq Tagged(t) /\ Tagged(t) \subseteq HavingAny(ever, {t})
      BY <2>2 DEF Tagged, HavingAny
    <2>9. CASE read = <<"in", t>> /\ t \in ToSet(cmd.include)
      <3>1. after = found \cup Tagged(t)
        BY <2>9
      <3>2. IncludesRead(c)' \subseteq IncludesRead(c) \cup {t}
        BY <1>3, <2>3, <2>4, <2>9 DEF IncludesRead
      <3>3. ExcludesRead(c) = {} /\ ExcludesRead(c)' = {}
        <4>1. read[1] = "in" /\ read \in LeftToRead(c)
          BY <2>3, <2>9
        <4>2. ExcludesRead(c) = {}
          BY <2>1, <4>1
        <4>3. \A x : <<"out", x>> # read
          BY <2>9
        <4> QED  BY <1>3, <2>3, <2>4, <4>2, <4>3 DEF ExcludesRead
      <3>4. after \subseteq cmd.explicit \cup Having(ever, cmd.include)
        BY <2>1, <2>8, <2>9, <3>1 DEF Having, HavingAny
      <3>5. HavingAny(always, IncludesRead(c)') \ Having(ever, cmd.exclude) \subseteq after
        <4>1. HavingAny(always, IncludesRead(c)') \subseteq
                 HavingAny(always, IncludesRead(c)) \cup HavingAny(always, {t})
          BY <3>2 DEF HavingAny
        <4> QED  BY <2>1, <2>8, <3>1, <4>1
      <3>6. HavingAny(always, ExcludesRead(c)') = {}
        BY <3>3 DEF HavingAny
      <3> HIDE DEF after
      <3> QED  BY <1>1, <1>3, <2>3, <2>6, <3>3, <3>4, <3>5, <3>6 DEF Resolves
    <2>10. CASE read = <<"out", t>> /\ t \in ToSet(cmd.exclude)
      <3>1. after = found \ Tagged(t)
        BY <2>10
      <3>2. \A x : <<"in", x>> # read
        BY <2>10
      <3>3. IncludesRead(c)' = IncludesRead(c) /\ ExcludesRead(c)' \subseteq ExcludesRead(c) \cup {t}
        BY <1>3, <2>3, <2>4, <2>10, <3>2 DEF IncludesRead, ExcludesRead
      <3>4. \A r \in ToSet(Tail(reads)) : r[1] # "in"
        <4> SUFFICES ASSUME NEW i \in DOMAIN Tail(reads) PROVE Tail(reads)[i][1] = "out"
          BY DEF ToSet
        <4>1. 1 \in DOMAIN reads /\ i + 1 \in DOMAIN reads /\ 1 < i + 1 /\ reads[1][1] = "out"
          BY <2>3, <2>5, <2>10
        <4> QED  BY <2>1, <2>3, <4>1 DEF InOrder
      <3>5. HavingAny(always, IncludesRead(c)') \ Having(ever, cmd.exclude) \subseteq after
        <4>1. Tagged(t) \subseteq Having(ever, cmd.exclude)
          BY <2>8, <2>10 DEF Having, HavingAny
        <4> QED  BY <2>1, <3>1, <3>3, <4>1
      <3>6. (after \ cmd.explicit) \cap HavingAny(always, ExcludesRead(c)') = {}
        <4>1. HavingAny(always, ExcludesRead(c)') \subseteq
                 HavingAny(always, ExcludesRead(c)) \cup HavingAny(always, {t})
          BY <3>3 DEF HavingAny
        <4> QED  BY <2>1, <2>8, <3>1, <4>1
      <3>7. after \subseteq cmd.explicit \cup Having(ever, cmd.include)
        BY <2>1, <3>1
      <3> HIDE DEF after
      <3> QED  BY <1>1, <1>3, <2>3, <2>4, <2>6, <3>4, <3>5, <3>6, <3>7 DEF Resolves
    <2> QED  BY <2>7, <2>9, <2>10
  <1> QED  BY <1>3, <1>5, <1>6 DEF Resolves

\* A report starts with every tag to be read.
LEMMA AllIsLeft ==
    ASSUME NEW cmd, cmd.include \in Seq(ToSet(cmd.include)), cmd.exclude \in Seq(ToSet(cmd.exclude)),
           cmd.include # <<>>
    PROVE  Reads(cmd) \in Seq(ReadsOf(cmd)) /\ InOrder(Reads(cmd)) /\ ToSet(Reads(cmd)) = ReadsOf(cmd)
  <1> DEFINE m == Len(cmd.include)
             n == Len(cmd.exclude)
             ins == [i \in DOMAIN cmd.include |-> <<"in", cmd.include[i]>>]
             outs == [i \in DOMAIN cmd.exclude |-> <<"out", cmd.exclude[i]>>]
  <1>1. /\ m \in Nat /\ n \in Nat /\ DOMAIN cmd.include = 1..m /\ DOMAIN cmd.exclude = 1..n
    OBVIOUS
  <1>2. ins \in Seq(ReadsOf(cmd)) /\ Len(ins) = m /\ outs \in Seq(ReadsOf(cmd)) /\ Len(outs) = n
    <2>1. ASSUME NEW i \in 1..m PROVE <<"in", cmd.include[i]>> \in ReadsOf(cmd)
      <3>1. cmd.include[i] \in ToSet(cmd.include)
        BY <1>1 DEF ToSet
      <3> QED  BY <3>1 DEF ReadsOf
    <2>2. ASSUME NEW i \in 1..n PROVE <<"out", cmd.exclude[i]>> \in ReadsOf(cmd)
      <3>1. cmd.exclude[i] \in ToSet(cmd.exclude)
        BY <1>1 DEF ToSet
      <3> QED  BY <3>1 DEF ReadsOf
    <2>3. ins \in [1..m -> ReadsOf(cmd)]
      BY <1>1, <2>1
    <2>4. outs \in [1..n -> ReadsOf(cmd)]
      BY <1>1, <2>2
    <2> HIDE DEF ins, outs, m, n
    <2>5. ins \in Seq(ReadsOf(cmd)) /\ Len(ins) = m
      BY <1>1, <2>3
    <2>6. outs \in Seq(ReadsOf(cmd)) /\ Len(outs) = n
      BY <1>1, <2>4
    <2> QED  BY <2>5, <2>6
  <1>3. \A i \in 1..m : ins[i] = <<"in", cmd.include[i]>>
    BY <1>1
  <1>4. \A i \in 1..n : outs[i] = <<"out", cmd.exclude[i]>>
    BY <1>1
  <1> PICK q : q = Reads(cmd)
    OBVIOUS
  <1>5. q = ins \o outs
    BY Zenon DEF Reads
  <1> HIDE DEF ins, outs, m, n
  <1> PICK S : S = ReadsOf(cmd)
    OBVIOUS
  <1>c. /\ ins \o outs \in Seq(S) /\ Len(ins \o outs) = Len(ins) + Len(outs)
        /\ \A i \in 1..Len(ins) + Len(outs) :
              (ins \o outs)[i] = IF i <= Len(ins) THEN ins[i] ELSE outs[i - Len(ins)]
    BY <1>2, ConcatProperties
  <1>6. q \in Seq(ReadsOf(cmd)) /\ Len(q) = m + n /\ DOMAIN q = 1..(m + n)
    BY <1>1, <1>2, <1>5, <1>c
  <1>7. \A i \in 1..(m + n) : q[i] = IF i <= m THEN ins[i] ELSE outs[i - m]
    BY <1>1, <1>2, <1>5, <1>c
  <1>8. \A i \in 1..(m + n) : IF i <= m THEN q[i] = <<"in", cmd.include[i]>>
                              ELSE i - m \in 1..n /\ q[i] = <<"out", cmd.exclude[i - m]>>
    <2> SUFFICES ASSUME NEW i \in 1..(m + n)
                 PROVE  IF i <= m THEN q[i] = <<"in", cmd.include[i]>>
                        ELSE i - m \in 1..n /\ q[i] = <<"out", cmd.exclude[i - m]>>
      OBVIOUS
    <2>1. i <= m => i \in 1..m
      BY <1>1
    <2>2. ~(i <= m) => i - m \in 1..n
      BY <1>1
    <2> QED  BY <1>3, <1>4, <1>7, <2>1, <2>2
  <1>9. InOrder(q)
    <2> SUFFICES ASSUME NEW i \in 1..(m + n), NEW j \in 1..(m + n), i < j, q[i][1] = "out"
                 PROVE  q[j][1] = "out"
      BY <1>6 DEF InOrder
    <2>1. ~(i <= m)
      BY <1>8
    <2>2. ~(j <= m)
      BY <1>1, <2>1
    <2> QED  BY <1>8, <2>2
  <1>10. ASSUME NEW r \in ReadsOf(cmd) PROVE r \in ToSet(q)
    <2>1. CASE \E t \in ToSet(cmd.include) : r = <<"in", t>>
      <3>1. PICK i \in 1..m : r = <<"in", cmd.include[i]>>
        BY <1>1, <2>1 DEF ToSet, m
      <3>2. i \in 1..(m + n) /\ i <= m
        BY <1>1
      <3> QED  BY <1>6, <1>8, <3>1, <3>2 DEF ToSet
    <2>2. CASE \E t \in ToSet(cmd.exclude) : r = <<"out", t>>
      <3>1. PICK i \in 1..n : r = <<"out", cmd.exclude[i]>>
        BY <1>1, <2>2 DEF ToSet, n
      <3>2. i + m \in 1..(m + n) /\ ~(i + m <= m) /\ (i + m) - m = i
        BY <1>1
      <3>3. q[i + m] = r
        BY <1>8, <3>1, <3>2
      <3> QED  BY <1>6, <3>2, <3>3 DEF ToSet
    <2> QED  BY <2>1, <2>2 DEF ReadsOf
  <1>11. ToSet(q) \subseteq ReadsOf(cmd)
    BY <1>6 DEF ToSet
  <1> QED  BY <1>6, <1>9, <1>10, <1>11

LEMMA StartResolves ==
    ASSUME UniverseInv, NEW c \in Client, NEW cmd \in Command[c], ReportStart(c, cmd)
    PROVE  SeesTags(c)' /\ Resolves(c)'
  <1>1. WellFormed(cmd) /\ cmd.op \in Reports
    BY CatalogAssumption DEF ReportStart
  <1>2. ticker_tag' = ticker_tag /\ during'[c] = [ever |-> ticker_tag, always |-> ticker_tag]
    BY DEF ReportStart, tables, UniverseInv
  <1>3. SeesTags(c)'
    BY <1>2 DEF SeesTags
  <1>4. Shaped
    BY DEF UniverseInv
  <1>5. CASE ~Accepted(cmd)
    <2>1. Go(c, AnswerAtOnce(cmd, "invalid"))
      BY <1>5 DEF ReportStart
    <2>2. call'[c].pc = "done"
      BY <1>4, <2>1, Went DEF AnswerAtOnce, Fields
    <2> QED  BY <1>3, <2>2 DEF Resolves, Watching
  <1>6. CASE Accepted(cmd)
    <2> DEFINE reads == IF cmd.op = "ranges" /\ cmd.include = <<>> THEN <<>> ELSE Reads(cmd)
    <2>1. Go(c, [cmd |-> cmd, pc |-> "resolving", found |-> cmd.explicit, reads |-> reads])
      BY <1>6 DEF ReportStart
    <2>2. /\ call'[c].cmd = cmd /\ call'[c].found = cmd.explicit /\ call'[c].reads = reads
      <3> HIDE DEF reads
      <3> QED  BY <1>4, <2>1, Went DEF Fields
    <2>3. CASE cmd.include = <<>>
      BY <1>3, <2>2, <2>3 DEF Resolves
    <2>4. CASE cmd.include # <<>>
      <3>1. call'[c].reads = Reads(cmd)
        BY <2>2, <2>4
      <3>2. Reads(cmd) \in Seq(ReadsOf(cmd)) /\ InOrder(Reads(cmd)) /\ ToSet(Reads(cmd)) = ReadsOf(cmd)
        BY <1>1, <2>4, AllIsLeft DEF WellFormed
      <3>3. IncludesRead(c)' = {} /\ ExcludesRead(c)' = {}
        BY <2>2, <3>1, <3>2 DEF IncludesRead, ExcludesRead, LeftToRead, ReadsOf
      <3>4. \A rows : HavingAny(rows, {}) = {}
        BY DEF HavingAny
      <3> HIDE DEF reads
      <3> QED  BY <1>3, <2>2, <3>1, <3>2, <3>3, <3>4 DEF Resolves
    <2> QED  BY <2>3, <2>4
  <1> QED  BY <1>5, <1>6

\* Only a report's first step makes a call one that resolves, and only a read keeps it so.
LEMMA ResolvesByReads ==
    ASSUME Shaped, NEW c \in Client, Step(c), call'[c].pc = "resolving"
    PROVE  ReadUniverse(c) \/ \E cmd \in Command[c] : ReportStart(c, cmd)
  <1>1. \A changes : Go(c, changes) =>
           \A x \in Fields : call'[c][x] = IF x \in DOMAIN changes THEN changes[x] ELSE call[c][x]
    BY Went
  <1>2. \A cmd, status : ~Go(c, AnswerAtOnce(cmd, status))
    BY <1>1 DEF AnswerAtOnce, Fields
  <1>3. \A cmd \in Command[c] : ~ImportGet(c, cmd)
    <2> SUFFICES ASSUME NEW cmd, Go(c, [cmd |-> cmd, pc |-> "importing", todo |-> Remote])
                 PROVE  FALSE
      BY <1>2 DEF ImportGet
    <2> QED  BY <1>1 DEF Fields
  <1>4. \A cmd \in Command[c] : ~LabelList(c, cmd)
    <2> SUFFICES ASSUME NEW cmd, Go(c, [cmd |-> cmd, pc |-> "labelling", todo |-> Matching(cmd)])
                 PROVE  FALSE
      BY <1>2 DEF LabelList
    <2> QED  BY <1>1 DEF Fields
  <1>5. \A cmd \in Command[c] : ~CreateList(c, cmd)
    <2> SUFFICES ASSUME NEW cmd, NEW listings,
                        Go(c, [cmd |-> cmd, pc |-> "adding", todo |-> listings])
                 PROVE  FALSE
      BY <1>2 DEF CreateList
    <2> QED  BY <1>1 DEF Fields
  <1>6. \A cmd \in Command[c] : ~DeleteCount(c, cmd)
    <2> SUFFICES ASSUME NEW cmd, NEW n, Go(c, [cmd |-> cmd, pc |-> "deleting", count |-> n])
                 PROVE  FALSE
      BY <1>2 DEF DeleteCount
    <2> QED  BY <1>1 DEF Fields
  <1>7. ~AddTicker(c)
    <2> SUFFICES ASSUME call[c].pc = "importing", NEW todo, NEW n,
                        Go(c, [todo |-> todo, count |-> n])
                 PROVE  FALSE
      BY DEF AddTicker
    <2> QED  BY <1>1 DEF Fields
  <1>8. ~AddTag(c)
    <2> SUFFICES ASSUME call[c].pc = "labelling", NEW todo, NEW n,
                        Go(c, [todo |-> todo, count |-> n])
                 PROVE  FALSE
      BY DEF AddTag
    <2> QED  BY <1>1 DEF Fields
  <1>9. ~RemoveTag(c)
    <2> SUFFICES ASSUME call[c].pc = "labelling", NEW todo, NEW n,
                        Go(c, [todo |-> todo, count |-> n])
                 PROVE  FALSE
      BY DEF RemoveTag
    <2> QED  BY <1>1 DEF Fields
  <1>10. ~Counted(c)
    BY <1>1 DEF Counted, Answer, Fields
  <1>11. ~Report(c)
    <2> SUFFICES ASSUME NEW answer, Go(c, [pc |-> "done", answer |-> answer]) PROVE FALSE
      BY DEF Report
    <2> QED  BY <1>1 DEF Fields
  <1>12. ~Kill(c)
    BY <1>1 DEF Kill, Fields
  <1>13. ~AddFeature(c)
    <2> SUFFICES ASSUME NEW status, Touches(c, Answer(status)) PROVE FALSE
      BY DEF AddFeature, Touches
    <2>1. \A x \in Fields : call'[c][x] = IF x \in DOMAIN Answer(status) THEN Answer(status)[x]
                                          ELSE call[c][x]
      BY Touched
    <2> QED  BY <2>1 DEF Answer, Fields
  <1>14. ~DeleteFeatures(c)
    <2> SUFFICES ASSUME Touches(c, Answer("success")) PROVE FALSE
      BY DEF DeleteFeatures, Touches
    <2> PICK status : status = "success"
      OBVIOUS
    <2>1. \A x \in Fields : call'[c][x] = IF x \in DOMAIN Answer(status) THEN Answer(status)[x]
                                          ELSE call[c][x]
      BY Touched
    <2> QED  BY <2>1 DEF Answer, Fields
  <1> QED  BY <1>3, <1>4, <1>5, <1>6, <1>7, <1>8, <1>9, <1>10, <1>11, <1>12, <1>13, <1>14 DEF Step

LEMMA UniverseStep ==
    ASSUME UniverseInv, [Next]_vars
    PROVE  UniverseInv'
  <1>1. CASE UNCHANGED vars
    BY <1>1 DEF vars, tables, UniverseInv, Shaped, SeesTags, Resolves, Watching, LeftToRead,
                IncludesRead, ExcludesRead
  <1>2. ASSUME NEW c \in Client, Step(c) PROVE UniverseInv'
    <2>1. Shaped' /\ \A d \in Client : d # c => Stands(d)
      BY <1>2, OthersStand DEF UniverseInv
    <2>2. /\ DOMAIN during' = Client
          /\ \A d \in Client : d # c =>
                \/ ticker_tag' = ticker_tag /\ during'[d] = during[d]
                \/ Observe
      BY <1>2 DEF UniverseInv, Step, ImportGet, LabelList, CreateList, DeleteCount, ReportStart,
                  AddTicker, AddTag, RemoveTag, Counted, AddFeature, DeleteFeatures, ReadUniverse,
                  Report, Kill, Observe, tables
    <2>3. \A d \in Client : d # c => SeesTags(d)' /\ Resolves(d)'
      BY <2>1, <2>2, OthersKeepUniverse
    <2>4. SeesTags(c)' /\ Resolves(c)'
      <3>1. CASE ReadUniverse(c)
        BY <3>1, ReadKeepsUniverse
      <3>2. ASSUME NEW cmd \in Command[c], ReportStart(c, cmd) PROVE SeesTags(c)' /\ Resolves(c)'
        BY <3>2, StartResolves
      <3>3. ASSUME ~ReadUniverse(c), ~\E cmd \in Command[c] : ReportStart(c, cmd)
            PROVE  call'[c].pc # "resolving"
        BY <1>2, <3>3, ResolvesByReads DEF UniverseInv
      <3> QED  BY <3>1, <3>2, <3>3 DEF SeesTags, Resolves, Watching
    <2> QED  BY <2>1, <2>2, <2>3, <2>4 DEF UniverseInv
  <1> QED  BY <1>1, <1>2 DEF Next

LEMMA UniverseInit ==
    ASSUME Init
    PROVE  UniverseInv
  <1>1. call = [c \in Client |-> Idle] /\ DOMAIN during = Client
    BY DEF Init
  <1>2. Shaped
    BY <1>1 DEF Shaped, Idle, Fields
  <1>3. \A c \in Client : ~Watching(c)
    BY <1>1 DEF Watching, Idle
  <1> QED  BY <1>1, <1>2, <1>3 DEF UniverseInv, SeesTags, Resolves

LEMMA UniverseInvImplies ==
    ASSUME UniverseInv
    PROVE  UniverseWasTagged
  <1> SUFFICES ASSUME NEW c \in Client, call[c].pc = "resolving", call[c].reads = <<>>,
                      call[c].cmd.include # <<>>
               PROVE  LET cmd == call[c].cmd
                          found == call[c].found
                      IN /\ found \subseteq cmd.explicit \cup Having(during[c].ever, cmd.include)
                         /\ Having(during[c].always, cmd.include)
                               \ Having(during[c].ever, cmd.exclude) \subseteq found
                         /\ (found \ cmd.explicit) \cap Having(during[c].always, cmd.exclude) = {}
    BY DEF UniverseWasTagged
  <1>1. Resolves(c)
    BY DEF UniverseInv
  <1>2. LeftToRead(c) = {}
    BY DEF LeftToRead, ToSet
  <1>3. IncludesRead(c) = ToSet(call[c].cmd.include) /\ ExcludesRead(c) = ToSet(call[c].cmd.exclude)
    BY <1>2 DEF IncludesRead, ExcludesRead
  <1>4. \A rows, tags : HavingAny(rows, ToSet(tags)) = Having(rows, tags)
    BY DEF HavingAny, Having
  <1> QED  BY <1>1, <1>3, <1>4 DEF Resolves, Watching

\* The universe of a report holds every symbol that was included and not excluded all the
\* while it was resolved, none that was never included and none that was excluded throughout,
\* whatever other clients label and unlabel meanwhile (resolve_universe).
THEOREM UniverseTagged == Spec => []UniverseWasTagged
  <1>1. Init => UniverseInv
    BY UniverseInit
  <1>2. UniverseInv /\ [Next]_vars => UniverseInv'
    BY UniverseStep
  <1>3. UniverseInv => UniverseWasTagged
    BY UniverseInvImplies
  <1> QED  BY <1>1, <1>2, <1>3, PTL DEF Spec

-----------------------------------------------------------------------------
(* Sums of counts. *)

\* Counts, of the calls given.
CountsIn(calls, clients) == UNION {{c} \X (1..calls[c].count) : c \in clients}

LEMMA CountsKept ==
    ASSUME NEW f, NEW g, NEW A, NEW B,
           \A d \in A : (d \in B /\ g[d].count = f[d].count) \/ f[d].count = 0,
           \A d \in B : (d \in A /\ g[d].count = f[d].count) \/ g[d].count = 0
    PROVE  CountsIn(g, B) = CountsIn(f, A)
  <1>1. 1..0 = {}
    OBVIOUS
  <1>2. ASSUME NEW d \in A, NEW k \in 1..f[d].count PROVE <<d, k>> \in CountsIn(g, B)
    <2>1. f[d].count # 0
      BY <1>1
    <2>2. d \in B /\ k \in 1..g[d].count
      BY <2>1
    <2> QED  BY <2>2 DEF CountsIn
  <1>3. ASSUME NEW d \in B, NEW k \in 1..g[d].count PROVE <<d, k>> \in CountsIn(f, A)
    <2>1. g[d].count # 0
      BY <1>1
    <2>2. d \in A /\ k \in 1..f[d].count
      BY <2>1
    <2> QED  BY <2>2 DEF CountsIn
  <1>4. CountsIn(f, A) \subseteq CountsIn(g, B)
    <2> SUFFICES ASSUME NEW x \in CountsIn(f, A) PROVE x \in CountsIn(g, B)
      OBVIOUS
    <2>1. PICK d \in A : x \in {d} \X (1..f[d].count)
      BY DEF CountsIn
    <2>2. x = <<d, x[2]>> /\ x[2] \in 1..f[d].count
      BY <2>1
    <2> QED  BY <1>2, <2>2
  <1>5. CountsIn(g, B) \subseteq CountsIn(f, A)
    <2> SUFFICES ASSUME NEW x \in CountsIn(g, B) PROVE x \in CountsIn(f, A)
      OBVIOUS
    <2>1. PICK d \in B : x \in {d} \X (1..g[d].count)
      BY DEF CountsIn
    <2>2. x = <<d, x[2]>> /\ x[2] \in 1..g[d].count
      BY <2>1
    <2> QED  BY <1>3, <2>2
  <1> QED  BY <1>4, <1>5

LEMMA CountsFinite ==
    ASSUME NEW f, NEW A, IsFiniteSet(A), NEW n \in Nat, \A d \in A : f[d].count \in 0..n
    PROVE  IsFiniteSet(CountsIn(f, A)) /\ Cardinality(CountsIn(f, A)) \in Nat
  <1>1. IsFiniteSet(A \X (1..n))
    <2>1. IsFiniteSet(1..n)
      BY FS_Interval
    <2> QED  BY <2>1, FS_Product
  <1>2. CountsIn(f, A) \in SUBSET (A \X (1..n))
    <2> SUFFICES ASSUME NEW x \in CountsIn(f, A) PROVE x \in A \X (1..n)
      OBVIOUS
    <2>1. PICK d \in A : x \in {d} \X (1..f[d].count)
      BY DEF CountsIn
    <2>2. f[d].count \in 0..n
      OBVIOUS
    <2>3. 1..f[d].count \subseteq 1..n
      BY <2>2
    <2> QED  BY <2>1, <2>3
  <1> QED  BY <1>1, <1>2, FS_Subset, FS_CardinalityType

LEMMA CountsMore ==
    ASSUME NEW f, NEW g, NEW A, NEW B, NEW c, B = A \cup {c}, IsFiniteSet(CountsIn(f, A)),
           \A d \in A : d # c => g[d].count = f[d].count,
           NEW m \in Nat, NEW n \in Nat, m <= n, g[c].count = n, 
           c \in A => f[c].count = m, c \notin A => m = 0
    PROVE  Cardinality(CountsIn(g, B)) = Cardinality(CountsIn(f, A)) + (n - m)
  <1> DEFINE old == CountsIn(f, A)
             new == {c} \X ((m + 1)..n)
  <1>1. IsFiniteSet(new) /\ Cardinality(new) = n - m
    <2>1. IsFiniteSet((m + 1)..n) /\ Cardinality((m + 1)..n) = n - m
      BY FS_Interval
    <2>2. IsFiniteSet({c}) /\ Cardinality({c}) = 1
      BY FS_Singleton
    <2>3. /\ IsFiniteSet({c} \X ((m + 1)..n))
          /\ Cardinality({c} \X ((m + 1)..n)) = Cardinality({c}) * Cardinality((m + 1)..n)
      <3> PICK S, T : S = {c} /\ T = (m + 1)..n
        OBVIOUS
      <3>1. IsFiniteSet(S \X T) /\ Cardinality(S \X T) = Cardinality(S) * Cardinality(T)
        BY <2>1, <2>2, FS_Product
      <3> QED  BY <3>1
    <2> QED  BY <2>1, <2>2, <2>3
  <1>2. old \cap new = {}
    <2> SUFFICES ASSUME NEW x \in old, x \in new PROVE FALSE
      OBVIOUS
    <2>1. PICK d \in A : x \in {d} \X (1..f[d].count)
      BY DEF CountsIn
    <2>2. d = c /\ x[2] \in 1..m /\ x[2] \in (m + 1)..n
      BY <2>1
    <2> QED  BY <2>2
  <1>3. CountsIn(g, B) = old \cup new
    <2>1. ASSUME NEW x \in CountsIn(g, B) PROVE x \in old \cup new
      <3>1. PICK d \in B : x \in {d} \X (1..g[d].count)
        BY <2>1 DEF CountsIn
      <3>2. CASE d # c
        <4>1. d \in A /\ x \in {d} \X (1..f[d].count)
          BY <3>1, <3>2
        <4> QED  BY <4>1 DEF CountsIn
      <3>3. CASE d = c /\ x[2] \in (m + 1)..n
        BY <3>1, <3>3
      <3>4. CASE d = c /\ x[2] \notin (m + 1)..n
        <4>1. x[2] \in 1..m
          BY <3>1, <3>4
        <4>2. c \in A
          BY <4>1
        <4>3. x \in {c} \X (1..f[c].count)
          BY <3>1, <3>4, <4>1, <4>2
        <4> QED  BY <4>2, <4>3 DEF CountsIn
      <3> QED  BY <3>2, <3>3, <3>4
    <2>2. ASSUME NEW x \in old PROVE x \in CountsIn(g, B)
      <3>1. PICK d \in A : x \in {d} \X (1..f[d].count)
        BY <2>2 DEF CountsIn
      <3>2. 1..m \subseteq 1..n
        OBVIOUS
      <3>3. d \in B /\ x \in {d} \X (1..g[d].count)
        BY <3>1, <3>2
      <3> QED  BY <3>3 DEF CountsIn
    <2>3. ASSUME NEW x \in new PROVE x \in CountsIn(g, B)
      <3>1. (m + 1)..n \subseteq 1..n
        OBVIOUS
      <3>2. c \in B /\ x \in {c} \X (1..g[c].count)
        BY <2>3, <3>1
      <3> QED  BY <3>2 DEF CountsIn
    <2> QED  BY <2>1, <2>2, <2>3
  <1>4. Cardinality(old \cup new) = Cardinality(old) + Cardinality(new) - Cardinality(old \cap new)
    <2> HIDE DEF old, new
    <2>1. IsFiniteSet(old)
      BY DEF old
    <2> QED  BY <1>1, <2>1, FS_Union
  <1>5. Cardinality(old) \in Nat /\ Cardinality({}) = 0
    BY FS_CardinalityType, FS_EmptySet
  <1>6. Cardinality(CountsIn(g, B)) = Cardinality(old \cup new)
    BY <1>3
  <1> HIDE DEF old, new
  <1>7. Cardinality(CountsIn(g, B)) = Cardinality(old) + (n - m)
    <2>1. Cardinality(old \cap new) = 0
      BY <1>2, <1>5
    <2>2. n - m \in Nat
      OBVIOUS
    <2> QED  BY <1>1, <1>4, <1>5, <1>6, <2>1, <2>2
  <1> QED  BY <1>7 DEF old

-----------------------------------------------------------------------------
(* What holds of a call, whatever the others do. *)

\* What a report may read.
AnyRead(cmd) == {<<"all">>} \cup ReadsOf(cmd)

Bound == Max({Cardinality(Ticker), Cardinality(FeatureKey)})

Typed(c) ==
    /\ call[c].pc \in Ended \cup {"idle", "importing", "labelling", "adding", "deleting", "resolving"}
    /\ call[c].pc \in {"importing", "labelling", "adding"} => call[c].todo \subseteq Ticker
    /\ call[c].count \in 0..Bound
    /\ call[c].found \subseteq Symbol
    /\ during[c].always \subseteq during[c].ever

Fits(c) ==
    /\ call[c].pc = "idle" => call[c].cmd.op = "none" /\ call[c].count = 0
    /\ call[c].pc # "idle" => call[c].cmd \in Command[c]
    /\ call[c].pc = "importing" => call[c].cmd.op = "import"
    /\ call[c].pc = "labelling" => /\ call[c].cmd.op \in {"label", "unlabel"}
                                   /\ call[c].todo \subseteq ticker
    /\ call[c].pc = "adding" => call[c].cmd.op = "create" /\ call[c].todo # {}
    /\ call[c].pc = "deleting" =>
          /\ call[c].cmd.op = "delete"
          /\ ~call[c].raced => call[c].count = Cardinality(Doomed(call[c].cmd))
    /\ call[c].pc = "resolving" => /\ call[c].cmd.op \in Reports
                                   /\ call[c].reads \in Seq(AnyRead(call[c].cmd))
    /\ call[c].pc \notin Ended => call[c].answer.status = "none"
    /\ call[c].pc \in {"importing", "labelling"} =>
          call[c].count + Cardinality(call[c].todo) <= Cardinality(Ticker)

TablesTyped ==
    /\ ticker \subseteq Ticker /\ feature \subseteq FeatureKey
    /\ ticker_tag \subseteq ticker \X Tag
    /\ daily_price \in History

Balanced ==
    /\ Cardinality(ticker) = Cardinality(InitTickers) + Total(Doing("import"))
    /\ Cardinality(ticker_tag) + Total(Doing("unlabel")) =
          Cardinality(InitTags) + Total(Doing("label"))
    /\ (\A c \in Client : ~call[c].raced) =>
          Cardinality(feature) + Total(Deleted) = Cardinality(InitFeatures) + Cardinality(Created)

CallsFit ==
    /\ Shaped /\ DOMAIN during = Client /\ TablesTyped
    /\ \A c \in Client : Typed(c) /\ Fits(c)

CountInv == CallsFit /\ Balanced

LEMMA CountInvMeans == CountInv => CountsAddUp
  BY DEF CountInv, CallsFit, CountsAddUp, TypeOK, TablesTyped, Typed, Balanced, Bound

LEMMA Sizes ==
    /\ IsFiniteSet(Ticker) /\ Cardinality(Ticker) \in Nat
    /\ IsFiniteSet(FeatureKey) /\ Cardinality(FeatureKey) \in Nat
    /\ Bound \in Nat /\ Cardinality(Ticker) <= Bound /\ Cardinality(FeatureKey) <= Bound
  <1>1. IsFiniteSet(Symbol) /\ IsFiniteSet(Exchange) /\ IsFiniteSet(Feature) /\ IsFiniteSet(Day)
    BY CatalogAssumption
  <1>2. IsFiniteSet(Symbol \X Exchange)
    BY <1>1, FS_Product
  <1>3. IsFiniteSet(Feature \X Day)
    BY <1>1, FS_Product
  <1>4. IsFiniteSet((Symbol \X Exchange) \X (Feature \X Day))
    <2> PICK S, T : S = Symbol \X Exchange /\ T = Feature \X Day
      OBVIOUS
    <2>1. IsFiniteSet(S \X T)
      BY <1>2, <1>3, FS_Product
    <2> QED  BY <2>1
  <1>5. IsFiniteSet(FeatureKey)
    <2> DEFINE f == [r \in FeatureKey |-> <<<<r.symbol, r.exchange>>, <<r.feature, r.day>>>>]
    <2>1. f \in [FeatureKey -> (Symbol \X Exchange) \X (Feature \X Day)]
      BY DEF FeatureKey
    <2>2. \A a, b \in FeatureKey : f[a] = f[b] => a = b
      BY DEF FeatureKey
    <2>3. f \in Injection(FeatureKey, (Symbol \X Exchange) \X (Feature \X Day))
      <3> HIDE DEF f
      <3> QED  BY <2>1, <2>2 DEF Injection, IsInjective
    <2> HIDE DEF f
    <2> QED  BY <1>4, <2>3, FS_Injection
  <1>6. Cardinality(Ticker) \in Nat /\ Cardinality(FeatureKey) \in Nat
    BY <1>2, <1>5, FS_CardinalityType DEF Ticker
  <1>7. \A m, n \in Nat : Max({m, n}) \in {m, n} /\ Max({m, n}) >= m /\ Max({m, n}) >= n
    <2> SUFFICES ASSUME NEW m \in Nat, NEW n \in Nat
                 PROVE  Max({m, n}) \in {m, n} /\ \A x \in {m, n} : Max({m, n}) >= x
      OBVIOUS
    <2>1. \E y \in {m, n} : \A x \in {m, n} : y >= x
      OBVIOUS
    <2> QED  BY <2>1, Zenon DEF Max
  <1> QED  BY <1>2, <1>5, <1>6, <1>7 DEF Ticker, Bound

LEMMA TablesFinite ==
    ASSUME TablesTyped
    PROVE  /\ IsFiniteSet(ticker) /\ IsFiniteSet(ticker_tag) /\ IsFiniteSet(feature)
           /\ Cardinality(ticker) \in Nat /\ Cardinality(ticker_tag) \in Nat
           /\ Cardinality(feature) \in Nat /\ Cardinality(feature) <= Cardinality(FeatureKey)
  <1>1. IsFiniteSet(Ticker \X Tag)
    BY Sizes, FS_Product, CatalogAssumption
  <1>2. ticker \in SUBSET Ticker /\ ticker_tag \in SUBSET (Ticker \X Tag) /\ feature \in SUBSET FeatureKey
    BY DEF TablesTyped
  <1>3. IsFiniteSet(ticker)
    BY <1>2, Sizes, FS_Subset
  <1>4. IsFiniteSet(ticker_tag)
    BY <1>1, <1>2, FS_Subset
  <1>5. IsFiniteSet(feature) /\ Cardinality(feature) <= Cardinality(FeatureKey)
    BY <1>2, Sizes, FS_Subset
  <1> QED  BY <1>3, <1>4, <1>5, FS_CardinalityType

LEMMA TotalsAreNat ==
    ASSUME CallsFit, NEW A \in SUBSET Client
    PROVE  /\ Counts(A) = CountsIn(call, A) /\ IsFiniteSet(CountsIn(call, A)) /\ Total(A) \in Nat
           /\ Total(A) = Cardinality(CountsIn(call, A))
  <1>1. IsFiniteSet(A)
    BY FS_Subset, CatalogAssumption
  <1>2. \A d \in A : call[d].count \in 0..Bound
    BY DEF CallsFit, Typed
  <1>3. Counts(A) = CountsIn(call, A)
    BY DEF Counts, CountsIn
  <1> QED  BY <1>1, <1>2, <1>3, Sizes, CountsFinite DEF Total

\* A call that ends, or goes on, without a change of its count.
LEMMA SameTotals ==
    ASSUME CallsFit, Shaped', NEW c \in Client, \A d \in Client : d # c => Stands(d),
           call'[c].cmd = call[c].cmd
    PROVE  /\ \A op : ~Does(c, op) \/ call'[c].count = call[c].count =>
                 Total(Doing(op))' = Total(Doing(op))
           /\ \/ ~Does(c, "delete")
              \/ call'[c].count = call[c].count /\ (call'[c].pc = "done" <=> call[c].pc = "done")
              => Total(Deleted)' = Total(Deleted)
           /\ ~Does(c, "create") \/ (call'[c].answer.status = "success" <=> call[c].answer.status = "success")
              => Created' = Created
  <1>1. \A d \in Client : d # c => /\ call'[d].cmd = call[d].cmd /\ call'[d].count = call[d].count
                                   /\ call'[d].pc = call[d].pc /\ call'[d].answer = call[d].answer
    BY DEF Stands, Fields
  <1>2. \A op : Doing(op)' = Doing(op)
    BY <1>1 DEF Doing, Does
  <1>3. ASSUME NEW A \in SUBSET Client, c \in A => call'[c].count = call[c].count
        PROVE  CountsIn(call', A) = CountsIn(call, A)
    <2>1. \A d \in A : call'[d].count = call[d].count
      BY <1>1, <1>3
    <2> QED  BY <2>1, CountsKept
  <1>4. ASSUME NEW op, ~Does(c, op) \/ call'[c].count = call[c].count
        PROVE  Total(Doing(op))' = Total(Doing(op))
    <2> PICK A : A = Doing(op)
      OBVIOUS
    <2>1. A \in SUBSET Client /\ Doing(op)' = A /\ (c \in A => call'[c].count = call[c].count)
      BY <1>2, <1>4 DEF Doing
    <2>2. CountsIn(call', A) = CountsIn(call, A)
      BY <1>3, <2>1
    <2> QED  BY <2>1, <2>2 DEF Total, Counts, CountsIn
  <1>5. ASSUME \/ ~Does(c, "delete")
               \/ call'[c].count = call[c].count /\ (call'[c].pc = "done" <=> call[c].pc = "done")
        PROVE  Total(Deleted)' = Total(Deleted)
    <2> PICK A : A = Deleted
      OBVIOUS
    <2>1. A \in SUBSET Client /\ Deleted' = A /\ (c \in A => call'[c].count = call[c].count)
      BY <1>1, <1>2, <1>5 DEF Deleted, Doing, Does
    <2>2. CountsIn(call', A) = CountsIn(call, A)
      BY <1>3, <2>1
    <2> QED  BY <2>1, <2>2 DEF Total, Counts, CountsIn
  <1>6. ASSUME ~Does(c, "create") \/ (call'[c].answer.status = "success" <=> call[c].answer.status = "success")
        PROVE  Created' = Created
    BY <1>1, <1>2, <1>6 DEF Created, Doing, Does
  <1> QED  BY <1>4, <1>5, <1>6

\* A call that starts has counted nothing but what it is about to delete.
LEMMA StartTotals ==
    ASSUME CallsFit, Shaped', NEW c \in Client, \A d \in Client : d # c => Stands(d),
           call[c].pc = "idle",
           call'[c].count = 0 \/ (call'[c].cmd.op = "delete" /\ call'[c].pc # "done"),
           ~(call'[c].cmd.op = "create" /\ call'[c].answer.status = "success")
    PROVE  /\ \A op : op # "delete" => Total(Doing(op))' = Total(Doing(op))
           /\ Total(Deleted)' = Total(Deleted)
           /\ Created' = Created
  <1>1. \A d \in Client : d # c => /\ call'[d].cmd = call[d].cmd /\ call'[d].count = call[d].count
                                   /\ call'[d].pc = call[d].pc /\ call'[d].answer = call[d].answer
    BY DEF Stands, Fields
  <1>2. call[c].cmd.op = "none" /\ call[c].count = 0
    BY DEF CallsFit, Fits
  <1>3. ASSUME NEW op, op # "delete"
        PROVE  Total(Doing(op))' = Total(Doing(op))
    <2> PICK A, B : A = Doing(op) /\ B = Doing(op)'
      OBVIOUS
    <2>1. \A d \in A : (d \in B /\ call'[d].count = call[d].count) \/ call[d].count = 0
      BY <1>1, <1>2 DEF Doing, Does
    <2>2. \A d \in B : (d \in A /\ call'[d].count = call[d].count) \/ call'[d].count = 0
      BY <1>1, <1>2, <1>3 DEF Doing, Does
    <2>3. CountsIn(call', B) = CountsIn(call, A)
      BY <2>1, <2>2, CountsKept
    <2> QED  BY <2>3 DEF Total, Counts, CountsIn
  <1>4. Total(Deleted)' = Total(Deleted)
    <2> PICK A, B : A = Deleted /\ B = Deleted'
      OBVIOUS
    <2>1. \A d \in A : (d \in B /\ call'[d].count = call[d].count) \/ call[d].count = 0
      BY <1>1, <1>2 DEF Deleted, Doing, Does
    <2>2. \A d \in B : (d \in A /\ call'[d].count = call[d].count) \/ call'[d].count = 0
      BY <1>1, <1>2 DEF Deleted, Doing, Does
    <2>3. CountsIn(call', B) = CountsIn(call, A)
      BY <2>1, <2>2, CountsKept
    <2> QED  BY <2>3 DEF Total, Counts, CountsIn
  <1>5. Created' = Created
    BY <1>1, <1>2 DEF Created, Doing, Does
  <1> QED  BY <1>3, <1>4, <1>5

\* One more change is counted.
LEMMA MoreTotal ==
    ASSUME CallsFit, Shaped', NEW c \in Client, \A d \in Client : d # c => Stands(d),
           call'[c].cmd = call[c].cmd, call'[c].count = call[c].count + 1, NEW op, Does(c, op)
    PROVE  Total(Doing(op))' = Total(Doing(op)) + 1
  <1> PICK A : A = Doing(op)
    OBVIOUS
  <1>1. \A d \in Client : d # c => /\ call'[d].cmd = call[d].cmd /\ call'[d].count = call[d].count
    BY DEF Stands, Fields
  <1>2. A \in SUBSET Client /\ Doing(op)' = A /\ c \in A
    BY <1>1 DEF Doing, Does
  <1>3. call[c].count \in Nat
    BY Sizes DEF CallsFit, Typed
  <1>4. /\ IsFiniteSet(CountsIn(call, A)) /\ Total(A) = Cardinality(CountsIn(call, A))
        /\ Total(A) \in Nat
    BY <1>2, TotalsAreNat
  <1>5. Cardinality(CountsIn(call', A)) =
           Cardinality(CountsIn(call, A)) + ((call[c].count + 1) - call[c].count)
    <2> PICK m, n, f, g : m = call[c].count /\ n = call[c].count + 1 /\ f = call /\ g = call'
      OBVIOUS
    <2>1. m \in Nat /\ n \in Nat /\ m <= n /\ A = A \cup {c} /\ g[c].count = n /\ f[c].count = m
      BY <1>2, <1>3
    <2>2. \A d \in A : d # c => g[d].count = f[d].count
      BY <1>1, <1>2
    <2>3. IsFiniteSet(CountsIn(f, A))
      BY <1>4
    <2>4. Cardinality(CountsIn(g, A)) = Cardinality(CountsIn(f, A)) + (n - m)
      BY <1>2, <2>1, <2>2, <2>3, CountsMore
    <2> QED  BY <2>4
  <1>6. (call[c].count + 1) - call[c].count = 1
    BY <1>3
  <1>7. Total(Doing(op))' = Cardinality(CountsIn(call', A))
    BY <1>2 DEF Total, Counts, CountsIn
  <1> QED  BY <1>4, <1>5, <1>6, <1>7

\* What the others do to a call is no more than to race its delete.
LEMMA OthersFit ==
    ASSUME CallsFit, NEW d \in Client, Stands(d),
           call[d].raced => call'[d].raced,
           call[d].pc = "deleting" /\ feature' # feature => call'[d].raced,
           ticker \subseteq ticker', during'[d] = during[d] \/ Observe
    PROVE  Typed(d)' /\ Fits(d)'
  <1>1. /\ call'[d].pc = call[d].pc /\ call'[d].cmd = call[d].cmd /\ call'[d].todo = call[d].todo
        /\ call'[d].found = call[d].found /\ call'[d].count = call[d].count
        /\ call'[d].answer = call[d].answer /\ call'[d].reads = call[d].reads
    BY DEF Stands, Fields
  <1>2. Typed(d) /\ Fits(d)
    BY DEF CallsFit
  <1>3. during'[d].always \subseteq during'[d].ever
    <2>1. CASE during'[d] = during[d]
      BY <1>2, <2>1 DEF Typed
    <2>2. CASE Observe
      <3>1. \/ during'[d] = during[d]
            \/ during'[d] = [ever |-> during[d].ever \cup ticker_tag',
                             always |-> during[d].always \cap ticker_tag']
        BY <2>2 DEF Observe
      <3> QED  BY <1>2, <3>1 DEF Typed
    <2> QED  BY <2>1, <2>2
  <1>4. Typed(d)'
    BY <1>1, <1>2, <1>3 DEF Typed, Bound
  <1>5. ASSUME call[d].pc = "deleting", ~call'[d].raced
        PROVE  ~call[d].raced /\ Doomed(call[d].cmd)' = Doomed(call[d].cmd)
    <2>1. ~call[d].raced /\ feature' = feature
      BY <1>5, Zenon
    <2>2. Doomed(call[d].cmd)' = Doomed(call[d].cmd)
      BY <1>1, <2>1 DEF Doomed
    <2> QED  BY <2>1, <2>2
  <1>6. ASSUME call[d].pc = "deleting", ~call'[d].raced
        PROVE  call'[d].count = Cardinality(Doomed(call[d].cmd)')
    BY <1>1, <1>2, <1>5, <1>6 DEF Fits
  <1>7. Fits(d)'
    BY <1>1, <1>2, <1>6 DEF Fits
  <1> QED  BY <1>4, <1>7

\* A step that changes no table and counts nothing.
Quiet(c) ==
    /\ UNCHANGED tables /\ Shaped'
    /\ \A d \in Client : d # c => call'[d] = call[d]
    /\ call'[c].raced = call[c].raced
    /\ \/ /\ call'[c].cmd = call[c].cmd /\ call'[c].count = call[c].count
          /\ Does(c, "delete") => call'[c].pc # "done" /\ call[c].pc # "done"
          /\ Does(c, "create") => call'[c].answer = call[c].answer
       \/ /\ call[c].pc = "idle"
          /\ call'[c].count = 0 \/ (call'[c].cmd.op = "delete" /\ call'[c].pc # "done")
          /\ ~(call'[c].cmd.op = "create" /\ call'[c].answer.status = "success")

LEMMA QuietBalances ==
    ASSUME CountInv, NEW c \in Client, Quiet(c)
    PROVE  Balanced'
  <1>1. \A d \in Client : d # c => Stands(d)
    BY DEF Quiet, Stands
  <1>2. CallsFit /\ Shaped'
    BY DEF CountInv, Quiet
  <1>3. /\ \A op : op # "delete" => Total(Doing(op))' = Total(Doing(op))
        /\ Total(Deleted)' = Total(Deleted)
        /\ Created' = Created
    <2>1. CASE /\ call'[c].cmd = call[c].cmd /\ call'[c].count = call[c].count
               /\ Does(c, "delete") => call'[c].pc # "done" /\ call[c].pc # "done"
               /\ Does(c, "create") => call'[c].answer = call[c].answer
      BY <1>1, <1>2, <2>1, SameTotals
    <2>2. CASE /\ call[c].pc = "idle"
               /\ call'[c].count = 0 \/ (call'[c].cmd.op = "delete" /\ call'[c].pc # "done")
               /\ ~(call'[c].cmd.op = "create" /\ call'[c].answer.status = "success")
      BY <1>1, <1>2, <2>2, StartTotals
    <2> QED  BY <2>1, <2>2 DEF Quiet
  <1>4. /\ Total(Doing("import"))' = Total(Doing("import"))
        /\ Total(Doing("label"))' = Total(Doing("label"))
        /\ Total(Doing("unlabel"))' = Total(Doing("unlabel"))
    BY <1>3
  <1>5. \A d \in Client : call'[d].raced = call[d].raced
    BY DEF Quiet
  <1>6. ticker' = ticker /\ ticker_tag' = ticker_tag /\ feature' = feature
    BY DEF Quiet, tables
  <1>7. Balanced
    BY DEF CountInv
  <1> QED  BY <1>3, <1>4, <1>5, <1>6, <1>7 DEF Balanced

\* The next state fits when the call that moved does.
LEMMA QuietKeeps ==
    ASSUME CountInv, NEW c \in Client, Quiet(c), Typed(c)', Fits(c)',
           DOMAIN during' = Client, \A d \in Client : d # c => during'[d] = during[d]
    PROVE  CountInv'
  <1>1. ticker' = ticker /\ ticker_tag' = ticker_tag /\ feature' = feature /\ daily_price' = daily_price
    BY DEF Quiet, tables
  <1>2. TablesTyped'
    BY <1>1 DEF CountInv, CallsFit, TablesTyped
  <1>3. ASSUME NEW d \in Client, d # c PROVE Typed(d)' /\ Fits(d)'
    <2>1. Stands(d) /\ call'[d] = call[d]
      BY <1>3 DEF Quiet, Stands
    <2> QED  BY <1>1, <1>3, <2>1, OthersFit DEF CountInv
  <1>4. CallsFit'
    BY <1>2, <1>3 DEF CallsFit, Quiet
  <1> QED  BY <1>4, QuietBalances DEF CountInv

\* The fields of a call after a step.
Becomes(c, pc, cmd, todo, found, count, answer) ==
    /\ Shaped' /\ \A d \in Client : d # c => call'[d] = call[d]
    /\ call'[c].raced = call[c].raced
    /\ call'[c].pc = pc /\ call'[c].cmd = cmd /\ call'[c].todo = todo
    /\ call'[c].found = found /\ call'[c].count = count /\ call'[c].answer = answer

LEMMA AtOnceKeeps ==
    ASSUME CountInv, NEW c \in Client, NEW cmd \in Command[c], NEW status,
           call[c].pc = "idle", Go(c, AnswerAtOnce(cmd, status)),
           ~(cmd.op = "create" /\ status = "success"),
           UNCHANGED tables, DOMAIN during' = Client,
           \A d \in Client : d # c => during'[d] = during[d],
           during'[c].always \subseteq during'[c].ever
    PROVE  CountInv'
  <1>1. Shaped /\ Typed(c) /\ Fits(c)
    BY DEF CountInv, CallsFit
  <1>2. Becomes(c, "done", cmd, call[c].todo, call[c].found, call[c].count, [status |-> status])
    BY <1>1, Went DEF AnswerAtOnce, Fields, Becomes
  <1>3. Quiet(c)
    BY <1>1, <1>2 DEF Becomes, Quiet, Fits
  <1>4. Typed(c)' /\ Fits(c)'
    BY <1>1, <1>2 DEF Becomes, Typed, Fits, Ended, Bound
  <1> QED  BY <1>3, <1>4, QuietKeeps

LEMMA KeptDuring ==
    ASSUME CountInv, during' = during
    PROVE  /\ DOMAIN during' = Client /\ \A d \in Client : during'[d] = during[d]
           /\ \A d \in Client : during'[d].always \subseteq during'[d].ever
  BY DEF CountInv, CallsFit, Typed

LEMMA ImportGetKeeps ==
    ASSUME CountInv, NEW c \in Client, NEW cmd \in Command[c], ImportGet(c, cmd)
    PROVE  CountInv'
  <1>1. call[c].pc = "idle" /\ cmd.op = "import" /\ UNCHANGED tables /\ during' = during
    BY DEF ImportGet
  <1>2. CASE \E status : Go(c, AnswerAtOnce(cmd, status))
    BY <1>1, <1>2, AtOnceKeeps, KeptDuring
  <1>3. CASE Go(c, [cmd |-> cmd, pc |-> "importing", todo |-> Remote])
    <2>1. Shaped /\ Typed(c) /\ Fits(c)
      BY DEF CountInv, CallsFit
    <2>2. Becomes(c, "importing", cmd, Remote, call[c].found, call[c].count, call[c].answer)
      BY <1>3, <2>1, Went DEF Fields, Becomes
    <2>3. Quiet(c)
      BY <1>1, <2>1, <2>2 DEF Becomes, Quiet, Fits
    <2>4. Remote \in SUBSET Ticker /\ Cardinality(Remote) <= Cardinality(Ticker)
          /\ Cardinality(Remote) \in Nat
      BY Sizes, FS_Subset, FS_CardinalityType, CatalogAssumption
    <2>5. Typed(c)'
      BY <1>1, <2>1, <2>2, <2>4 DEF Becomes, Typed, Ended, Bound
    <2>6. Fits(c)'
      BY <1>1, <2>1, <2>2, <2>4 DEF Becomes, Fits, Ended
    <2> QED  BY <1>1, <2>3, <2>5, <2>6, QuietKeeps, KeptDuring
  <1> QED  BY <1>2, <1>3 DEF ImportGet

LEMMA LabelListKeeps ==
    ASSUME CountInv, NEW c \in Client, NEW cmd \in Command[c], LabelList(c, cmd)
    PROVE  CountInv'
  <1>1. /\ call[c].pc = "idle" /\ cmd.op \in {"label", "unlabel"}
        /\ UNCHANGED tables /\ during' = during
    BY DEF LabelList
  <1>2. CASE \E status : Go(c, AnswerAtOnce(cmd, status))
    BY <1>1, <1>2, AtOnceKeeps, KeptDuring
  <1>3. CASE Go(c, [cmd |-> cmd, pc |-> "labelling", todo |-> Matching(cmd)])
    <2>1. Shaped /\ Typed(c) /\ Fits(c) /\ TablesTyped
      BY DEF CountInv, CallsFit
    <2>2. Becomes(c, "labelling", cmd, Matching(cmd), call[c].found, call[c].count, call[c].answer)
      BY <1>3, <2>1, Went DEF Fields, Becomes
    <2>3. Quiet(c)
      BY <1>1, <2>1, <2>2 DEF Becomes, Quiet, Fits
    <2>4. Matching(cmd) \in SUBSET ticker /\ Matching(cmd) \in SUBSET Ticker
      BY <2>1 DEF Matching, TablesTyped
    <2>5. Cardinality(Matching(cmd)) <= Cardinality(Ticker) /\ Cardinality(Matching(cmd)) \in Nat
      BY <2>4, Sizes, FS_Subset, FS_CardinalityType
    <2>6. Typed(c)'
      BY <1>1, <2>1, <2>2, <2>4 DEF Becomes, Typed, Ended, Bound
    <2>7. ticker' = ticker
      BY <1>1 DEF tables
    <2>8. Fits(c)'
      BY <1>1, <2>1, <2>2, <2>4, <2>5, <2>7 DEF Becomes, Fits, Ended
    <2> QED  BY <1>1, <2>3, <2>6, <2>8, QuietKeeps, KeptDuring
  <1> QED  BY <1>2, <1>3 DEF LabelList

LEMMA CreateListKeeps ==
    ASSUME CountInv, NEW c \in Client, NEW cmd \in Command[c], CreateList(c, cmd)
    PROVE  CountInv'
  <1> DEFINE listings == {t \in ticker : t[1] = cmd.symbol}
  <1>1. call[c].pc = "idle" /\ cmd.op = "create" /\ UNCHANGED tables /\ during' = during
    BY DEF CreateList
  <1>2. CASE \E status : status # "success" /\ Go(c, AnswerAtOnce(cmd, status))
    BY <1>1, <1>2, AtOnceKeeps, KeptDuring
  <1>3. CASE listings # {} /\ Go(c, [cmd |-> cmd, pc |-> "adding", todo |-> listings])
    <2>1. Shaped /\ Typed(c) /\ Fits(c) /\ TablesTyped
      BY DEF CountInv, CallsFit
    <2>2. listings \subseteq Ticker
      BY <2>1 DEF TablesTyped
    <2> HIDE DEF listings
    <2>3. Becomes(c, "adding", cmd, listings, call[c].found, call[c].count, call[c].answer)
      BY <1>3, <2>1, Went DEF Fields, Becomes
    <2>4. Quiet(c)
      <3>1. /\ call'[c].cmd.op = "create" /\ call'[c].answer.status = "none"
            /\ call'[c].count = 0 /\ call[c].pc = "idle"
        BY <1>1, <2>1, <2>3 DEF Becomes, Fits, Ended
      <3> QED  BY <1>1, <2>3, <3>1 DEF Becomes, Quiet
    <2>5. Typed(c)'
      BY <1>1, <2>1, <2>2, <2>3 DEF Becomes, Typed, Ended, Bound
    <2>6. Fits(c)'
      BY <1>1, <1>3, <2>1, <2>3 DEF Becomes, Fits, Ended
    <2> QED  BY <1>1, <2>4, <2>5, <2>6, QuietKeeps, KeptDuring
  <1> QED  BY <1>2, <1>3 DEF CreateList

LEMMA DoomedIsFinite ==
    ASSUME CallsFit, NEW cmd
    PROVE  /\ Doomed(cmd) \in SUBSET feature /\ IsFiniteSet(Doomed(cmd))
           /\ Cardinality(Doomed(cmd)) \in Nat /\ Cardinality(Doomed(cmd)) <= Bound
  <1>1. Doomed(cmd) \in SUBSET feature /\ TablesTyped
    BY DEF Doomed, CallsFit
  <1>2. IsFiniteSet(feature) /\ Cardinality(feature) <= Cardinality(FeatureKey)
        /\ Cardinality(feature) \in Nat
    BY <1>1, TablesFinite
  <1>3. IsFiniteSet(Doomed(cmd)) /\ Cardinality(Doomed(cmd)) <= Cardinality(feature)
    BY <1>1, <1>2, FS_Subset
  <1>4. Cardinality(Doomed(cmd)) \in Nat
    BY <1>3, FS_CardinalityType
  <1> QED  BY <1>1, <1>2, <1>3, <1>4, Sizes

LEMMA DeleteCountKeeps ==
    ASSUME CountInv, NEW c \in Client, NEW cmd \in Command[c], DeleteCount(c, cmd)
    PROVE  CountInv'
  <1>1. call[c].pc = "idle" /\ cmd.op = "delete" /\ UNCHANGED tables /\ during' = during
    BY DEF DeleteCount
  <1>2. CASE \E status : Go(c, AnswerAtOnce(cmd, status))
    BY <1>1, <1>2, AtOnceKeeps, KeptDuring
  <1>3. CASE Go(c, [cmd |-> cmd, pc |-> "deleting", count |-> Cardinality(Doomed(cmd))])
    <2>1. Shaped /\ Typed(c) /\ Fits(c) /\ CallsFit
      BY DEF CountInv, CallsFit
    <2>2. Becomes(c, "deleting", cmd, call[c].todo, call[c].found, Cardinality(Doomed(cmd)),
                  call[c].answer)
      BY <1>3, <2>1, Went DEF Fields, Becomes
    <2>3. Quiet(c)
      BY <1>1, <2>1, <2>2 DEF Becomes, Quiet, Fits
    <2>4. Cardinality(Doomed(cmd)) \in 0..Bound
      BY <2>1, DoomedIsFinite, Sizes
    <2>5. Typed(c)'
      BY <1>1, <2>1, <2>2, <2>4 DEF Becomes, Typed, Ended, Bound
    <2>6. Doomed(call[c].cmd)' = Doomed(cmd) /\ call'[c].count = Cardinality(Doomed(cmd))
      BY <1>1, <2>2 DEF Becomes, Doomed, tables
    <2>7. Fits(c)'
      BY <1>1, <2>1, <2>2, <2>6 DEF Becomes, Fits, Ended
    <2> QED  BY <1>1, <2>3, <2>5, <2>7, QuietKeeps, KeptDuring
  <1> QED  BY <1>2, <1>3 DEF DeleteCount

LEMMA ReadsTyped ==
    ASSUME NEW cmd, cmd.include \in Seq(ToSet(cmd.include)), cmd.exclude \in Seq(ToSet(cmd.exclude))
    PROVE  Reads(cmd) \in Seq(AnyRead(cmd))
  <1>1. CASE cmd.include # <<>>
    BY <1>1, AllIsLeft DEF AnyRead
  <1>2. CASE cmd.include = <<>>
    <2> DEFINE outs == [i \in DOMAIN cmd.exclude |-> <<"out", cmd.exclude[i]>>]
               n == Len(cmd.exclude)
    <2>1. n \in Nat /\ DOMAIN cmd.exclude = 1..n
      OBVIOUS
    <2>2. ASSUME NEW i \in 1..n PROVE <<"out", cmd.exclude[i]>> \in AnyRead(cmd)
      <3>1. cmd.exclude[i] \in ToSet(cmd.exclude)
        BY <2>1 DEF ToSet
      <3> QED  BY <3>1 DEF AnyRead, ReadsOf
    <2>3. outs \in [1..n -> AnyRead(cmd)]
      BY <2>1, <2>2
    <2>4. Reads(cmd) = <<<<"all">>>> \o outs
      BY <1>2, Zenon DEF Reads
    <2>5. <<<<"all">>>> \in Seq(AnyRead(cmd))
      BY DEF AnyRead
    <2> HIDE DEF outs, n
    <2>6. outs \in Seq(AnyRead(cmd))
      BY <2>1, <2>3
    <2> PICK S, a : S = AnyRead(cmd) /\ a = <<<<"all">>>>
      OBVIOUS
    <2>7. a \o outs \in Seq(S)
      <3>1. a \in Seq(S) /\ outs \in Seq(S)
        BY <2>5, <2>6
      <3> QED  BY <3>1, ConcatProperties
    <2> QED  BY <2>4, <2>7
  <1> QED  BY <1>1, <1>2

LEMMA ReportStartKeeps ==
    ASSUME CountInv, NEW c \in Client, NEW cmd \in Command[c], ReportStart(c, cmd)
    PROVE  CountInv'
  <1>1. /\ call[c].pc = "idle" /\ cmd.op \in Reports /\ UNCHANGED tables
        /\ during' = [during EXCEPT ![c] = [ever |-> ticker_tag, always |-> ticker_tag]]
        /\ DOMAIN during = Client
    BY DEF ReportStart, CountInv, CallsFit
  <1>2. /\ DOMAIN during' = Client /\ \A d \in Client : d # c => during'[d] = during[d]
        /\ during'[c].always \subseteq during'[c].ever
    BY <1>1
  <1>3. cmd.op # "create" /\ cmd.op # "delete"
    BY <1>1 DEF Reports
  <1>4. CASE ~Accepted(cmd)
    <2>1. Go(c, AnswerAtOnce(cmd, "invalid"))
      BY <1>4 DEF ReportStart
    <2> QED  BY <1>1, <1>2, <1>3, <2>1, AtOnceKeeps
  <1>5. CASE Accepted(cmd)
    <2> DEFINE reads == IF cmd.op = "ranges" /\ cmd.include = <<>> THEN <<>> ELSE Reads(cmd)
    <2>1. Go(c, [cmd |-> cmd, pc |-> "resolving", found |-> cmd.explicit, reads |-> reads])
      BY <1>5 DEF ReportStart
    <2>2. WellFormed(cmd)
      BY CatalogAssumption
    <2>3. cmd.explicit \subseteq Symbol /\ reads \in Seq(AnyRead(cmd))
      BY <1>1, <2>2, ReadsTyped DEF WellFormed
    <2> HIDE DEF reads
    <2>4. Shaped /\ Typed(c) /\ Fits(c)
      BY DEF CountInv, CallsFit
    <2>5. /\ Becomes(c, "resolving", cmd, call[c].todo, cmd.explicit, call[c].count, call[c].answer)
          /\ call'[c].reads = reads
      BY <2>1, <2>4, Went DEF Fields, Becomes
    <2>6. Quiet(c)
      BY <1>1, <1>3, <2>4, <2>5 DEF Becomes, Quiet, Fits
    <2>7. Typed(c)'
      BY <1>1, <1>2, <2>3, <2>4, <2>5 DEF Becomes, Typed, Ended, Bound
    <2>8. Fits(c)'
      BY <1>1, <2>3, <2>4, <2>5 DEF Becomes, Fits, Ended
    <2> QED  BY <1>2, <2>6, <2>7, <2>8, QuietKeeps
  <1> QED  BY <1>4, <1>5

LEMMA CountedKeeps ==
    ASSUME CountInv, NEW c \in Client, Counted(c)
    PROVE  CountInv'
  <1>1. /\ call[c].pc \in {"importing", "labelling"} /\ Go(c, Answer("success"))
        /\ UNCHANGED tables /\ during' = during
    BY DEF Counted
  <1>2. Shaped /\ Typed(c) /\ Fits(c)
    BY DEF CountInv, CallsFit
  <1>3. Becomes(c, "done", call[c].cmd, call[c].todo, call[c].found, call[c].count,
                [status |-> "success"])
    BY <1>1, <1>2, Went DEF Answer, Fields, Becomes
  <1>4. Quiet(c)
    <2>1. ~Does(c, "delete") /\ ~Does(c, "create")
      BY <1>1, <1>2 DEF Fits, Does
    <2> QED  BY <1>1, <1>3, <2>1 DEF Becomes, Quiet
  <1>5. Typed(c)'
    BY <1>1, <1>2, <1>3, KeptDuring DEF Becomes, Typed, Ended, Bound
  <1>6. Fits(c)'
    BY <1>1, <1>2, <1>3 DEF Becomes, Fits, Ended
  <1> QED  BY <1>1, <1>4, <1>5, <1>6, QuietKeeps, KeptDuring

LEMMA KillKeeps ==
    ASSUME CountInv, NEW c \in Client, Kill(c)
    PROVE  CountInv'
  <1>1. /\ call[c].pc \notin Ended \cup {"idle"} /\ Go(c, [pc |-> "killed"])
        /\ UNCHANGED tables /\ during' = during
    BY DEF Kill
  <1>2. Shaped /\ Typed(c) /\ Fits(c)
    BY DEF CountInv, CallsFit
  <1>3. Becomes(c, "killed", call[c].cmd, call[c].todo, call[c].found, call[c].count, call[c].answer)
    BY <1>1, <1>2, Went DEF Fields, Becomes
  <1>4. Quiet(c)
    BY <1>1, <1>3 DEF Becomes, Quiet, Ended
  <1>5. Typed(c)'
    BY <1>1, <1>2, <1>3, KeptDuring DEF Becomes, Typed, Ended, Bound
  <1>6. Fits(c)'
    BY <1>1, <1>2, <1>3 DEF Becomes, Fits, Ended
  <1> QED  BY <1>1, <1>4, <1>5, <1>6, QuietKeeps, KeptDuring

LEMMA ReportKeeps ==
    ASSUME CountInv, NEW c \in Client, Report(c)
    PROVE  CountInv'
  <1>1. PICK answer : Go(c, [pc |-> "done", answer |-> answer])
    BY DEF Report
  <1>2. call[c].pc = "resolving" /\ UNCHANGED tables /\ during' = during
    BY DEF Report
  <1>3. Shaped /\ Typed(c) /\ Fits(c)
    BY DEF CountInv, CallsFit
  <1>4. Becomes(c, "done", call[c].cmd, call[c].todo, call[c].found, call[c].count, answer)
    BY <1>1, <1>3, Went DEF Fields, Becomes
  <1>5. Quiet(c)
    <2>1. ~Does(c, "delete") /\ ~Does(c, "create")
      BY <1>2, <1>3 DEF Fits, Does, Reports
    <2> QED  BY <1>2, <1>4, <2>1 DEF Becomes, Quiet
  <1>6. Typed(c)'
    BY <1>2, <1>3, <1>4, KeptDuring DEF Becomes, Typed, Ended, Bound
  <1>7. Fits(c)'
    BY <1>2, <1>3, <1>4 DEF Becomes, Fits, Ended
  <1> QED  BY <1>2, <1>5, <1>6, <1>7, QuietKeeps, KeptDuring

LEMMA ReadUniverseKeeps ==
    ASSUME CountInv, NEW c \in Client, ReadUniverse(c)
    PROVE  CountInv'
  <1> DEFINE reads == call[c].reads
             read == Head(reads)
             found == call[c].found
             after == CASE read[1] = "all" -> Priced
                        [] read[1] = "in" -> found \cup Tagged(read[2])
                        [] read[1] = "out" -> found \ Tagged(read[2])
  <1>1. /\ call[c].pc = "resolving" /\ reads # <<>> /\ UNCHANGED tables /\ during' = during
        /\ Go(c, [reads |-> Tail(reads), found |-> after])
    BY DEF ReadUniverse
  <1>2. Shaped /\ Typed(c) /\ Fits(c) /\ TablesTyped
    BY DEF CountInv, CallsFit
  <1>3. read \in AnyRead(call[c].cmd) /\ Tail(reads) \in Seq(AnyRead(call[c].cmd))
    <2> PICK S, q : S = AnyRead(call[c].cmd) /\ q = reads
      OBVIOUS
    <2>1. q \in Seq(S) /\ q # <<>>
      BY <1>1, <1>2 DEF Fits
    <2>2. Head(q) \in S /\ Tail(q) \in Seq(S)
      BY <2>1, HeadAndTail
    <2> QED  BY <2>2
  <1>4. after \subseteq Symbol
    <2>1. read[1] = "all" \/ read[1] = "in" \/ read[1] = "out"
      BY <1>3 DEF AnyRead, ReadsOf
    <2>2. Priced \subseteq Symbol
      BY DEF Priced
    <2>3. \A tag : Tagged(tag) \subseteq Symbol
      BY <1>2 DEF Tagged, TablesTyped, Ticker
    <2>4. found \subseteq Symbol
      BY <1>2 DEF Typed
    <2> HIDE DEF read, found
    <2> QED  BY <2>1, <2>2, <2>3, <2>4
  <1> PICK b : b = after
    OBVIOUS
  <1>5. Go(c, [reads |-> Tail(reads), found |-> b]) /\ b \subseteq Symbol
    BY <1>1, <1>4
  <1> HIDE DEF after, read
  <1>6. /\ Becomes(c, "resolving", call[c].cmd, call[c].todo, b, call[c].count, call[c].answer)
        /\ call'[c].reads = Tail(reads)
    <2> PICK r : r = Tail(reads)
      OBVIOUS
    <2> PICK changes : changes = [reads |-> r, found |-> b]
      OBVIOUS
    <2>1. /\ Go(c, changes) /\ DOMAIN changes = {"reads", "found"}
          /\ changes["reads"] = r /\ changes["found"] = b
      BY <1>5
    <2>2. /\ Shaped' /\ \A d \in Client : d # c => call'[d] = call[d]
          /\ \A x \in Fields : call'[c][x] = IF x \in DOMAIN changes THEN changes[x] ELSE call[c][x]
      BY <1>2, <2>1, Went
    <2> HIDE DEF reads
    <2> QED  BY <1>1, <2>1, <2>2 DEF Fields, Becomes
  <1>7. Quiet(c)
    BY <1>1, <1>6 DEF Becomes, Quiet
  <1>8. Typed(c)'
    BY <1>1, <1>2, <1>5, <1>6, KeptDuring DEF Becomes, Typed, Ended, Bound
  <1>9. Fits(c)'
    BY <1>1, <1>2, <1>3, <1>6 DEF Becomes, Fits, Ended
  <1> QED  BY <1>1, <1>7, <1>8, <1>9, QuietKeeps, KeptDuring

LEMMA StepFits ==
    ASSUME CallsFit, NEW c \in Client, Shaped', TablesTyped', Typed(c)', Fits(c)',
           \A d \in Client : d # c => Stands(d),
           \A d \in Client : d # c =>
              /\ call[d].raced => call'[d].raced
              /\ call[d].pc = "deleting" /\ feature' # feature => call'[d].raced,
           ticker \subseteq ticker', during' = during \/ Observe
    PROVE  CallsFit'
  <1>1. ASSUME NEW d \in Client, d # c PROVE Typed(d)' /\ Fits(d)'
    <2>1. /\ call[d].raced => call'[d].raced
          /\ call[d].pc = "deleting" /\ feature' # feature => call'[d].raced
      BY <1>1
    <2>2. during'[d] = during[d] \/ Observe
      OBVIOUS
    <2> QED  BY <1>1, <2>1, <2>2, OthersFit
  <1>2. DOMAIN during' = Client
    BY DEF CallsFit, Observe
  <1> QED  BY <1>1, <1>2 DEF CallsFit

LEMMA OneLess ==
    ASSUME NEW todo, todo \subseteq Ticker, NEW t \in todo, NEW count \in Nat, NEW more \in 0..1,
           count + Cardinality(todo) <= Cardinality(Ticker)
    PROVE  /\ count + more \in 0..Bound /\ todo \ {t} \subseteq Ticker
           /\ (count + more) + Cardinality(todo \ {t}) <= Cardinality(Ticker)
  <1>1. todo \in SUBSET Ticker
    OBVIOUS
  <1>2. IsFiniteSet(todo)
    BY <1>1, Sizes, FS_Subset
  <1>3. Cardinality(todo) \in Nat /\ Cardinality(todo \ {t}) = Cardinality(todo) - 1
    BY <1>2, FS_RemoveElement, FS_CardinalityType
  <1>4. Cardinality(todo \ {t}) \in Nat
    <2>1. IsFiniteSet(todo \ {t})
      BY <1>2, FS_RemoveElement
    <2> QED  BY <2>1, FS_CardinalityType
  <1> QED  BY <1>1, <1>3, <1>4, Sizes

LEMMA OneRowMore ==
    ASSUME NEW S, IsFiniteSet(S), NEW x
    PROVE  /\ Cardinality(S \cup {x}) = Cardinality(S) + IF x \in S THEN 0 ELSE 1
           /\ Cardinality(S \cup {x}) \in Nat
  BY FS_AddElement, FS_CardinalityType

LEMMA OneRowLess ==
    ASSUME NEW S, IsFiniteSet(S), NEW x
    PROVE  /\ Cardinality(S) = Cardinality(S \ {x}) + IF x \in S THEN 1 ELSE 0
           /\ Cardinality(S \ {x}) \in Nat
  <1>1. Cardinality(S) \in Nat
    BY FS_CardinalityType
  <1>2. IsFiniteSet(S \ {x})
    BY FS_Subset
  <1>3. Cardinality(S \ {x}) \in Nat
    BY <1>2, FS_CardinalityType
  <1>4. CASE x \in S
    <2>1. Cardinality(S \ {x}) = Cardinality(S) - 1
      BY <1>4, FS_RemoveElement
    <2> QED  BY <1>1, <1>3, <1>4, <2>1
  <1>5. CASE x \notin S
    <2>1. S \ {x} = S
      BY <1>5
    <2>2. Cardinality(S \ {x}) = Cardinality(S)
      BY <2>1, Zenon
    <2> QED  BY <1>1, <1>3, <1>5, <2>2
  <1> QED  BY <1>4, <1>5

\* The counts of one kind of command grow by one or not at all.
LEMMA MaybeMore ==
    ASSUME CallsFit, Shaped', NEW c \in Client, \A d \in Client : d # c => Stands(d),
           call'[c].cmd = call[c].cmd, NEW more \in 0..1, call'[c].count = call[c].count + more,
           NEW op, Does(c, op)
    PROVE  Total(Doing(op))' = Total(Doing(op)) + more
  <1>1. call[c].count \in Nat
    BY Sizes DEF CallsFit, Typed
  <1>2. Total(Doing(op)) \in Nat
    BY TotalsAreNat DEF Doing
  <1>3. CASE more = 0
    <2>1. Total(Doing(op))' = Total(Doing(op))
      BY <1>1, <1>3, SameTotals
    <2> QED  BY <1>2, <1>3, <2>1
  <1>4. CASE more = 1
    BY <1>4, MoreTotal
  <1> QED  BY <1>3, <1>4

LEMMA InitSizes ==
    /\ IsFiniteSet(InitTickers) /\ Cardinality(InitTickers) \in Nat
    /\ IsFiniteSet(InitTags) /\ Cardinality(InitTags) \in Nat
    /\ IsFiniteSet(InitFeatures) /\ Cardinality(InitFeatures) \in Nat
  <1>1. InitTickers \in SUBSET Ticker /\ InitFeatures \in SUBSET FeatureKey
    BY CatalogAssumption
  <1>2. InitTags \in SUBSET (Ticker \X Tag)
    BY CatalogAssumption
  <1>3. IsFiniteSet(Ticker \X Tag)
    BY Sizes, FS_Product, CatalogAssumption
  <1>4. IsFiniteSet(InitTags)
    BY <1>2, <1>3, FS_Subset
  <1>5. IsFiniteSet(InitTickers) /\ IsFiniteSet(InitFeatures)
    BY <1>1, Sizes, FS_Subset
  <1> QED  BY <1>4, <1>5, FS_CardinalityType

LEMMA DoingIsNat ==
    ASSUME CallsFit
    PROVE  /\ \A op : Total(Doing(op)) \in Nat
           /\ Total(Deleted) \in Nat /\ IsFiniteSet(CountsIn(call, Deleted))
  <1>1. (\A op : Doing(op) \in SUBSET Client) /\ Deleted \in SUBSET Client
    BY DEF Doing, Deleted
  <1> QED  BY <1>1, TotalsAreNat

LEMMA AddTickerKeeps ==
    ASSUME CountInv, NEW c \in Client, AddTicker(c)
    PROVE  CountInv'
  <1>1. PICK t \in call[c].todo :
           /\ ticker' = ticker \cup {t}
           /\ Go(c, [todo |-> call[c].todo \ {t},
                     count |-> call[c].count + IF t \in ticker THEN 0 ELSE 1])
    BY DEF AddTicker
  <1>2. /\ call[c].pc = "importing" /\ ticker_tag' = ticker_tag /\ feature' = feature
        /\ daily_price' = daily_price /\ during' = during
    BY DEF AddTicker
  <1> PICK more : more = IF t \in ticker THEN 0 ELSE 1
    OBVIOUS
  <1>3. CallsFit /\ Balanced /\ Shaped /\ Typed(c) /\ Fits(c) /\ TablesTyped
    BY DEF CountInv, CallsFit
  <1>4. Becomes(c, "importing", call[c].cmd, call[c].todo \ {t}, call[c].found,
                call[c].count + more, call[c].answer)
    BY <1>1, <1>2, <1>3, Went DEF Fields, Becomes
  <1>5. more \in 0..1 /\ call[c].count \in Nat /\ call[c].todo \subseteq Ticker
    BY <1>2, <1>3, Sizes DEF Typed
  <1>6. /\ call[c].count + more \in 0..Bound /\ call[c].todo \ {t} \subseteq Ticker
        /\ (call[c].count + more) + Cardinality(call[c].todo \ {t}) <= Cardinality(Ticker)
    BY <1>2, <1>3, <1>5, OneLess DEF Fits
  <1>7. \A d \in Client : d # c => Stands(d) /\ call'[d].raced = call[d].raced
    BY <1>4 DEF Becomes, Stands
  <1>8. CallsFit'
    <2>1. Typed(c)'
      BY <1>2, <1>3, <1>4, <1>6 DEF Becomes, Typed, Ended, Bound
    <2>2. Fits(c)'
      BY <1>2, <1>3, <1>4, <1>6 DEF Becomes, Fits, Ended
    <2>3. TablesTyped'
      BY <1>1, <1>2, <1>3, <1>5 DEF TablesTyped
    <2>4. Shaped' /\ ticker \subseteq ticker'
      BY <1>1, <1>4 DEF Becomes
    <2> QED  BY <1>2, <1>3, <1>7, <2>1, <2>2, <2>3, <2>4, StepFits
  <1>9. Balanced'
    <2>1. Does(c, "import") /\ \A op : op # "import" => ~Does(c, op)
      BY <1>2, <1>3 DEF Fits, Does
    <2>2. /\ Shaped' /\ call'[c].cmd = call[c].cmd /\ call'[c].count = call[c].count + more
          /\ \A d \in Client : call'[d].raced = call[d].raced
      BY <1>4 DEF Becomes
    <2>3. Total(Doing("import"))' = Total(Doing("import")) + more
      BY <1>3, <1>5, <1>7, <2>1, <2>2, MaybeMore
    <2>4. /\ Total(Doing("label"))' = Total(Doing("label"))
          /\ Total(Doing("unlabel"))' = Total(Doing("unlabel"))
          /\ Total(Deleted)' = Total(Deleted) /\ Created' = Created
      BY <1>3, <1>7, <2>1, <2>2, SameTotals
    <2>5. Cardinality(ticker') = Cardinality(ticker) + more
      BY <1>1, <1>3, TablesFinite, OneRowMore
    <2>6. Total(Doing("import")) \in Nat /\ Cardinality(ticker) \in Nat
      BY <1>3, DoingIsNat, TablesFinite
    <2> QED  BY <1>2, <1>3, <1>5, <2>2, <2>3, <2>4, <2>5, <2>6, InitSizes DEF Balanced
  <1> QED  BY <1>8, <1>9 DEF CountInv

LEMMA AddTagKeeps ==
    ASSUME CountInv, NEW c \in Client, AddTag(c)
    PROVE  CountInv'
  <1>1. PICK t \in call[c].todo :
           /\ ticker_tag' = ticker_tag \cup {<<t, call[c].cmd.tag>>}
           /\ Go(c, [todo |-> call[c].todo \ {t},
                     count |-> call[c].count + IF <<t, call[c].cmd.tag>> \in ticker_tag THEN 0 ELSE 1])
    BY DEF AddTag
  <1>2. /\ call[c].pc = "labelling" /\ call[c].cmd.op = "label" /\ ticker' = ticker
        /\ feature' = feature /\ daily_price' = daily_price /\ Observe
    BY DEF AddTag
  <1> PICK row, more : row = <<t, call[c].cmd.tag>> /\ more = IF row \in ticker_tag THEN 0 ELSE 1
    OBVIOUS
  <1>3. CallsFit /\ Balanced /\ Shaped /\ Typed(c) /\ Fits(c) /\ TablesTyped
    BY DEF CountInv, CallsFit
  <1>4. Becomes(c, "labelling", call[c].cmd, call[c].todo \ {t}, call[c].found,
                call[c].count + more, call[c].answer)
    BY <1>1, <1>2, <1>3, Went DEF Fields, Becomes
  <1>5. more \in 0..1 /\ call[c].count \in Nat /\ call[c].todo \subseteq Ticker
    BY <1>2, <1>3, Sizes DEF Typed
  <1>6. /\ call[c].count + more \in 0..Bound /\ call[c].todo \ {t} \subseteq Ticker
        /\ (call[c].count + more) + Cardinality(call[c].todo \ {t}) <= Cardinality(Ticker)
    BY <1>2, <1>3, <1>5, OneLess DEF Fits
  <1>7. \A d \in Client : d # c => Stands(d) /\ call'[d].raced = call[d].raced
    BY <1>4 DEF Becomes, Stands
  <1>8. CallsFit'
    <2>1. Typed(c)'
      <3>1. during'[c].always \subseteq during'[c].ever
        <4>1. \/ during'[c] = during[c]
              \/ during'[c] = [ever |-> during[c].ever \cup ticker_tag',
                               always |-> during[c].always \cap ticker_tag']
          BY <1>2 DEF Observe
        <4> QED  BY <1>3, <4>1 DEF Typed
      <3> QED  BY <1>2, <1>3, <1>4, <1>6, <3>1 DEF Becomes, Typed, Ended, Bound
    <2>2. Fits(c)'
      BY <1>2, <1>3, <1>4, <1>6 DEF Becomes, Fits, Ended
    <2>3. TablesTyped'
      <3>1. call[c].cmd.tag \in Tag
        <4>1. call[c].cmd \in Command[c]
          BY <1>2, <1>3 DEF Fits
        <4>2. WellFormed(call[c].cmd)
          BY <4>1, CatalogAssumption
        <4> QED  BY <1>2, <4>2 DEF WellFormed
      <3>2. t \in ticker
        BY <1>2, <1>3 DEF Fits
      <3> QED  BY <1>1, <1>2, <1>3, <3>1, <3>2 DEF TablesTyped
    <2>4. Shaped' /\ ticker \subseteq ticker'
      BY <1>2, <1>4 DEF Becomes
    <2> QED  BY <1>2, <1>3, <1>7, <2>1, <2>2, <2>3, <2>4, StepFits
  <1>9. Balanced'
    <2>1. Does(c, "label") /\ \A op : op # "label" => ~Does(c, op)
      BY <1>2 DEF Does
    <2>2. /\ Shaped' /\ call'[c].cmd = call[c].cmd /\ call'[c].count = call[c].count + more
          /\ \A d \in Client : call'[d].raced = call[d].raced
      BY <1>4 DEF Becomes
    <2>3. Total(Doing("label"))' = Total(Doing("label")) + more
      BY <1>3, <1>5, <1>7, <2>1, <2>2, MaybeMore
    <2>4. /\ Total(Doing("import"))' = Total(Doing("import"))
          /\ Total(Doing("unlabel"))' = Total(Doing("unlabel"))
          /\ Total(Deleted)' = Total(Deleted) /\ Created' = Created
      BY <1>3, <1>7, <2>1, <2>2, SameTotals
    <2>5. /\ Cardinality(ticker_tag') = Cardinality(ticker_tag) + more
          /\ Cardinality(ticker_tag') \in Nat
      BY <1>1, <1>3, TablesFinite, OneRowMore
    <2>6. /\ Total(Doing("label")) \in Nat /\ Total(Doing("unlabel")) \in Nat
          /\ Cardinality(ticker_tag) \in Nat
      BY <1>3, DoingIsNat, TablesFinite
    <2> QED  BY <1>2, <1>3, <1>5, <2>2, <2>3, <2>4, <2>5, <2>6, InitSizes DEF Balanced
  <1> QED  BY <1>8, <1>9 DEF CountInv

LEMMA RemoveTagKeeps ==
    ASSUME CountInv, NEW c \in Client, RemoveTag(c)
    PROVE  CountInv'
  <1>1. PICK t \in call[c].todo :
           /\ ticker_tag' = ticker_tag \ {<<t, call[c].cmd.tag>>}
           /\ Go(c, [todo |-> call[c].todo \ {t},
                     count |-> call[c].count + IF <<t, call[c].cmd.tag>> \in ticker_tag THEN 1 ELSE 0])
    BY DEF RemoveTag
  <1>2. /\ call[c].pc = "labelling" /\ call[c].cmd.op = "unlabel" /\ ticker' = ticker
        /\ feature' = feature /\ daily_price' = daily_price /\ Observe
    BY DEF RemoveTag
  <1> PICK row, more : row = <<t, call[c].cmd.tag>> /\ more = IF row \in ticker_tag THEN 1 ELSE 0
    OBVIOUS
  <1>3. CallsFit /\ Balanced /\ Shaped /\ Typed(c) /\ Fits(c) /\ TablesTyped
    BY DEF CountInv, CallsFit
  <1>4. Becomes(c, "labelling", call[c].cmd, call[c].todo \ {t}, call[c].found,
                call[c].count + more, call[c].answer)
    BY <1>1, <1>2, <1>3, Went DEF Fields, Becomes
  <1>5. more \in 0..1 /\ call[c].count \in Nat /\ call[c].todo \subseteq Ticker
    BY <1>2, <1>3, Sizes DEF Typed
  <1>6. /\ call[c].count + more \in 0..Bound /\ call[c].todo \ {t} \subseteq Ticker
        /\ (call[c].count + more) + Cardinality(call[c].todo \ {t}) <= Cardinality(Ticker)
    BY <1>2, <1>3, <1>5, OneLess DEF Fits
  <1>7. \A d \in Client : d # c => Stands(d) /\ call'[d].raced = call[d].raced
    BY <1>4 DEF Becomes, Stands
  <1>8. CallsFit'
    <2>1. Typed(c)'
      <3>1. during'[c].always \subseteq during'[c].ever
        <4>1. \/ during'[c] = during[c]
              \/ during'[c] = [ever |-> during[c].ever \cup ticker_tag',
                               always |-> during[c].always \cap ticker_tag']
          BY <1>2 DEF Observe
        <4> QED  BY <1>3, <4>1 DEF Typed
      <3> QED  BY <1>2, <1>3, <1>4, <1>6, <3>1 DEF Becomes, Typed, Ended, Bound
    <2>2. Fits(c)'
      BY <1>2, <1>3, <1>4, <1>6 DEF Becomes, Fits, Ended
    <2>3. TablesTyped'
      <3>1. call[c].cmd.tag \in Tag
        <4>1. call[c].cmd \in Command[c]
          BY <1>2, <1>3 DEF Fits
        <4>2. WellFormed(call[c].cmd)
          BY <4>1, CatalogAssumption
        <4> QED  BY <1>2, <4>2 DEF WellFormed
      <3>2. t \in ticker
        BY <1>2, <1>3 DEF Fits
      <3> QED  BY <1>1, <1>2, <1>3, <3>1, <3>2 DEF TablesTyped
    <2>4. Shaped' /\ ticker \subseteq ticker'
      BY <1>2, <1>4 DEF Becomes
    <2> QED  BY <1>2, <1>3, <1>7, <2>1, <2>2, <2>3, <2>4, StepFits
  <1>9. Balanced'
    <2>1. Does(c, "unlabel") /\ \A op : op # "unlabel" => ~Does(c, op)
      BY <1>2 DEF Does
    <2>2. /\ Shaped' /\ call'[c].cmd = call[c].cmd /\ call'[c].count = call[c].count + more
          /\ \A d \in Client : call'[d].raced = call[d].raced
      BY <1>4 DEF Becomes
    <2>3. Total(Doing("unlabel"))' = Total(Doing("unlabel")) + more
      BY <1>3, <1>5, <1>7, <2>1, <2>2, MaybeMore
    <2>4. /\ Total(Doing("import"))' = Total(Doing("import"))
          /\ Total(Doing("label"))' = Total(Doing("label"))
          /\ Total(Deleted)' = Total(Deleted) /\ Created' = Created
      BY <1>3, <1>7, <2>1, <2>2, SameTotals
    <2>5. /\ Cardinality(ticker_tag) = Cardinality(ticker_tag') + more
          /\ Cardinality(ticker_tag') \in Nat
      BY <1>1, <1>3, TablesFinite, OneRowLess
    <2>6. /\ Total(Doing("label")) \in Nat /\ Total(Doing("unlabel")) \in Nat
          /\ Cardinality(ticker_tag) \in Nat
      BY <1>3, DoingIsNat, TablesFinite
    <2> QED  BY <1>2, <1>3, <1>5, <2>2, <2>3, <2>4, <2>5, <2>6, InitSizes DEF Balanced
  <1> QED  BY <1>8, <1>9 DEF CountInv

\* A change of the features ends the call of c and is noticed by the deletes of the others.
LEMMA FeatureChange ==
    ASSUME CallsFit, NEW c \in Client, NEW status, Touches(c, Answer(status)),
           ticker' = ticker, during' = during, call[c].pc \in {"adding", "deleting"}, TablesTyped'
    PROVE  /\ CallsFit' /\ Shaped'
           /\ \A d \in Client : d # c => Stands(d)
           /\ \A d \in Client : call[d].raced => call'[d].raced
           /\ call'[c].pc = "done" /\ call'[c].cmd = call[c].cmd /\ call'[c].count = call[c].count
           /\ call'[c].answer = [status |-> status] /\ call'[c].raced = call[c].raced
  <1>1. Shaped /\ Typed(c) /\ Fits(c)
    BY DEF CallsFit
  <1> PICK changes : changes = Answer(status)
    OBVIOUS
  <1>2. /\ DOMAIN changes = {"pc", "answer"}
        /\ changes["pc"] = "done" /\ changes["answer"] = [status |-> status]
    BY DEF Answer
  <1>3. /\ Shaped' /\ \A d \in Client : d # c => Stands(d)
        /\ \A d \in Client : d # c =>
              call'[d].raced = IF call[d].pc = "deleting" /\ feature' # feature THEN TRUE
                               ELSE call[d].raced
        /\ \A x \in Fields : call'[c][x] = IF x \in DOMAIN changes THEN changes[x] ELSE call[c][x]
    BY <1>1, Touched
  <1>4. /\ call'[c].pc = "done" /\ call'[c].cmd = call[c].cmd /\ call'[c].count = call[c].count
        /\ call'[c].answer = [status |-> status] /\ call'[c].raced = call[c].raced
        /\ call'[c].found = call[c].found
    BY <1>2, <1>3 DEF Fields
  <1>5. \A d \in Client : d # c =>
           /\ call[d].raced => call'[d].raced
           /\ call[d].pc = "deleting" /\ feature' # feature => call'[d].raced
    BY <1>3, Zenon
  <1>6. \A d \in Client : call[d].raced => call'[d].raced
    BY <1>4, <1>5, Zenon
  <1>7. Typed(c)'
    BY <1>1, <1>4 DEF Typed, Ended, Bound
  <1>8. Fits(c)'
    BY <1>1, <1>4 DEF Fits, Ended
  <1>9. CallsFit'
    BY <1>3, <1>5, <1>7, <1>8, StepFits
  <1> QED  BY <1>3, <1>4, <1>6, <1>9

LEMMA AddFeatureKeeps ==
    ASSUME CountInv, NEW c \in Client, AddFeature(c)
    PROVE  CountInv'
  <1> DEFINE t == CHOOSE t \in call[c].todo : TRUE
             cmd == call[c].cmd
             row == [symbol |-> cmd.symbol, exchange |-> t[2], feature |-> cmd.feature,
                     day |-> cmd.day]
             status == IF row \in feature THEN "invalid" ELSE "success"
  <1>1. /\ call[c].pc = "adding" /\ ticker' = ticker /\ ticker_tag' = ticker_tag
        /\ daily_price' = daily_price /\ during' = during
        /\ feature' = feature \cup {row} /\ Touches(c, Answer(status))
    BY DEF AddFeature, Touches
  <1>2. CallsFit /\ Balanced /\ Shaped /\ Typed(c) /\ Fits(c) /\ TablesTyped
    BY DEF CountInv, CallsFit
  <1>3. row \in FeatureKey
    <2>1. cmd.op = "create" /\ call[c].todo # {} /\ call[c].todo \subseteq Ticker /\ cmd \in Command[c]
      BY <1>1, <1>2 DEF Fits, Typed
    <2>2. t \in Ticker
      <3>1. t \in call[c].todo
        BY <2>1, Zenon
      <3> QED  BY <2>1, <3>1
    <2>3. t[2] \in Exchange
      <3> HIDE DEF t
      <3> QED  BY <2>2 DEF Ticker
    <2>4. WellFormed(cmd)
      BY <2>1, CatalogAssumption
    <2> HIDE DEF t
    <2> QED  BY <2>1, <2>3, <2>4 DEF WellFormed, FeatureKey
  <1> HIDE DEF row, t
  <1>4. TablesTyped'
    BY <1>1, <1>2, <1>3 DEF TablesTyped
  <1>5. /\ CallsFit' /\ Shaped'
        /\ \A d \in Client : d # c => Stands(d)
        /\ \A d \in Client : call[d].raced => call'[d].raced
        /\ call'[c].pc = "done" /\ call'[c].cmd = call[c].cmd /\ call'[c].count = call[c].count
        /\ call'[c].answer = [status |-> status] /\ call'[c].raced = call[c].raced
    <2> PICK s : s = status
      OBVIOUS
    <2>1. Touches(c, Answer(s))
      BY <1>1
    <2> HIDE DEF status
    <2> QED  BY <1>1, <1>2, <1>4, <2>1, FeatureChange
  <1>6. Does(c, "create") /\ \A op : op # "create" => ~Does(c, op)
    BY <1>1, <1>2 DEF Fits, Does
  <1>7. /\ Total(Doing("import"))' = Total(Doing("import"))
        /\ Total(Doing("label"))' = Total(Doing("label"))
        /\ Total(Doing("unlabel"))' = Total(Doing("unlabel"))
        /\ Total(Deleted)' = Total(Deleted)
    BY <1>2, <1>5, <1>6, SameTotals
  <1>8. call[c].answer.status = "none"
    BY <1>1, <1>2 DEF Fits, Ended
  <1>9. IsFiniteSet(Created) /\ Cardinality(Created) \in Nat
    <2>1. Created \in SUBSET Client
      BY DEF Created, Doing
    <2>2. IsFiniteSet(Created)
      BY <2>1, FS_Subset, CatalogAssumption
    <2> QED  BY <2>2, FS_CardinalityType
  <1>10. ASSUME \A d \in Client : ~call'[d].raced
         PROVE  Cardinality(feature') + Total(Deleted)' =
                   Cardinality(InitFeatures) + Cardinality(Created')
    <2>1. Cardinality(feature) + Total(Deleted) = Cardinality(InitFeatures) + Cardinality(Created)
      <3>1. \A d \in Client : ~call[d].raced
        BY <1>5, <1>10, Zenon
      <3> QED  BY <1>2, <3>1 DEF Balanced
    <2>2. CASE row \in feature
      <3>1. feature' = feature /\ call'[c].answer.status = "invalid"
        BY <1>1, <1>5, <2>2
      <3>2. Created' = Created
        BY <1>2, <1>5, <1>8, <3>1, SameTotals
      <3> QED  BY <1>7, <2>1, <3>1, <3>2
    <2>3. CASE row \notin feature
      <3>1. Cardinality(feature') = Cardinality(feature) + 1
        BY <1>1, <1>2, <2>3, TablesFinite, OneRowMore
      <3>2. call'[c].answer.status = "success"
        BY <1>5, <2>3
      <3>3. Created' = Created \cup {c} /\ c \notin Created
        <4>1. \A d \in Client : d # c => call'[d].cmd = call[d].cmd /\ call'[d].answer = call[d].answer
          BY <1>5 DEF Stands, Fields
        <4> QED  BY <1>5, <1>6, <1>8, <3>2, <4>1 DEF Created, Doing, Does
      <3>4. Cardinality(Created') = Cardinality(Created) + 1
        BY <1>9, <3>3, OneRowMore
      <3>5. Total(Deleted) \in Nat /\ Cardinality(feature) \in Nat
        BY <1>2, DoingIsNat, TablesFinite
      <3> HIDE DEF status
      <3> QED  BY <1>7, <1>9, <2>1, <3>1, <3>4, <3>5, InitSizes
    <2> QED  BY <2>2, <2>3
  <1>11. Balanced'
    BY <1>1, <1>2, <1>7, <1>10 DEF Balanced
  <1> QED  BY <1>5, <1>11 DEF CountInv

LEMMA DeleteFeaturesKeeps ==
    ASSUME CountInv, NEW c \in Client, DeleteFeatures(c)
    PROVE  CountInv'
  <1> DEFINE gone == Doomed(call[c].cmd)
  <1>1. /\ call[c].pc = "deleting" /\ ticker' = ticker /\ ticker_tag' = ticker_tag
        /\ daily_price' = daily_price /\ during' = during
        /\ feature' = feature \ gone /\ Touches(c, Answer("success"))
    BY DEF DeleteFeatures, Touches
  <1>2. CallsFit /\ Balanced /\ Shaped /\ Typed(c) /\ Fits(c) /\ TablesTyped
    BY DEF CountInv, CallsFit
  <1>3. /\ gone \in SUBSET feature /\ IsFiniteSet(gone) /\ Cardinality(gone) \in Nat
    BY <1>2, DoomedIsFinite
  <1>4. TablesTyped'
    BY <1>1, <1>2 DEF TablesTyped
  <1>5. /\ CallsFit' /\ Shaped'
        /\ \A d \in Client : d # c => Stands(d)
        /\ \A d \in Client : call[d].raced => call'[d].raced
        /\ call'[c].pc = "done" /\ call'[c].cmd = call[c].cmd /\ call'[c].count = call[c].count
        /\ call'[c].raced = call[c].raced
    <2> PICK s : s = "success"
      OBVIOUS
    <2>1. Touches(c, Answer(s))
      BY <1>1
    <2> QED  BY <1>1, <1>2, <1>4, <2>1, FeatureChange
  <1>6. Does(c, "delete") /\ \A op : op # "delete" => ~Does(c, op)
    BY <1>1, <1>2 DEF Fits, Does
  <1>7. /\ Total(Doing("import"))' = Total(Doing("import"))
        /\ Total(Doing("label"))' = Total(Doing("label"))
        /\ Total(Doing("unlabel"))' = Total(Doing("unlabel"))
        /\ Created' = Created
    BY <1>2, <1>5, <1>6, SameTotals
  <1>8. ASSUME \A d \in Client : ~call'[d].raced
        PROVE  Cardinality(feature') + Total(Deleted)' =
                  Cardinality(InitFeatures) + Cardinality(Created')
    <2>1. \A d \in Client : ~call[d].raced
      BY <1>5, <1>8, Zenon
    <2>2. Cardinality(feature) + Total(Deleted) = Cardinality(InitFeatures) + Cardinality(Created)
      BY <1>2, <2>1 DEF Balanced
    <2>3. call[c].count = Cardinality(gone)
      BY <1>1, <1>2, <2>1 DEF Fits
    <2>4. IsFiniteSet(feature) /\ Cardinality(feature) \in Nat
      BY <1>2, TablesFinite
    <2>5. Cardinality(feature') = Cardinality(feature) - Cardinality(gone)
      <3>1. feature \cap gone = gone
        BY <1>3
      <3>2. Cardinality(feature \ gone) = Cardinality(feature) - Cardinality(feature \cap gone)
        <4> HIDE DEF gone
        <4> QED  BY <2>4, FS_Difference
      <3> QED  BY <1>1, <3>1, <3>2
    <2>6. Deleted' = Deleted \cup {c} /\ c \notin Deleted
      <3>1. \A d \in Client : d # c => call'[d].cmd = call[d].cmd /\ call'[d].pc = call[d].pc
        BY <1>5 DEF Stands, Fields
      <3> QED  BY <1>1, <1>5, <1>6, <3>1 DEF Deleted, Doing, Does
    <2>7. Total(Deleted)' = Total(Deleted) + Cardinality(gone)
      <3> PICK A, B, f, g, n : /\ A = Deleted /\ B = Deleted \cup {c} /\ f = call /\ g = call'
                               /\ n = Cardinality(gone)
        OBVIOUS
      <3>1. \A d \in A : d # c => g[d].count = f[d].count
        BY <1>5 DEF Deleted, Doing, Stands, Fields
      <3>2. /\ B = A \cup {c} /\ IsFiniteSet(CountsIn(f, A)) /\ n \in Nat /\ g[c].count = n
            /\ c \notin A
        BY <1>2, <1>3, <1>5, <2>3, <2>6, DoingIsNat
      <3>3. 0 \in Nat /\ 0 <= n
        BY <3>2
      <3>4. Cardinality(CountsIn(g, B)) = Cardinality(CountsIn(f, A)) + (n - 0)
        BY <3>1, <3>2, <3>3, CountsMore
      <3>5. Total(Deleted)' = Cardinality(CountsIn(g, B)) /\ Total(Deleted) = Cardinality(CountsIn(f, A))
        BY <2>6 DEF Total, Counts, CountsIn
      <3>6. Total(Deleted) \in Nat
        BY <1>2, DoingIsNat
      <3> QED  BY <3>2, <3>4, <3>5, <3>6
    <2>8. Total(Deleted) \in Nat
      BY <1>2, DoingIsNat
    <2> HIDE DEF gone
    <2> QED  BY <1>3, <1>7, <2>2, <2>4, <2>5, <2>7, <2>8
  <1>9. Balanced'
    BY <1>1, <1>2, <1>7, <1>8 DEF Balanced
  <1> QED  BY <1>5, <1>9 DEF CountInv

LEMMA CountStep ==
    ASSUME CountInv, [Next]_vars
    PROVE  CountInv'
  <1>1. CASE UNCHANGED vars
    <2>1. /\ ticker' = ticker /\ ticker_tag' = ticker_tag /\ feature' = feature
          /\ daily_price' = daily_price /\ call' = call /\ during' = during
      BY <1>1 DEF vars, tables
    <2>2. CallsFit'
      BY <2>1 DEF CountInv, CallsFit, Shaped, TablesTyped, Typed, Fits, Doomed, Bound
    <2>3. Balanced'
      BY <2>1 DEF CountInv, Balanced, Total, Counts, Doing, Deleted, Created, Does
    <2> QED  BY <2>2, <2>3 DEF CountInv
  <1>2. ASSUME NEW c \in Client, Step(c) PROVE CountInv'
    <2>1. ASSUME NEW cmd \in Command[c],
                 \/ ImportGet(c, cmd) \/ LabelList(c, cmd) \/ CreateList(c, cmd)
                 \/ DeleteCount(c, cmd) \/ ReportStart(c, cmd)
          PROVE  CountInv'
      BY <2>1, ImportGetKeeps, LabelListKeeps, CreateListKeeps, DeleteCountKeeps, ReportStartKeeps
    <2>2. CASE AddTicker(c) \/ AddTag(c) \/ RemoveTag(c) \/ Counted(c)
      BY <2>2, AddTickerKeeps, AddTagKeeps, RemoveTagKeeps, CountedKeeps
    <2>3. CASE AddFeature(c) \/ DeleteFeatures(c)
      BY <2>3, AddFeatureKeeps, DeleteFeaturesKeeps
    <2>4. CASE ReadUniverse(c) \/ Report(c) \/ Kill(c)
      BY <2>4, ReadUniverseKeeps, ReportKeeps, KillKeeps
    <2> QED  BY <1>2, <2>1, <2>2, <2>3, <2>4 DEF Step
  <1> QED  BY <1>1, <1>2 DEF Next

LEMMA CountInit == Init => CountInv
  <1> SUFFICES ASSUME Init PROVE CountInv
    OBVIOUS
  <1>1. /\ ticker = InitTickers /\ ticker_tag = InitTags /\ feature = InitFeatures
        /\ daily_price \in History /\ call = [c \in Client |-> Idle]
        /\ during = [c \in Client |-> [ever |-> {}, always |-> {}]]
    BY DEF Init
  <1>2. Shaped
    BY <1>1 DEF Shaped, Idle, Fields
  <1>3. TablesTyped
    BY <1>1, CatalogAssumption DEF TablesTyped
  <1>4. ASSUME NEW c \in Client
        PROVE  /\ call[c].pc = "idle" /\ call[c].cmd.op = "none" /\ call[c].count = 0
               /\ call[c].found = {} /\ call[c].answer.status = "none"
               /\ during[c].always = {}
    BY <1>1 DEF Idle
  <1>5. \A c \in Client : Typed(c)
    BY <1>4, Sizes DEF Typed, Ended
  <1>6. \A c \in Client : Fits(c)
    BY <1>4 DEF Fits, Ended
  <1>7. \A op : op \in {"import", "label", "unlabel", "create", "delete"} => Doing(op) = {}
    BY <1>4 DEF Doing, Does
  <1>8. Total({}) = 0
    BY FS_EmptySet DEF Total, Counts
  <1>9. Deleted = {} /\ Created = {}
    BY <1>7 DEF Deleted, Created
  <1>10. Balanced
    <2>1. /\ Total(Doing("import")) = 0 /\ Total(Doing("label")) = 0 /\ Total(Doing("unlabel")) = 0
          /\ Total(Deleted) = 0 /\ Cardinality(Created) = 0
      BY <1>7, <1>8, <1>9, FS_EmptySet
    <2> QED  BY <1>1, <2>1, InitSizes DEF Balanced
  <1> QED  BY <1>1, <1>2, <1>3, <1>5, <1>6, <1>10 DEF CountInv, CallsFit

\* What import, label, unlabel, create and delete report adds up to what the tables gained and
\* lost, for any number of clients that interleave and are killed between their statements
\* (apply_symbol_tags, ImportSymbols, delete_features).
THEOREM BalancedCounts == Spec => []CountsAddUp
  <1>1. CountInv => CountsAddUp
    BY CountInvMeans
  <1> QED  BY <1>1, CountInit, CountStep, PTL DEF Spec

-----------------------------------------------------------------------------
(* Least numbers, and sets of numbers in ascending order. *)

LEMMA LeastNat ==
    ASSUME NEW T, T \subseteq Nat, T # {}
    PROVE  \E n \in T : \A m \in T : n <= m
<1>1. IsWellFoundedOn(OpToRel(<, Nat), Nat)
  BY NatLessThanWellFounded
<1>2. PICK n \in T : \A m \in T : ~(<<m, n>> \in OpToRel(<, Nat))
  BY <1>1, WFMin
<1>3. ASSUME NEW m \in T PROVE n <= m
  <2>1. m \in Nat /\ n \in Nat
    OBVIOUS
  <2>2. ~(m < n)
    BY <1>2, <2>1 DEF OpToRel
  <2> QED  BY <2>1, <2>2
<1> QED  BY <1>3

\* How many members of a set are below a number.
Rank(S, x) == Cardinality({y \in S : y < x})

LEMMA RankBounds ==
    ASSUME NEW S, S \subseteq Nat, IsFiniteSet(S), NEW x \in S
    PROVE  /\ Rank(S, x) \in 0..(Cardinality(S) - 1)
           /\ \A y \in S : x < y => Rank(S, x) < Rank(S, y)
<1>1. /\ IsFiniteSet(S \ {x}) /\ Cardinality(S \ {x}) = Cardinality(S) - 1
      /\ Cardinality(S) \in Nat
  BY FS_RemoveElement, FS_CardinalityType
<1>2. {y \in S : y < x} \in SUBSET (S \ {x})
  OBVIOUS
<1>3. /\ IsFiniteSet({y \in S : y < x})
      /\ Cardinality({y \in S : y < x}) <= Cardinality(S \ {x})
  BY <1>1, <1>2, FS_Subset
<1>4. Rank(S, x) \in Nat
  BY <1>3, FS_CardinalityType DEF Rank
<1>5. ASSUME NEW y \in S, x < y
      PROVE  Rank(S, x) < Rank(S, y)
  <2>1. {z \in S : z < x} \cup {x} \in SUBSET {z \in S : z < y}
    <3>1. x \in Nat /\ y \in Nat /\ \A z \in S : z \in Nat
      OBVIOUS
    <3>2. ASSUME NEW z \in {z \in S : z < x} \cup {x} PROVE z \in S /\ z < y
      BY <1>5, <3>1
    <3> QED  BY <3>2
  <2>2. IsFiniteSet({z \in S : z < y})
    BY FS_Subset, {z \in S : z < y} \in SUBSET S
  <2>3. Cardinality({z \in S : z < x} \cup {x}) <= Cardinality({z \in S : z < y})
    BY <2>1, <2>2, FS_Subset
  <2>4. Cardinality({z \in S : z < x} \cup {x}) = Cardinality({z \in S : z < x}) + 1
    BY <1>3, FS_AddElement
  <2>5. Cardinality({z \in S : z < y}) \in Nat
    BY <2>2, FS_CardinalityType
  <2> QED  BY <1>4, <2>3, <2>4, <2>5 DEF Rank
<1> QED  BY <1>1, <1>3, <1>4, <1>5 DEF Rank

\* A sequence that lists a set of numbers in ascending order.
Lists(q, S) ==
    /\ q \in Seq(S) /\ DOMAIN q = 1..Cardinality(S) /\ Len(q) = Cardinality(S)
    /\ \A x \in S : \E i \in DOMAIN q : q[i] = x
    /\ \A i, j \in DOMAIN q : i < j => q[i] < q[j]

LEMMA AscendingLists ==
    ASSUME NEW S, S \subseteq Nat, IsFiniteSet(S)
    PROVE  Lists(Ascending(S), S)
<1> DEFINE n == Cardinality(S)
           rank == [x \in S |-> Rank(S, x)]
           q == Ascending(S)
<1>0. q = [j \in 1..n |-> CHOOSE z \in S : Cardinality({y \in S : y < z}) = j - 1]
  BY Zenon DEF Ascending
<1>1. n \in Nat
  BY FS_CardinalityType
<1>2. ASSUME NEW x \in S, NEW y \in S, Rank(S, x) = Rank(S, y)
      PROVE  x = y
  <2>1. x \in Nat /\ y \in Nat
    OBVIOUS
  <2>2. ~(x < y) /\ ~(y < x)
    <3>1. Rank(S, x) \in 0..(n - 1) /\ Rank(S, y) \in 0..(n - 1)
      BY RankBounds
    <3>2. (x < y => Rank(S, x) < Rank(S, y)) /\ (y < x => Rank(S, y) < Rank(S, x))
      BY RankBounds
    <3> HIDE DEF n
    <3> QED  BY <1>1, <1>2, <3>1, <3>2
  <2> QED  BY <2>1, <2>2
<1>3. rank \in Injection(S, 0..(n - 1))
  <2>1. rank \in [S -> 0..(n - 1)]
    BY RankBounds
  <2>2. \A x, y \in S : rank[x] = rank[y] => x = y
    BY <1>2
  <2> QED  BY <2>1, <2>2 DEF Injection, IsInjective
<1>4. rank \in Surjection(S, 0..(n - 1))
  <2>1. IsFiniteSet(0..(n - 1)) /\ Cardinality(0..(n - 1)) = n
    <3>1. 0 \in Int /\ n - 1 \in Int
      BY <1>1
    <3>2. IsFiniteSet(0..(n - 1)) /\ Cardinality(0..(n - 1)) = IF 0 > n - 1 THEN 0 ELSE n - 1 - 0 + 1
      BY <3>1, FS_Interval
    <3> HIDE DEF n
    <3> QED  BY <1>1, <3>2
  <2> QED  BY <1>3, <2>1, FS_Injection
<1>5. ASSUME NEW i \in 1..n
      PROVE  q[i] \in S /\ Rank(S, q[i]) = i - 1
  <2>1. i - 1 \in 0..(n - 1)
    BY <1>1
  <2>2. PICK x \in S : rank[x] = i - 1
    BY <1>4, <2>1 DEF Surjection
  <2>3. Cardinality({y \in S : y < x}) = i - 1
    BY <2>2 DEF Rank
  <2>4. q[i] = CHOOSE z \in S : Cardinality({y \in S : y < z}) = i - 1
    <3> HIDE DEF q, n
    <3> QED  BY <1>0, Zenon
  <2>5. q[i] \in S /\ Cardinality({y \in S : y < q[i]}) = i - 1
    BY <2>3, <2>4, Zenon
  <2> QED  BY <2>5 DEF Rank
<1>6. /\ DOMAIN q = 1..n
      /\ q = [i \in 1..n |-> q[i]]
  <2> HIDE DEF q, n
  <2>1. DOMAIN q = 1..n
    BY <1>0, Zenon
  <2>2. q = [i \in DOMAIN q |-> q[i]]
    BY <1>0
  <2> QED  BY <2>1, <2>2
<1> HIDE DEF q
<1>7. q \in Seq(S) /\ Len(q) = n
  BY <1>1, <1>5, <1>6
<1>8. ASSUME NEW x \in S
      PROVE  \E i \in 1..n : q[i] = x
  <2>1. Rank(S, x) \in 0..(n - 1)
    BY RankBounds
  <2>2. PICK i \in 1..n : i - 1 = Rank(S, x)
    <3> HIDE DEF n
    <3>1. Rank(S, x) + 1 \in 1..n
      BY <1>1, <2>1
    <3> QED  BY <2>1, <3>1
  <2>3. q[i] \in S /\ Rank(S, q[i]) = Rank(S, x)
    BY <1>5, <2>2
  <2> QED  BY <1>2, <2>3
<1>9. ASSUME NEW i \in 1..n, NEW j \in 1..n, i < j
      PROVE  q[i] < q[j]
  <2>1. /\ q[i] \in S /\ Rank(S, q[i]) = i - 1
        /\ q[j] \in S /\ Rank(S, q[j]) = j - 1
    BY <1>5
  <2>2. q[j] < q[i] => Rank(S, q[j]) < Rank(S, q[i])
    BY <2>1, RankBounds
  <2>3. ~(q[j] < q[i]) /\ q[i] # q[j]
    BY <1>1, <1>9, <2>1, <2>2
  <2>4. q[i] \in Nat /\ q[j] \in Nat
    BY <2>1
  <2> QED  BY <2>3, <2>4
<1>10. Lists(q, S)
  BY <1>6, <1>7, <1>8, <1>9 DEF Lists
<1> QED  BY <1>10 DEF q

LEMMA ListRange ==
    ASSUME NEW S, NEW q, Lists(q, S)
    PROVE  ToSet(q) = S /\ \A i \in DOMAIN q : q[i] \in S
<1>1. \A i \in DOMAIN q : q[i] \in S
  BY DEF Lists
<1> QED  BY <1>1 DEF Lists, ToSet

\* A sequence takes the elements of another at a set of positions, in their order.
Picks(sub, x, at) ==
    /\ DOMAIN sub = 1..Cardinality(at) /\ Cardinality(at) \in Nat
    /\ sub = [k \in 1..Cardinality(at) |-> sub[k]]
    /\ \A k \in DOMAIN sub : Ascending(at)[k] \in at /\ sub[k] = x[Ascending(at)[k]]
    /\ \A k, j \in DOMAIN sub : k < j => Ascending(at)[k] < Ascending(at)[j]

LEMMA SubPicks ==
    ASSUME NEW x, NEW at, at \subseteq Nat, IsFiniteSet(at)
    PROVE  Picks(Sub(x, at), x, at)
<1>1. Lists(Ascending(at), at)
  BY AscendingLists
<1>2. Sub(x, at) = [k \in DOMAIN Ascending(at) |-> x[Ascending(at)[k]]]
  BY DEF Sub
<1>3. \A k \in DOMAIN Ascending(at) : Ascending(at)[k] \in at
  BY <1>1 DEF Lists
<1>4. Cardinality(at) \in Nat
  BY FS_CardinalityType
<1> DEFINE sub == Sub(x, at)
<1> HIDE DEF sub
<1>5. sub = [k \in DOMAIN Ascending(at) |-> x[Ascending(at)[k]]]
  BY <1>2 DEF sub
<1>6. DOMAIN sub = 1..Cardinality(at) /\ sub = [k \in DOMAIN sub |-> sub[k]]
  BY <1>1, <1>5 DEF Lists
<1>7. Picks(sub, x, at)
  BY <1>1, <1>3, <1>4, <1>5, <1>6 DEF Lists, Picks
<1> QED  BY <1>7 DEF sub

\* A set of days has a last one.
LEMMA LastIsLast ==
    ASSUME NEW S, S \subseteq Nat, IsFiniteSet(S), S # {}
    PROVE  Max(S) \in S /\ \A x \in S : x <= Max(S)
<1> DEFINE n == Cardinality(S)
           q == Ascending(S)
<1>1. Lists(q, S) /\ n \in Nat /\ n # 0
  BY AscendingLists, FS_CardinalityType, FS_EmptySet
<1> HIDE DEF q, n
<1>2. DOMAIN q = 1..n /\ \A i \in 1..n : q[i] \in S /\ q[i] \in Nat
  <2>1. DOMAIN q = 1..n
    BY <1>1 DEF Lists, n
  <2> QED  BY <1>1, <2>1, ListRange
<1>3. ASSUME NEW x \in S PROVE x <= q[n]
  <2>1. PICK i \in 1..n : q[i] = x
    BY <1>1, <1>2 DEF Lists
  <2>2. CASE i = n
    BY <1>2, <2>1, <2>2
  <2>3. CASE i < n
    <3>1. n \in 1..n
      BY <1>1
    <3>2. q[i] < q[n]
      <4>1. \A a, b \in 1..n : a < b => q[a] < q[b]
        BY <1>1, <1>2 DEF Lists
      <4> QED  BY <2>3, <3>1, <4>1
    <3> QED  BY <1>2, <2>1, <3>1, <3>2
  <2> QED  BY <1>1, <2>1, <2>2, <2>3
<1>4. q[n] \in S /\ \A x \in S : q[n] >= x
  <2>1. n \in 1..n
    BY <1>1
  <2>2. \A x \in S : x \in Nat
    OBVIOUS
  <2> QED  BY <1>2, <1>3, <2>1, <2>2
<1>5. Max(S) \in S /\ \A x \in S : Max(S) >= x
  BY <1>4, Zenon DEF Max
<1>6. \A x \in S : x \in Nat
  OBVIOUS
<1> QED  BY <1>5, <1>6

-----------------------------------------------------------------------------
(* Sums of windows. *)

\* The sums over sets of positions, from the last position back.
Sums(x, F, sum) == sum = [s \in F |-> IF s = {} THEN 0 ELSE sum[s \ {Max(s)}] + x[Max(s)]]

\* The subsets of at most n elements.
Small(D, n) == {s \in SUBSET D : Cardinality(s) <= n}

LEMMA MaxIsIn ==
    ASSUME NEW S, S \subseteq Nat, IsFiniteSet(S), S # {}
    PROVE  Max(S) \in S
BY LastIsLast

\* Taking one element out makes a finite set smaller.
LEMMA Smaller ==
    ASSUME NEW D, D \subseteq Nat, IsFiniteSet(D), NEW s \in SUBSET D, s # {}
    PROVE  /\ Max(s) \in s /\ s \ {Max(s)} \in SUBSET D
           /\ Cardinality(s) \in Nat /\ Cardinality(s) # 0
           /\ Cardinality(s \ {Max(s)}) = Cardinality(s) - 1
<1>1. IsFiniteSet(s)
  BY FS_Subset
<1>2. Max(s) \in s
  BY <1>1, MaxIsIn
<1>3. Cardinality(s) \in Nat /\ Cardinality(s) # 0
  BY <1>1, FS_CardinalityType, FS_EmptySet
<1> QED  BY <1>1, <1>2, <1>3, FS_RemoveElement

\* The recursive function that sums exists: so it does for the smallest sets without one.
LEMMA SumsExist ==
    ASSUME NEW D, D \subseteq Nat, IsFiniteSet(D), NEW x, NEW n \in Nat
    PROVE  \E sum : Sums(x, Small(D, n), sum)
<1> DEFINE T == {m \in Nat : ~ \E sum : Sums(x, Small(D, m), sum)}
<1> SUFFICES ASSUME n \in T PROVE FALSE
  OBVIOUS
<1>1. PICK m \in T : \A j \in T : m <= j
  <2>1. T \subseteq Nat /\ T # {}
    OBVIOUS
  <2> HIDE DEF T
  <2> QED  BY <2>1, LeastNat
<1>2. m \in Nat
  OBVIOUS
<1> DEFINE rest(s) == s \ {Max(s)}
<1>3. \A s \in SUBSET D : s # {} => /\ rest(s) \in SUBSET D /\ Cardinality(s) \in Nat
                                    /\ Cardinality(s) # 0 /\ Cardinality(rest(s)) = Cardinality(s) - 1
  BY Smaller
<1>4. CASE m = 0
  <2> DEFINE g == [s \in Small(D, 0) |-> 0]
  <2>1. ASSUME NEW s \in Small(D, 0) PROVE s = {}
    <3>1. s \in SUBSET D /\ Cardinality(s) <= 0
      BY DEF Small
    <3>2. s # {} => Cardinality(s) \in Nat /\ Cardinality(s) # 0
      BY <1>3, <3>1, Zenon
    <3> QED  BY <3>1, <3>2
  <2>2. \A s \in Small(D, 0) : g[s] = IF s = {} THEN 0 ELSE g[rest(s)] + x[Max(s)]
    BY <2>1
  <2>3. g = [s \in Small(D, 0) |-> g[s]]
    OBVIOUS
  <2> HIDE DEF g
  <2>4. Sums(x, Small(D, 0), g)
    BY <2>2, <2>3, Zenon DEF Sums
  <2> QED  BY <1>4, <2>4
<1>5. CASE m # 0
  <2>1. m - 1 \in Nat /\ ~(m <= m - 1)
    BY <1>2, <1>5
  <2>2. m - 1 \notin T
    <3> HIDE DEF T
    <3> QED  BY <1>1, <2>1
  <2>3. PICK sum : Sums(x, Small(D, m - 1), sum)
    BY <2>1, <2>2
  <2> DEFINE g == [s \in Small(D, m) |-> IF s = {} THEN 0 ELSE sum[rest(s)] + x[Max(s)]]
  <2>4. Small(D, m - 1) \subseteq Small(D, m)
    <3> SUFFICES ASSUME NEW s \in Small(D, m - 1) PROVE s \in Small(D, m)
      OBVIOUS
    <3>1. s \in SUBSET D /\ Cardinality(s) <= m - 1
      BY DEF Small
    <3>2. Cardinality(s) \in Nat
      <4>1. CASE s = {}
        BY <4>1, FS_EmptySet
      <4>2. CASE s # {}
        BY <1>3, <3>1, <4>2, Zenon
      <4> QED  BY <4>1, <4>2
    <3>3. Cardinality(s) <= m
      BY <1>2, <3>1, <3>2
    <3> QED  BY <3>1, <3>3 DEF Small
  <2>5. sum = [s \in Small(D, m - 1) |-> IF s = {} THEN 0 ELSE sum[rest(s)] + x[Max(s)]]
    BY <2>3, Zenon DEF Sums
  <2>6. \A s \in Small(D, m - 1) : g[s] = sum[s]
    BY <2>4, <2>5, Zenon
  <2>7. ASSUME NEW s \in Small(D, m), s # {}
        PROVE  rest(s) \in Small(D, m - 1)
    <3>1. s \in SUBSET D /\ Cardinality(s) <= m
      BY DEF Small
    <3> HIDE DEF rest
    <3>2. Cardinality(rest(s)) <= m - 1 /\ rest(s) \in SUBSET D
      BY <1>2, <1>3, <2>7, <3>1
    <3> QED  BY <3>2 DEF Small
  <2>8. \A s \in Small(D, m) : g[s] = IF s = {} THEN 0 ELSE g[rest(s)] + x[Max(s)]
    BY <2>6, <2>7, Zenon
  <2>9. g = [s \in Small(D, m) |-> g[s]]
    OBVIOUS
  <2> HIDE DEF g
  <2>10. Sums(x, Small(D, m), g)
    BY <2>8, <2>9, Zenon DEF Sums
  <2> QED  BY <2>10
<1> QED  BY <1>4, <1>5

\* The sum of a window, as strategies take means of it.
LEMMA WindowSum ==
    ASSUME NEW n \in Nat, NEW x \in [1..n -> Nat]
    PROVE  Sum(x) \in Nat
<1> DEFINE D == DOMAIN x
           it == CHOOSE sum : sum = [s \in SUBSET D |-> IF s = {} THEN 0 ELSE sum[s \ {Max(s)}] + x[Max(s)]]
<1>1. D = 1..n /\ IsFiniteSet(D) /\ D \subseteq Nat /\ \A y \in D : x[y] \in Nat
  <2>1. D = 1..n
    OBVIOUS
  <2>2. IsFiniteSet(1..n)
    BY FS_Interval
  <2> QED  BY <2>1, <2>2
<1>2. Sum(x) = it[D]
  BY Zenon DEF Sum, FoldLeft, MapThenFoldSet
<1> HIDE DEF D, it
<1>3. PICK sum : Sums(x, SUBSET D, sum)
  <2>1. Small(D, Cardinality(D)) = SUBSET D
    BY <1>1, FS_Subset, FS_CardinalityType DEF Small
  <2>2. Cardinality(D) \in Nat
    BY <1>1, FS_CardinalityType
  <2>3. \E sum : Sums(x, Small(D, Cardinality(D)), sum)
    BY <1>1, <2>2, SumsExist
  <2> QED  BY <2>1, <2>3
<1>4. it = [s \in SUBSET D |-> IF s = {} THEN 0 ELSE it[s \ {Max(s)}] + x[Max(s)]]
  BY <1>3, Zenon DEF it, Sums
<1>5. \A s \in SUBSET D : it[s] = IF s = {} THEN 0 ELSE it[s \ {Max(s)}] + x[Max(s)]
  BY <1>4, Zenon
<1> DEFINE T == {k \in Nat : \E s \in SUBSET D : Cardinality(s) = k /\ it[s] \notin Nat}
<1>6. ASSUME T # {} PROVE FALSE
  <2>1. PICK k \in T : \A j \in T : k <= j
    <3>1. T \subseteq Nat
      OBVIOUS
    <3> HIDE DEF T
    <3> QED  BY <1>6, <3>1, LeastNat
  <2>2. PICK s \in SUBSET D : Cardinality(s) = k /\ it[s] \notin Nat
    OBVIOUS
  <2>3. s # {}
    <3>1. it[{}] = 0
      BY <1>5, Zenon
    <3>2. s = {} => it[s] = 0
      BY <3>1, Zenon
    <3> HIDE DEF T
    <3> QED  BY <2>2, <3>2
  <2> PICK y : y = Max(s)
    OBVIOUS
  <2> PICK u : u = s \ {y}
    OBVIOUS
  <2>4. y \in D /\ u \in SUBSET D /\ k \in Nat /\ Cardinality(u) = k - 1 /\ k # 0
    <3>1. /\ Max(s) \in s /\ s \ {Max(s)} \in SUBSET D
          /\ Cardinality(s) \in Nat /\ Cardinality(s) # 0
          /\ Cardinality(s \ {Max(s)}) = Cardinality(s) - 1
      BY <1>1, <2>2, <2>3, Smaller
    <3>2. y \in D /\ u \in SUBSET D /\ Cardinality(u) = Cardinality(s) - 1
      BY <2>2, <3>1
    <3>3. k \in Nat /\ k # 0
      BY <2>2, <3>1
    <3> QED  BY <2>2, <3>2, <3>3
  <2>5. k - 1 \in Nat /\ ~(k <= k - 1)
    BY <2>4
  <2>6. k - 1 \notin T
    <3> HIDE DEF T
    <3> QED  BY <2>1, <2>5
  <2>7. it[u] \in Nat
    BY <2>4, <2>5, <2>6
  <2>8. it[s] = it[u] + x[y]
    BY <1>5, <2>3
  <2> QED  BY <1>1, <2>2, <2>4, <2>7, <2>8
<1>7. \A s \in SUBSET D : Cardinality(s) \in Nat
  BY <1>1, FS_Subset, FS_CardinalityType
<1>8. D \in SUBSET D
  OBVIOUS
<1> QED  BY <1>2, <1>6, <1>7, <1>8

\* Closes: numbers, some of them unknown.
Price == Nat \cup {NaN}

\* What a strategy computes from a window is a number when the window has no gap.
LEMMA WindowPrices ==
    ASSUME NEW m \in Nat, NEW x \in [1..m -> Price], NEW i \in 1..m, NEW n \in Nat \ {0}, Full(x, i, n)
    PROVE  Window(x, i, n) \in [1..n -> Nat] /\ Sum(Window(x, i, n)) \in Nat
<1> DEFINE w == Window(x, i, n)
<1>0. n \in Nat /\ i \in Nat /\ i <= m /\ n # 0
  OBVIOUS
<1>1. i >= n /\ \A v \in ToSet(w) : Known(v)
  BY DEF Full
<1>2. w = [k \in 1..(1 + i - (i - n + 1)) |-> x[k + (i - n + 1) - 1]]
  BY DEF Window, SubSeq
<1>3. 1 + i - (i - n + 1) = n
  BY <1>0
<1>4. \A k \in 1..n : k + (i - n + 1) - 1 \in 1..m
  BY <1>0, <1>1
<1> HIDE DEF w
<1>5. DOMAIN w = 1..n /\ \A k \in 1..n : w[k] \in Price
  BY <1>2, <1>3, <1>4
<1>6. \A k \in 1..n : w[k] \in ToSet(w)
  BY <1>5 DEF ToSet
<1>7. \A k \in 1..n : w[k] \in Nat
  BY <1>1, <1>5, <1>6 DEF Known, Price
<1>8. w \in [1..n -> Nat]
  BY <1>2, <1>3, <1>7
<1> QED  BY <1>0, <1>8, WindowSum DEF w

LEMMA MeanIsANumber ==
    ASSUME NEW m \in Nat, NEW x \in [1..m -> Price], NEW i \in 1..m, NEW n \in Nat \ {0}
    PROVE  Mean(x, i, n) \in Int
<1>1. CASE Full(x, i, n)
  <2> PICK t : t = Sum(Window(x, i, n))
    OBVIOUS
  <2>1. t \in Nat
    BY <1>1, WindowPrices
  <2>2. t \div n \in Int
    BY <2>1
  <2> QED  BY <1>1, <2>2 DEF Mean
<1>2. CASE ~Full(x, i, n)
  BY <1>2 DEF Mean, NaN
<1> QED  BY <1>1, <1>2

\* An average is a price, also where there is no row.
LEMMA MeanIsAPrice ==
    ASSUME NEW m \in Nat, NEW x \in [1..m -> Price], NEW i \in Int, i <= m, NEW n \in Nat \ {0}
    PROVE  Mean(x, i, n) \in Price
<1>1. CASE Full(x, i, n)
  <2>1. i \in 1..m
    BY <1>1 DEF Full
  <2> PICK t : t = Sum(Window(x, i, n))
    OBVIOUS
  <2>2. t \in Nat
    BY <1>1, <2>1, WindowPrices
  <2>3. t \div n \in Nat
    BY <2>2
  <2> QED  BY <1>1, <2>3 DEF Mean, Price
<1>2. CASE ~Full(x, i, n)
  BY <1>2 DEF Mean, Price
<1> QED  BY <1>1, <1>2

\* The lowest and the highest of a window are numbers.
LEMMA ExtremesAreNumbers ==
    ASSUME NEW m \in Nat, NEW x \in [1..m -> Price], NEW i \in 1..m, NEW n \in Nat \ {0}
    PROVE  Lowest(x, i, n) \in Int /\ Highest(x, i, n) \in Int
<1> DEFINE w == Window(x, i, n)
           S == ToSet(w)
<1>1. CASE Full(x, i, n)
  <2>1. w \in [1..n -> Nat]
    BY <1>1, WindowPrices
  <2> HIDE DEF w
  <2>2. S \subseteq Nat /\ S # {}
    <3>1. S = {w[k] : k \in 1..n} /\ 1 \in 1..n
      BY <2>1 DEF ToSet
    <3> QED  BY <2>1, <3>1
  <2>3. IsFiniteSet(S)
    <3>1. IsFiniteSet(1..n)
      BY FS_Interval
    <3>2. w \in Surjection(1..n, S)
      BY <2>1 DEF ToSet, Surjection
    <3> QED  BY <3>1, <3>2, FS_Surjection
  <2> HIDE DEF S
  <2>4. Max(S) \in Nat
    BY <2>2, <2>3, LastIsLast
  <2>5. Min(S) \in Nat
    <3>1. PICK a \in S : \A b \in S : a <= b
      BY <2>2, LeastNat
    <3>2. Min(S) \in S
      BY <3>1, Zenon DEF Min
    <3> QED  BY <2>2, <3>2
  <2> QED  BY <1>1, <2>4, <2>5 DEF Lowest, Highest, S, w
<1>2. CASE ~Full(x, i, n)
  BY <1>2 DEF Lowest, Highest, NaN
<1> QED  BY <1>1, <1>2

-----------------------------------------------------------------------------
(* screen: the bars of a symbol up to a day. *)

LEMMA MaxOfThree ==
    ASSUME NEW a \in Int, NEW b \in Int, NEW c \in Int
    PROVE  /\ Max({a, b, c}) \in Int
           /\ a <= Max({a, b, c}) /\ b <= Max({a, b, c}) /\ c <= Max({a, b, c})
<1> DEFINE S == {a, b, c}
<1>1. \E m \in S : \A y \in S : m >= y
  <2>1. CASE a >= b /\ a >= c
    BY <2>1
  <2>2. CASE b >= a /\ b >= c
    BY <2>2
  <2>3. CASE c >= a /\ c >= b
    BY <2>3
  <2> QED  BY <2>1, <2>2, <2>3
<1>2. Max(S) \in S /\ \A y \in S : Max(S) >= y
  BY <1>1, Zenon DEF Max
<1> QED  BY <1>2

LEMMA MaxOfTwo ==
    ASSUME NEW a \in Int, NEW b \in Int
    PROVE  Max({a, b}) = IF a >= b THEN a ELSE b
<1> DEFINE S == {a, b}
<1>1. \E m \in S : \A y \in S : m >= y
  <2>1. CASE a >= b
    BY <2>1
  <2>2. CASE b >= a
    BY <2>2
  <2> QED  BY <2>1, <2>2
<1>2. Max(S) \in S /\ \A y \in S : Max(S) >= y
  BY <1>1, Zenon DEF Max
<1> QED  BY <1>2

LEMMA MinOfTwo ==
    ASSUME NEW a \in Int, NEW b \in Int
    PROVE  Min({a, b}) = IF a <= b THEN a ELSE b
<1> DEFINE S == {a, b}
<1>1. \E m \in S : \A y \in S : m <= y
  <2>1. CASE a <= b
    BY <2>1
  <2>2. CASE b <= a
    BY <2>2
  <2> QED  BY <2>1, <2>2
<1>2. Min(S) \in S /\ \A y \in S : Min(S) <= y
  BY <1>1, Zenon DEF Min
<1> QED  BY <1>2

LEMMA DayIsPositive ==
    /\ Day \subseteq Nat \ {0} /\ IsFiniteSet(Day)
    /\ \A b \in DailyBar : b.day \in Day /\ b.close \in Nat /\ b.high \in Nat /\ b.low \in Nat
BY CatalogAssumption DEF DailyBar

\* The bars up to a day are some of the bars, none of them later.
LEMMA UpToIs ==
    ASSUME NEW x \in Seq(DailyBar), NEW day \in Int
    PROVE  /\ UpTo(x, day) \in Seq(DailyBar)
           /\ \A i \in DOMAIN UpTo(x, day) : /\ UpTo(x, day)[i].day <= day
                                             /\ \E j \in DOMAIN x : UpTo(x, day)[i] = x[j]
<1> DEFINE at == {i \in DOMAIN x : x[i].day <= day}
           sub == Sub(x, at)
<1>1. DOMAIN x = 1..Len(x) /\ Len(x) \in Nat /\ \A i \in DOMAIN x : x[i] \in DailyBar
  OBVIOUS
<1>2. at \subseteq Nat /\ IsFiniteSet(at)
  <2>1. IsFiniteSet(1..Len(x))
    BY <1>1, FS_Interval
  <2>2. at \in SUBSET (1..Len(x))
    BY <1>1
  <2> QED  BY <2>1, <2>2, FS_Subset
<1>3. \A i \in at : i \in DOMAIN x /\ x[i].day <= day
  OBVIOUS
<1>4. UpTo(x, day) = sub
  BY Zenon DEF UpTo
<1> HIDE DEF at
<1>5. Picks(sub, x, at)
  BY <1>2, SubPicks
<1> HIDE DEF sub
<1>6. \A k \in DOMAIN sub : \E j \in at : sub[k] = x[j]
  BY <1>5 DEF Picks
<1>7. sub \in Seq(DailyBar)
  <2>1. /\ DOMAIN sub = 1..Cardinality(at) /\ Cardinality(at) \in Nat
        /\ sub = [k \in 1..Cardinality(at) |-> sub[k]]
    BY <1>5 DEF Picks
  <2>2. \A k \in DOMAIN sub : sub[k] \in DailyBar
    BY <1>1, <1>3, <1>6
  <2> QED  BY <2>1, <2>2
<1> QED  BY <1>3, <1>4, <1>6, <1>7

LEMMA DaysAreDays ==
    ASSUME NEW universe, NEW bars, \A s \in universe : bars[s] \in Seq(DailyBar)
    PROVE  /\ DaysIn(bars, universe) \subseteq Day /\ IsFiniteSet(DaysIn(bars, universe))
           /\ Newest(DaysIn(bars, universe)) \in Nat
           /\ \A day \in DaysIn(bars, universe) : day <= Newest(DaysIn(bars, universe))
<1> PICK D : D = DaysIn(bars, universe)
  OBVIOUS
<1>1. ASSUME NEW day \in D PROVE day \in Day
  <2>1. PICK s \in universe : day \in {b.day : b \in ToSet(bars[s])}
    BY DEF DaysIn
  <2>2. PICK b \in ToSet(bars[s]) : day = b.day
    BY <2>1
  <2>3. b \in DailyBar
    BY <2>2 DEF ToSet
  <2> QED  BY <2>2, <2>3, DayIsPositive
<1>2. D \in SUBSET Day /\ IsFiniteSet(D)
  BY <1>1, DayIsPositive, FS_Subset
<1>3. D \subseteq Nat
  BY <1>2, DayIsPositive
<1>4. CASE D = {}
  BY <1>2, <1>4 DEF Newest
<1>5. CASE D # {}
  <2>1. Max(D) \in D /\ \A day \in D : day <= Max(D)
    BY <1>2, <1>3, <1>5, LastIsLast
  <2> QED  BY <1>2, <1>3, <1>5, <2>1 DEF Newest
<1> QED  BY <1>2, <1>4, <1>5

\* The days of the bars up to a day are not later.
LEMMA DaysUpTo ==
    ASSUME NEW universe, NEW bars, \A s \in universe : bars[s] \in Seq(DailyBar), NEW asOf \in Nat
    PROVE  LET x == [s \in universe |-> UpTo(bars[s], asOf)]
           IN /\ \A s \in universe : x[s] \in Seq(DailyBar)
              /\ \A day \in DaysIn(x, universe) : day <= asOf
              /\ Newest(DaysIn(x, universe)) <= asOf
              /\ \A s \in universe : \A i \in DOMAIN x[s] : x[s][i].day <= Newest(DaysIn(x, universe))
<1> DEFINE x == [s \in universe |-> UpTo(bars[s], asOf)]
<1>1. \A s \in universe : /\ x[s] \in Seq(DailyBar)
                          /\ \A i \in DOMAIN x[s] : x[s][i].day <= asOf
  <2> TAKE s \in universe
  <2>1. x[s] = UpTo(bars[s], asOf)
    OBVIOUS
  <2>2. bars[s] \in Seq(DailyBar) /\ asOf \in Int
    OBVIOUS
  <2> QED  BY <2>1, <2>2, UpToIs
<1> HIDE DEF x
<1>2. \A day \in DaysIn(x, universe) : day <= asOf
  <2> TAKE day \in DaysIn(x, universe)
  <2>1. PICK s \in universe : day \in {b.day : b \in ToSet(x[s])}
    BY DEF DaysIn
  <2>2. PICK b \in ToSet(x[s]) : day = b.day
    BY <2>1
  <2> QED  BY <1>1, <2>2 DEF ToSet
<1>3. /\ Newest(DaysIn(x, universe)) \in Nat /\ DaysIn(x, universe) \subseteq Day
      /\ IsFiniteSet(DaysIn(x, universe))
      /\ \A day \in DaysIn(x, universe) : day <= Newest(DaysIn(x, universe))
  BY <1>1, DaysAreDays
<1>4. Newest(DaysIn(x, universe)) <= asOf
  <2>1. CASE DaysIn(x, universe) = {}
    BY <2>1 DEF Newest
  <2>2. CASE DaysIn(x, universe) # {}
    <3>1. Max(DaysIn(x, universe)) \in DaysIn(x, universe)
      <4>1. DaysIn(x, universe) \subseteq Nat
        BY <1>3, DayIsPositive
      <4> QED  BY <1>3, <2>2, <4>1, LastIsLast
    <3> QED  BY <1>2, <2>2, <3>1 DEF Newest
  <2> QED  BY <2>1, <2>2
<1>5. \A s \in universe : \A i \in DOMAIN x[s] : x[s][i].day \in DaysIn(x, universe)
  BY DEF DaysIn, ToSet
<1>6. /\ \A s \in universe : x[s] \in Seq(DailyBar)
      /\ \A day \in DaysIn(x, universe) : day <= asOf
      /\ Newest(DaysIn(x, universe)) <= asOf
      /\ \A s \in universe : \A i \in DOMAIN x[s] : x[s][i].day <= Newest(DaysIn(x, universe))
  BY <1>1, <1>2, <1>3, <1>4, <1>5
<1> QED  BY <1>6 DEF x

LEMMA AsOfIsADay ==
    ASSUME NEW universe, NEW bars, \A s \in universe : bars[s] \in Seq(DailyBar),
           NEW q, q.asOf \in Int, q.asOf >= 0
    PROVE  AsOf(bars, universe, q) \in Nat
<1>1. Newest(DaysIn(bars, universe)) \in Nat
  BY DaysAreDays
<1> QED  BY <1>1 DEF AsOf
-----------------------------------------------------------------------------
(* screen: what a candidate is measured by. *)

LEMMA QuotientIsANumber ==
    ASSUME NEW a \in Int, NEW b \in Nat \ {0}
    PROVE  a \div b \in Int
OBVIOUS

LEMMA FloorIsEnough ==
    ASSUME NEW q, q.minBars \in Int
    PROVE  /\ Floor(q) \in Int /\ Trail + Skip + 1 <= Floor(q) /\ Long <= Floor(q)
           /\ Pullback <= Floor(q)
<1>1. /\ Trail \in Nat \ {0} /\ Skip \in Nat /\ Long \in Nat \ {0} /\ Pullback \in Nat \ {0}
  BY StrategyAssumption
<1>2. Trail + Skip + 1 \in Int
  BY <1>1
<1> PICK a, b, c : a = q.minBars /\ b = Trail + Skip + 1 /\ c = Long
  OBVIOUS
<1>3. /\ Max({a, b, c}) \in Int
      /\ a <= Max({a, b, c}) /\ b <= Max({a, b, c}) /\ c <= Max({a, b, c})
  <2>1. a \in Int /\ b \in Int /\ c \in Int
    BY <1>1, <1>2
  <2> QED  BY <2>1, MaxOfThree
<1>4. Floor(q) = Max({a, b, c})
  BY DEF Floor
<1>5. Pullback <= Trail + Skip + 1
  BY ScreenAssumption
<1> QED  BY <1>1, <1>3, <1>4, <1>5

LEMMA CapIsANumber ==
    ASSUME NEW v \in Int
    PROVE  Max({0, v}) \in Int
<1> PICK a : a = 0
  OBVIOUS
<1>1. a \in Int
  OBVIOUS
<1>2. Max({a, v}) = IF a >= v THEN a ELSE v
  BY <1>1, MaxOfTwo
<1> QED  BY <1>1, <1>2

LEMMA DepthIsANumber ==
    ASSUME NEW close \in Nat, NEW average \in Nat
    PROVE  Depth(close, average) \in Int
<1>1. CASE average = 0
  BY <1>1 DEF Depth
<1>2. CASE average # 0
  <2>1. PICK v : v = (1000 * (average - close)) \div average
    OBVIOUS
  <2>2. v \in Int
    <3>1. 1000 * (average - close) \in Int /\ average \in Nat \ {0}
      BY <1>2
    <3> QED  BY <2>1, <3>1, QuotientIsANumber
  <2>3. PICK w : w = Min({100, v})
    OBVIOUS
  <2>4. w \in Int
    BY <2>2, <2>3, MinOfTwo
  <2>5. Max({0, w}) \in Int
    BY <2>4, CapIsANumber
  <2>6. Depth(close, average) = Max({0, w})
    BY <1>2, <2>1, <2>3 DEF Depth
  <2> QED  BY <2>5, <2>6
<1> QED  BY <1>1, <1>2

\* A candidate's measures.
Measured(r) ==
    /\ r.momentum \in Int /\ r.trend \in Int /\ r.depth \in Int /\ r.vol \in Int
    /\ r.symbol \in Nat /\ r.day \in Nat

LEMMA CandidateIsMeasured ==
    ASSUME NEW s \in Symbol, NEW x \in Seq(DailyBar), NEW asOf \in Nat, NEW q, q.minBars \in Int,
           Excluded(x, asOf, q) = "none"
    PROVE  /\ Measured(Candidate(s, x)) /\ Candidate(s, x).symbol = s
           /\ Len(x) \in DOMAIN x /\ Candidate(s, x).day = x[Len(x)].day
<1> DEFINE n == Len(x)
           c == Closes(x)
<1>1. /\ Short \in Nat \ {0} /\ Long \in Nat \ {0} /\ Pullback \in Nat \ {0}
      /\ Trail \in Nat \ {0} /\ Skip \in Nat
  BY StrategyAssumption
<1>2. /\ ~(n < Floor(q)) /\ ~ \E i \in DOMAIN x : x[i].close <= 0
  BY DEF Excluded
<1>3. /\ Floor(q) \in Int /\ Trail + Skip + 1 <= Floor(q) /\ Long <= Floor(q)
      /\ Pullback <= Floor(q)
  BY FloorIsEnough
<1>4. n \in Nat /\ DOMAIN x = 1..n /\ \A i \in 1..n : x[i] \in DailyBar
  OBVIOUS
<1> HIDE DEF n
<1>5. /\ Trail + Skip + 1 <= n /\ Pullback <= n
      /\ n \in 1..n /\ n - Skip \in 1..n /\ n - Skip - Trail \in 1..n
  <2>1. Trail + Skip + 1 <= n /\ Pullback <= n
    BY <1>1, <1>2, <1>3, <1>4
  <2> QED  BY <1>1, <1>4, <2>1
<1>6. c \in [1..n -> Nat] /\ \A i \in 1..n : c[i] = x[i].close /\ c[i] > 0
  <2>1. c = [i \in 1..n |-> x[i].close]
    BY <1>4 DEF Closes
  <2>2. \A i \in 1..n : x[i].close \in Nat /\ x[i].close > 0
    BY <1>2, <1>4, DayIsPositive
  <2> HIDE DEF c
  <2> QED  BY <2>1, <2>2
<1> HIDE DEF c
<1>7. c \in [1..n -> Price]
  BY <1>6 DEF Price
<1> DEFINE momentum == (100 * x[n - Skip].close) \div MomentumBase(x)
           vol == Swing(c, n, Short)
           trend == Cardinality({p \in {Short, Long} : c[n] > Mean(c, n, p)})
           depth == Depth(c[n], Mean(c, n, Pullback))
<1>8. momentum \in Int
  <2>1. MomentumBase(x) = c[n - Skip - Trail] /\ x[n - Skip].close = c[n - Skip]
    BY <1>5, <1>6 DEF MomentumBase, n
  <2>2. c[n - Skip - Trail] \in Nat \ {0} /\ 100 * c[n - Skip] \in Int
    BY <1>5, <1>6
  <2> QED  BY <2>1, <2>2, QuotientIsANumber
<1>9. vol \in Int
  <2>1. Short + 1 \in Nat \ {0}
    BY <1>1
  <2>2. Lowest(c, n, Short + 1) \in Int /\ Highest(c, n, Short + 1) \in Int
    BY <1>4, <1>5, <1>7, <2>1, ExtremesAreNumbers
  <2> QED  BY <2>2 DEF Swing, NaN
<1>10. trend \in Int
  <2> PICK T : T = {p \in {Short, Long} : c[n] > Mean(c, n, p)}
    OBVIOUS
  <2>1. IsFiniteSet({Short, Long})
    <3>1. IsFiniteSet({Short}) /\ {Short, Long} = {Short} \cup {Long}
      BY FS_Singleton
    <3> QED  BY <3>1, FS_AddElement
  <2>2. T \in SUBSET {Short, Long}
    OBVIOUS
  <2>3. Cardinality(T) \in Nat
    BY <2>1, <2>2, FS_Subset, FS_CardinalityType
  <2> QED  BY <2>3
<1>11. depth \in Int
  <2>1. Full(c, n, Pullback)
    <3>1. n >= Pullback
      BY <1>1, <1>4, <1>5
    <3>2. \A v \in ToSet(Window(c, n, Pullback)) : Known(v)
      <4> DEFINE w == Window(c, n, Pullback)
      <4>1. w = [k \in 1..(1 + n - (n - Pullback + 1)) |-> c[k + (n - Pullback + 1) - 1]]
        BY <1>1, <1>4, <1>6 DEF Window, SubSeq
      <4>2. 1 + n - (n - Pullback + 1) = Pullback
        BY <1>1, <1>4
      <4>3. \A k \in 1..Pullback : k + (n - Pullback + 1) - 1 \in 1..n
        BY <1>1, <1>4, <3>1
      <4> HIDE DEF w
      <4>4. DOMAIN w = 1..Pullback /\ \A k \in 1..Pullback : w[k] \in Nat
        BY <1>6, <4>1, <4>2, <4>3
      <4>5. \A v \in ToSet(w) : v \in Nat
        BY <4>4 DEF ToSet
      <4>6. \A v \in ToSet(w) : Known(v)
        BY <4>5 DEF Known, NaN
      <4> QED  BY <4>6 DEF w
    <3> QED  BY <3>1, <3>2 DEF Full
  <2> PICK t : t = Sum(Window(c, n, Pullback))
    OBVIOUS
  <2>2. t \in Nat
    BY <1>1, <1>4, <1>5, <1>7, <2>1, WindowPrices
  <2> PICK average : average = Mean(c, n, Pullback)
    OBVIOUS
  <2>3. average = t \div Pullback
    BY <2>1 DEF Mean
  <2>4. average \in Nat
    BY <1>1, <2>2, <2>3
  <2>5. c[n] \in Nat
    BY <1>5, <1>6
  <2> QED  BY <2>4, <2>5, DepthIsANumber
<1>12. x[n].day \in Nat
  BY <1>4, <1>5, DayIsPositive
<1>13. s \in Nat
  BY CatalogAssumption
<1>14. Candidate(s, x) = [symbol |-> s, day |-> x[n].day, close |-> c[n], momentum |-> momentum,
                          vol |-> vol, trend |-> trend, depth |-> depth]
  BY Zenon DEF Candidate, n, c
<1> HIDE DEF momentum, vol, trend, depth
<1> QED  BY <1>4, <1>5, <1>8, <1>9, <1>10, <1>11, <1>12, <1>13, <1>14 DEF Measured, n

-----------------------------------------------------------------------------
(* screen: the ranking of the candidates. *)

LEMMA PartIsFinite ==
    ASSUME NEW C, IsFiniteSet(C), NEW P \in SUBSET C
    PROVE  IsFiniteSet(P) /\ Cardinality(P) \in Nat /\ Cardinality(P) <= Cardinality(C)
BY FS_Subset, FS_CardinalityType

\* Twice the mean rank of a measure grows with the measure.
LEMMA TiedRanks ==
    ASSUME NEW C, IsFiniteSet(C), NEW by, \A r \in C : r[by] \in Int, NEW a \in C, NEW b \in C
    PROVE  /\ TiedRank(C, a, by) \in Int
           /\ a[by] = b[by] => TiedRank(C, a, by) = TiedRank(C, b, by)
           /\ a[by] > b[by] => TiedRank(C, a, by) > TiedRank(C, b, by)
<1> DEFINE below(r) == {o \in C : o[by] < r[by]}
           level(r) == {o \in C : o[by] = r[by]}
<1>1. \A r \in C : /\ IsFiniteSet(below(r)) /\ Cardinality(below(r)) \in Nat
                   /\ IsFiniteSet(level(r)) /\ Cardinality(level(r)) \in Nat
  <2> TAKE r \in C
  <2>1. below(r) \in SUBSET C /\ level(r) \in SUBSET C
    OBVIOUS
  <2> HIDE DEF below, level
  <2> QED  BY <2>1, PartIsFinite
<1>2. \A r \in C : TiedRank(C, r, by) = 2 * Cardinality(below(r)) + Cardinality(level(r)) - 1
  BY DEF TiedRank
<1>3. \A r \in C : r \in level(r)
  OBVIOUS
<1>4. \A r \in C : Cardinality(level(r)) # 0
  <2> HIDE DEF level
  <2> QED  BY <1>1, <1>3, FS_EmptySet
<1>5. a[by] = b[by] => TiedRank(C, a, by) = TiedRank(C, b, by)
  BY DEF TiedRank
<1>6. ASSUME a[by] > b[by]
      PROVE  Cardinality(below(b)) + Cardinality(level(b)) <= Cardinality(below(a))
  <2>1. below(b) \cup level(b) \in SUBSET below(a) /\ below(b) \cap level(b) = {}
    <3>1. a[by] \in Int /\ b[by] \in Int
      OBVIOUS
    <3>2. ASSUME NEW o \in below(b) \cup level(b) PROVE o \in below(a)
      <4>1. o \in C /\ o[by] \in Int /\ (o[by] < b[by] \/ o[by] = b[by])
        OBVIOUS
      <4>2. o[by] < a[by]
        BY <1>6, <3>1, <4>1
      <4> QED  BY <4>1, <4>2
    <3>3. below(b) \cap level(b) = {}
      OBVIOUS
    <3> QED  BY <3>2, <3>3
  <2>2. /\ IsFiniteSet(below(b)) /\ IsFiniteSet(level(b)) /\ IsFiniteSet(below(a))
        /\ Cardinality(below(b)) \in Nat /\ Cardinality(level(b)) \in Nat
    BY <1>1
  <2> HIDE DEF below, level
  <2>3. Cardinality(below(b) \cup level(b)) <= Cardinality(below(a))
    BY <2>1, <2>2, FS_Subset
  <2>4. Cardinality(below(b) \cup level(b)) =
           Cardinality(below(b)) + Cardinality(level(b)) - Cardinality(below(b) \cap level(b))
    BY <2>2, FS_Union
  <2>5. Cardinality(below(b) \cap level(b)) = 0
    BY <2>1, FS_EmptySet
  <2> QED  BY <2>2, <2>3, <2>4, <2>5
<1> HIDE DEF below, level
<1>7. ASSUME a[by] > b[by] PROVE TiedRank(C, a, by) > TiedRank(C, b, by)
  <2>0. PICK ba, bb, la, lb : /\ ba = Cardinality(below(a)) /\ bb = Cardinality(below(b))
                              /\ la = Cardinality(level(a)) /\ lb = Cardinality(level(b))
    OBVIOUS
  <2>1. ba \in Nat /\ bb \in Nat /\ la \in Nat /\ lb \in Nat /\ la # 0 /\ lb # 0
    BY <1>1, <1>4, <2>0
  <2>2. bb + lb <= ba
    BY <1>6, <1>7, <2>0
  <2>3. TiedRank(C, a, by) = 2 * ba + la - 1 /\ TiedRank(C, b, by) = 2 * bb + lb - 1
    BY <1>2, <2>0
  <2> QED  BY <2>1, <2>2, <2>3
<1>8. TiedRank(C, a, by) \in Int
  BY <1>1, <1>2
<1> QED  BY <1>5, <1>7, <1>8

LEMMA Scaled ==
    ASSUME NEW x \in Int, NEW y \in Int, NEW top \in Nat \ {0}
    PROVE  /\ x * top \in Int /\ y * top \in Int
           /\ x >= y => x * top >= y * top
           /\ x > y => x * top > y * top
OBVIOUS

LEMMA Weighted ==
    ASSUME NEW ma \in Int, NEW ta \in Int, NEW da \in Int, NEW va \in Int,
           NEW mb \in Int, NEW tb \in Int, NEW db \in Int, NEW vb \in Int, NEW base \in Int,
           ma >= mb, ta >= tb, da >= db, va <= vb,
           NEW sa, sa = 800 * ma + 500 * ta + 8 * da + base - 300 * va,
           NEW sb, sb = 800 * mb + 500 * tb + 8 * db + base - 300 * vb
    PROVE  /\ sa \in Int /\ sb \in Int /\ sa >= sb
           /\ ma > mb \/ ta > tb \/ da > db \/ va < vb => sa > sb
OBVIOUS

\* The candidates of a screen: each is measured, and has a symbol of its own.
Candidates(C) ==
    /\ IsFiniteSet(C) /\ \A r \in C : Measured(r)
    /\ \A a, b \in C : a.symbol = b.symbol => a = b

LEMMA BetterScores ==
    ASSUME NEW C, Candidates(C), NEW a \in C, NEW b \in C
    PROVE  /\ Score(C, a) \in Int
           /\ Better(a, b) => \/ Score(C, a) > Score(C, b)
                              \/ Score(C, a) = Score(C, b) /\ a.symbol < b.symbol
<1>1. PICK top : top = Max({Cardinality(C) - 1, 1})
  OBVIOUS
<1>2. top \in Nat \ {0}
  <2>1. PICK n : n = Cardinality(C) - 1
    OBVIOUS
  <2>2. n \in Int
    BY <2>1, FS_CardinalityType DEF Candidates
  <2>3. PICK one : one = 1
    OBVIOUS
  <2>4. Max({n, one}) = IF n >= one THEN n ELSE one
    BY <2>2, <2>3, MaxOfTwo
  <2> QED  BY <1>1, <2>1, <2>2, <2>3, <2>4
<1>3. IsFiniteSet(C) /\ \A r \in C : /\ r["momentum"] \in Int /\ r["vol"] \in Int
                                     /\ r.trend \in Int /\ r.depth \in Int
  BY DEF Candidates, Measured
<1>4. PICK ma, mb, va, vb : /\ ma = TiedRank(C, a, "momentum") /\ mb = TiedRank(C, b, "momentum")
                            /\ va = TiedRank(C, a, "vol") /\ vb = TiedRank(C, b, "vol")
  OBVIOUS
<1>5. PICK by : by = "momentum"
  OBVIOUS
<1>6. PICK vol : vol = "vol"
  OBVIOUS
<1>7. /\ ma \in Int /\ mb \in Int
      /\ a[by] = b[by] => ma = mb
      /\ a[by] > b[by] => ma > mb
  <2>1. \A r \in C : r[by] \in Int
    BY <1>3, <1>5
  <2>2. /\ TiedRank(C, a, by) \in Int /\ TiedRank(C, b, by) \in Int
        /\ a[by] = b[by] => TiedRank(C, a, by) = TiedRank(C, b, by)
        /\ a[by] > b[by] => TiedRank(C, a, by) > TiedRank(C, b, by)
    BY <1>3, <2>1, TiedRanks
  <2> QED  BY <1>4, <1>5, <2>2
<1>8. /\ va \in Int /\ vb \in Int
      /\ a[vol] = b[vol] => va = vb
      /\ b[vol] > a[vol] => vb > va
  <2>1. \A r \in C : r[vol] \in Int
    BY <1>3, <1>6
  <2>2. /\ TiedRank(C, a, vol) \in Int /\ TiedRank(C, b, vol) \in Int
        /\ a[vol] = b[vol] => TiedRank(C, a, vol) = TiedRank(C, b, vol)
        /\ b[vol] > a[vol] => TiedRank(C, b, vol) > TiedRank(C, a, vol)
    BY <1>3, <2>1, TiedRanks
  <2> QED  BY <1>4, <1>6, <2>2
<1>9. PICK ta, tb, da, db, base : /\ ta = a.trend * top /\ tb = b.trend * top
                                  /\ da = a.depth * top /\ db = b.depth * top
                                  /\ base = 600 * top
  OBVIOUS
<1>10. /\ a.trend \in Int /\ b.trend \in Int /\ a.depth \in Int /\ b.depth \in Int
       /\ a.momentum \in Int /\ b.momentum \in Int /\ a.vol \in Int /\ b.vol \in Int
       /\ a.symbol \in Nat /\ b.symbol \in Nat
  BY DEF Candidates, Measured
<1>11. /\ ta \in Int /\ tb \in Int /\ da \in Int /\ db \in Int /\ base \in Int
       /\ a.trend >= b.trend => ta >= tb
       /\ a.trend > b.trend => ta > tb
       /\ a.depth >= b.depth => da >= db
       /\ a.depth > b.depth => da > db
  <2>1. base \in Int
    BY <1>2, <1>9
  <2>2. PICK x, y, u, v : x = a.trend /\ y = b.trend /\ u = a.depth /\ v = b.depth
    OBVIOUS
  <2>3. x \in Int /\ y \in Int /\ u \in Int /\ v \in Int
    BY <1>10, <2>2
  <2>4. /\ x * top \in Int /\ y * top \in Int
        /\ x >= y => x * top >= y * top
        /\ x > y => x * top > y * top
    BY <1>2, <2>3, Scaled
  <2>5. /\ u * top \in Int /\ v * top \in Int
        /\ u >= v => u * top >= v * top
        /\ u > v => u * top > v * top
    BY <1>2, <2>3, Scaled
  <2> QED  BY <1>9, <2>1, <2>2, <2>4, <2>5
<1>12. /\ Score(C, a) = 800 * ma + 500 * ta + 8 * da + base - 300 * va
       /\ Score(C, b) = 800 * mb + 500 * tb + 8 * db + base - 300 * vb
  <2>1. /\ 500 * a.trend * top = 500 * ta /\ 8 * a.depth * top = 8 * da
        /\ 500 * b.trend * top = 500 * tb /\ 8 * b.depth * top = 8 * db
    BY <1>2, <1>9, <1>10
  <2>2. /\ Score(C, a) = 800 * ma + 500 * a.trend * top + 8 * a.depth * top + base - 300 * va
        /\ Score(C, b) = 800 * mb + 500 * b.trend * top + 8 * b.depth * top + base - 300 * vb
    BY <1>1, <1>4, <1>9 DEF Score
  <2> QED  BY <2>1, <2>2
<1>13. Score(C, a) \in Int
  BY <1>7, <1>8, <1>11, <1>12
<1>14. ASSUME Better(a, b)
       PROVE  \/ Score(C, a) > Score(C, b)
              \/ Score(C, a) = Score(C, b) /\ a.symbol < b.symbol
  <2>1. /\ a.momentum >= b.momentum /\ a.trend >= b.trend /\ a.depth >= b.depth /\ a.vol <= b.vol
        /\ \/ a.momentum > b.momentum \/ a.trend > b.trend \/ a.depth > b.depth \/ a.vol < b.vol
           \/ a.symbol < b.symbol
    BY <1>14 DEF Better
  <2>2. /\ ma >= mb /\ ta >= tb /\ da >= db /\ va <= vb
        /\ \/ ma > mb \/ ta > tb \/ da > db \/ va < vb \/ a.symbol < b.symbol
    BY <1>5, <1>6, <1>7, <1>8, <1>10, <1>11, <2>1
  <2>3. PICK sa, sb : sa = Score(C, a) /\ sb = Score(C, b)
    OBVIOUS
  <2>4. /\ sa \in Int /\ sb \in Int /\ sa >= sb
        /\ ma > mb \/ ta > tb \/ da > db \/ va < vb => sa > sb
    BY <1>7, <1>8, <1>11, <1>12, <2>2, <2>3, Weighted
  <2> QED  BY <2>2, <2>3, <2>4
<1> QED  BY <1>13, <1>14

\* The candidates that are ranked before one.
Ahead(C, r) ==
    {o \in C : Score(C, o) > Score(C, r) \/ (Score(C, o) = Score(C, r) /\ o.symbol < r.symbol)}

LEMMA AheadGrows ==
    ASSUME NEW C, Candidates(C), NEW b \in C
    PROVE  /\ Cardinality(Ahead(C, b)) \in 0..(Cardinality(C) - 1)
           /\ \A a \in Ahead(C, b) : Cardinality(Ahead(C, a)) < Cardinality(Ahead(C, b))
           /\ \A a \in C : a = b \/ a \in Ahead(C, b) \/ b \in Ahead(C, a)
<1>1. \A r \in C : Score(C, r) \in Int /\ r.symbol \in Nat
  BY BetterScores DEF Candidates, Measured
<1>2. /\ IsFiniteSet(C) /\ Cardinality(C) \in Nat
      /\ \A r \in C : /\ IsFiniteSet(Ahead(C, r)) /\ Cardinality(Ahead(C, r)) \in Nat
                      /\ r \notin Ahead(C, r) /\ Ahead(C, r) \in SUBSET C
  <2>1. \A r \in C : Ahead(C, r) \in SUBSET C
    BY DEF Ahead
  <2>2. \A r \in C : r \notin Ahead(C, r)
    BY <1>1 DEF Ahead
  <2> QED  BY <2>1, <2>2, PartIsFinite, FS_CardinalityType DEF Candidates
<1>3. ASSUME NEW P, NEW Q, P \in SUBSET Q, IsFiniteSet(Q), NEW z \in Q, z \notin P
      PROVE  Cardinality(P) < Cardinality(Q) /\ Cardinality(P) \in Nat /\ Cardinality(Q) \in Nat
  <2>1. P \in SUBSET (Q \ {z})
    BY <1>3
  <2>2. IsFiniteSet(Q \ {z}) /\ Cardinality(Q \ {z}) = Cardinality(Q) - 1
    BY <1>3, FS_RemoveElement
  <2>3. Cardinality(P) <= Cardinality(Q \ {z})
    BY <2>1, <2>2, FS_Subset
  <2>4. Cardinality(P) \in Nat /\ Cardinality(Q) \in Nat
    BY <1>3, FS_Subset, FS_CardinalityType
  <2> QED  BY <2>2, <2>3, <2>4
<1>4. Cardinality(Ahead(C, b)) < Cardinality(C)
  BY <1>2, <1>3
<1>5. ASSUME NEW a \in Ahead(C, b)
      PROVE  Cardinality(Ahead(C, a)) < Cardinality(Ahead(C, b))
  <2>1. a \in C
    BY DEF Ahead
  <2>2. Ahead(C, a) \in SUBSET Ahead(C, b)
    <3>1. ASSUME NEW o \in Ahead(C, a) PROVE o \in Ahead(C, b)
      <4>1. o \in C /\ Score(C, o) \in Int /\ Score(C, a) \in Int /\ Score(C, b) \in Int
        BY <1>1, <2>1 DEF Ahead
      <4>2. o.symbol \in Nat /\ a.symbol \in Nat /\ b.symbol \in Nat
        BY <1>1, <2>1, <4>1
      <4>3. Score(C, o) > Score(C, a) \/ (Score(C, o) = Score(C, a) /\ o.symbol < a.symbol)
        BY DEF Ahead
      <4>4. Score(C, a) > Score(C, b) \/ (Score(C, a) = Score(C, b) /\ a.symbol < b.symbol)
        BY DEF Ahead
      <4>5. Score(C, o) > Score(C, b) \/ (Score(C, o) = Score(C, b) /\ o.symbol < b.symbol)
        BY <4>1, <4>2, <4>3, <4>4
      <4> QED  BY <4>1, <4>5 DEF Ahead
    <3> QED  BY <3>1
  <2>3. a \notin Ahead(C, a) /\ IsFiniteSet(Ahead(C, b))
    BY <1>2, <2>1
  <2> QED  BY <1>3, <2>2, <2>3
<1>6. ASSUME NEW a \in C PROVE a = b \/ a \in Ahead(C, b) \/ b \in Ahead(C, a)
  <2>1. a.symbol = b.symbol => a = b
    BY DEF Candidates
  <2>2. /\ Score(C, a) \in Int /\ Score(C, b) \in Int /\ a.symbol \in Nat /\ b.symbol \in Nat
    BY <1>1
  <2>3. \/ Score(C, a) > Score(C, b) \/ Score(C, b) > Score(C, a)
        \/ Score(C, a) = Score(C, b) /\ (a.symbol = b.symbol \/ a.symbol < b.symbol \/ b.symbol < a.symbol)
    BY <2>2
  <2> QED  BY <2>1, <2>3 DEF Ahead
<1> QED  BY <1>2, <1>4, <1>5, <1>6

\* Every candidate is ranked once, after those that are ahead of it.
LEMMA RankedInOrder ==
    ASSUME NEW C, Candidates(C)
    PROVE  /\ Ranked(C) \in Seq(C) /\ Len(Ranked(C)) = Cardinality(C) /\ Cardinality(C) \in Nat
           /\ \A i \in DOMAIN Ranked(C) : Cardinality(Ahead(C, Ranked(C)[i])) = i - 1
           /\ \A r \in C : \E i \in DOMAIN Ranked(C) : Ranked(C)[i] = r
<1> DEFINE n == Cardinality(C)
           place == [r \in C |-> Cardinality(Ahead(C, r))]
           rows == Ranked(C)
<1>1. n \in Nat /\ IsFiniteSet(C)
  BY FS_CardinalityType DEF Candidates
<1> DEFINE score == [r \in C |-> Score(C, r)]
           ahead(r) == {o \in C : score[o] > score[r] \/ (score[o] = score[r] /\ o.symbol < r.symbol)}
<1>2. /\ \A r \in C : ahead(r) = Ahead(C, r)
      /\ rows = [i \in 1..n |-> CHOOSE r \in C : Cardinality(ahead(r)) = i - 1]
  <2>1. \A r \in C : ahead(r) = Ahead(C, r)
    BY DEF Ahead
  <2>2. rows = [i \in 1..n |-> CHOOSE r \in C : Cardinality(ahead(r)) = i - 1]
    BY Zenon DEF Ranked
  <2> QED  BY <2>1, <2>2
<1> HIDE DEF score, ahead
<1>3. place \in Injection(C, 0..(n - 1))
  <2>1. place \in [C -> 0..(n - 1)]
    BY AheadGrows
  <2>2. ASSUME NEW a \in C, NEW b \in C, place[a] = place[b] PROVE a = b
    <3>1. a \in Ahead(C, b) => Cardinality(Ahead(C, a)) < Cardinality(Ahead(C, b))
      BY AheadGrows
    <3>2. b \in Ahead(C, a) => Cardinality(Ahead(C, b)) < Cardinality(Ahead(C, a))
      BY AheadGrows
    <3>3. Cardinality(Ahead(C, a)) \in 0..(n - 1) /\ Cardinality(Ahead(C, b)) \in 0..(n - 1)
      BY AheadGrows
    <3>4. Cardinality(Ahead(C, a)) = Cardinality(Ahead(C, b))
      BY <2>2
    <3> HIDE DEF n, place
    <3>5. a \notin Ahead(C, b) /\ b \notin Ahead(C, a)
      BY <1>1, <3>1, <3>2, <3>3, <3>4
    <3> QED  BY <3>5, AheadGrows
  <2> QED  BY <2>1, <2>2 DEF Injection, IsInjective
<1>4. place \in Surjection(C, 0..(n - 1))
  <2>1. IsFiniteSet(0..(n - 1)) /\ Cardinality(0..(n - 1)) = n
    <3>1. 0 \in Int /\ n - 1 \in Int
      BY <1>1
    <3>2. IsFiniteSet(0..(n - 1)) /\ Cardinality(0..(n - 1)) = IF 0 > n - 1 THEN 0 ELSE n - 1 - 0 + 1
      BY <3>1, FS_Interval
    <3> HIDE DEF n
    <3> QED  BY <1>1, <3>2
  <2> QED  BY <1>1, <1>3, <2>1, FS_Injection
<1>5. ASSUME NEW i \in 1..n
      PROVE  rows[i] \in C /\ Cardinality(Ahead(C, rows[i])) = i - 1
  <2>1. i - 1 \in 0..(n - 1)
    BY <1>1
  <2>2. PICK r \in C : place[r] = i - 1
    BY <1>4, <2>1 DEF Surjection
  <2>3. Cardinality(ahead(r)) = i - 1
    BY <1>2, <2>2
  <2>4. rows[i] = CHOOSE z \in C : Cardinality(ahead(z)) = i - 1
    <3> HIDE DEF rows, n
    <3> QED  BY <1>2, Zenon
  <2>5. rows[i] \in C /\ Cardinality(ahead(rows[i])) = i - 1
    BY <2>3, <2>4, Zenon
  <2> QED  BY <1>2, <2>5
<1>6. DOMAIN rows = 1..n /\ rows = [i \in 1..n |-> rows[i]]
  <2> HIDE DEF rows, n
  <2>1. DOMAIN rows = 1..n
    BY <1>2, Zenon
  <2>2. rows = [i \in DOMAIN rows |-> rows[i]]
    BY <1>2
  <2> QED  BY <2>1, <2>2
<1> HIDE DEF rows
<1>7. rows \in Seq(C) /\ Len(rows) = n
  BY <1>1, <1>5, <1>6
<1>8. ASSUME NEW r \in C PROVE \E i \in 1..n : rows[i] = r
  <2>1. place[r] \in 0..(n - 1)
    BY <1>3 DEF Injection
  <2> PICK i : i = place[r] + 1
    OBVIOUS
  <2>2. i \in 1..n /\ i - 1 = place[r]
    <3> HIDE DEF n, place
    <3> QED  BY <1>1, <2>1
  <2>3. rows[i] \in C /\ place[rows[i]] = place[r]
    BY <1>5, <2>2
  <2>4. rows[i] = r
    <3> HIDE DEF n, place
    <3> QED  BY <1>3, <2>3 DEF Injection, IsInjective
  <2> QED  BY <2>2, <2>4
<1> QED  BY <1>1, <1>5, <1>6, <1>7, <1>8 DEF rows

LEMMA RanksBetterFirst ==
    ASSUME NEW C, Candidates(C), NEW i \in DOMAIN Ranked(C), NEW j \in DOMAIN Ranked(C),
           Better(Ranked(C)[i], Ranked(C)[j])
    PROVE  i < j
<1> PICK rows : rows = Ranked(C)
  OBVIOUS
<1>1. /\ rows \in Seq(C) /\ \A k \in DOMAIN rows : Cardinality(Ahead(C, rows[k])) = k - 1
  BY RankedInOrder
<1>2. rows[i] \in C /\ rows[j] \in C /\ i \in Nat /\ j \in Nat
  BY <1>1
<1>3. rows[i] \in Ahead(C, rows[j])
  <2>1. \/ Score(C, rows[i]) > Score(C, rows[j])
        \/ Score(C, rows[i]) = Score(C, rows[j]) /\ rows[i].symbol < rows[j].symbol
    BY <1>2, BetterScores
  <2> QED  BY <1>2, <2>1 DEF Ahead
<1>4. Cardinality(Ahead(C, rows[i])) < Cardinality(Ahead(C, rows[j]))
  BY <1>2, <1>3, AheadGrows
<1> QED  BY <1>1, <1>2, <1>4

\* No name is ranked twice.
LEMMA RanksOnce ==
    ASSUME NEW C, Candidates(C), NEW i \in DOMAIN Ranked(C), NEW j \in DOMAIN Ranked(C),
           Ranked(C)[i] = Ranked(C)[j]
    PROVE  i = j
<1>1. /\ Ranked(C) \in Seq(C)
      /\ Cardinality(Ahead(C, Ranked(C)[i])) = i - 1 /\ Cardinality(Ahead(C, Ranked(C)[j])) = j - 1
  BY RankedInOrder
<1>2. i \in Nat /\ j \in Nat
  BY <1>1
<1> QED  BY <1>1, <1>2

-----------------------------------------------------------------------------
(* screen: the whole report. *)

LEMMA CutIs ==
    ASSUME NEW S, NEW rows \in Seq(S), NEW top \in Nat
    PROVE  /\ Cut(rows, top) \in Seq(S)
           /\ Len(Cut(rows, top)) = IF top = 0 THEN Len(rows) ELSE Min({Len(rows), top})
           /\ \A i \in DOMAIN Cut(rows, top) : i \in DOMAIN rows /\ Cut(rows, top)[i] = rows[i]
<1>1. Len(rows) \in Nat /\ DOMAIN rows = 1..Len(rows) /\ \A i \in 1..Len(rows) : rows[i] \in S
  OBVIOUS
<1>2. Min({Len(rows), top}) = IF Len(rows) <= top THEN Len(rows) ELSE top
  BY <1>1, MinOfTwo
<1>3. CASE top = 0 \/ top >= Len(rows)
  <2>1. Cut(rows, top) = rows
    BY <1>3 DEF Cut
  <2>2. top # 0 => Min({Len(rows), top}) = Len(rows)
    BY <1>1, <1>2, <1>3
  <2> QED  BY <1>1, <2>1, <2>2
<1>4. CASE ~(top = 0 \/ top >= Len(rows))
  <2>1. Cut(rows, top) = SubSeq(rows, 1, top)
    BY <1>4 DEF Cut
  <2>2. /\ SubSeq(rows, 1, top) \in Seq(S) /\ Len(SubSeq(rows, 1, top)) = top
        /\ \A i \in 1..top : i \in 1..Len(rows) /\ SubSeq(rows, 1, top)[i] = rows[i]
    BY <1>1, <1>4
  <2>3. Min({Len(rows), top}) = top
    BY <1>1, <1>2, <1>4
  <2> QED  BY <1>1, <1>4, <2>1, <2>2, <2>3
<1> QED  BY <1>3, <1>4

\* What the cut leaves out is no better than what it keeps.
LEMMA CutKeepsTheBest ==
    ASSUME NEW C, Candidates(C), NEW top \in Nat,
           NEW r \in ToSet(Cut(Ranked(C), top)), NEW o \in C \ ToSet(Cut(Ranked(C), top)),
           Better(o, r)
    PROVE  FALSE
<1> PICK rows, kept : rows = Ranked(C) /\ kept = Cut(Ranked(C), top)
  OBVIOUS
<1>1. rows \in Seq(C) /\ \E k \in DOMAIN rows : rows[k] = o
  BY RankedInOrder
<1>2. /\ kept \in Seq(C)
      /\ \A i \in DOMAIN kept : i \in DOMAIN rows /\ kept[i] = rows[i]
  BY <1>1, CutIs
<1>3. PICK i \in DOMAIN kept : kept[i] = r
  BY DEF ToSet
<1>4. PICK k \in DOMAIN rows : rows[k] = o
  BY <1>1
<1>5. k < i
  BY <1>2, <1>3, <1>4, RanksBetterFirst
<1>6. k \in DOMAIN kept
  <2>1. DOMAIN kept = 1..Len(kept) /\ DOMAIN rows = 1..Len(rows) /\ Len(kept) \in Nat /\ Len(rows) \in Nat
    BY <1>1, <1>2
  <2> QED  BY <1>5, <2>1
<1>7. kept[k] = o
  BY <1>2, <1>4, <1>6
<1> QED  BY <1>6, <1>7 DEF ToSet

LEMMA DisjointSizes ==
    ASSUME NEW A, NEW B, IsFiniteSet(A), IsFiniteSet(B), A \cap B = {}
    PROVE  /\ IsFiniteSet(A \cup B) /\ Cardinality(A \cup B) = Cardinality(A) + Cardinality(B)
           /\ Cardinality(A) \in Nat /\ Cardinality(B) \in Nat
<1>1. /\ IsFiniteSet(A \cup B)
      /\ Cardinality(A \cup B) = Cardinality(A) + Cardinality(B) - Cardinality(A \cap B)
  BY FS_Union
<1>2. Cardinality(A \cap B) = 0
  BY FS_EmptySet
<1>3. Cardinality(A) \in Nat /\ Cardinality(B) \in Nat
  BY FS_CardinalityType
<1> QED  BY <1>1, <1>2, <1>3

\* The symbols a screen leaves out for a reason; those of none are its candidates.
Out(universe, why, reason) == {s \in universe : why[s] = reason}

LEMMA EveryoneIsAccounted ==
    ASSUME NEW universe, IsFiniteSet(universe), NEW why \in [universe -> Reasons \cup {"none"}]
    PROVE  LET size(reason) == Cardinality(Out(universe, why, reason))
           IN /\ size("none") = Cardinality(universe)
                    - (size("short_history") + size("stale") + size("min_price")
                          + size("min_dollar_vol") + size("vol_unavailable"))
              /\ \A r \in Reasons \cup {"none"} : size(r) \in Nat
<1>1. PICK a, b, c, d, e, f : /\ a = Out(universe, why, "short_history") /\ b = Out(universe, why, "stale")
                              /\ c = Out(universe, why, "min_price") /\ d = Out(universe, why, "min_dollar_vol")
                              /\ e = Out(universe, why, "vol_unavailable") /\ f = Out(universe, why, "none")
  OBVIOUS
<1>2. \A r : Out(universe, why, r) \in SUBSET universe
  BY DEF Out
<1>3. \A r : IsFiniteSet(Out(universe, why, r)) /\ Cardinality(Out(universe, why, r)) \in Nat
  BY <1>2, FS_Subset, FS_CardinalityType
<1>4. universe = a \cup b \cup c \cup d \cup e \cup f
  BY <1>1 DEF Out, Reasons
<1>5. /\ a \cap b = {} /\ (a \cup b) \cap c = {} /\ (a \cup b \cup c) \cap d = {}
      /\ (a \cup b \cup c \cup d) \cap e = {} /\ (a \cup b \cup c \cup d \cup e) \cap f = {}
  BY <1>1 DEF Out
<1>6. /\ IsFiniteSet(a) /\ IsFiniteSet(b) /\ IsFiniteSet(c) /\ IsFiniteSet(d) /\ IsFiniteSet(e)
      /\ IsFiniteSet(f)
  BY <1>1, <1>3
<1>7. IsFiniteSet(a \cup b) /\ Cardinality(a \cup b) = Cardinality(a) + Cardinality(b)
  BY <1>5, <1>6, DisjointSizes
<1>8. /\ IsFiniteSet(a \cup b \cup c)
      /\ Cardinality(a \cup b \cup c) = Cardinality(a \cup b) + Cardinality(c)
  BY <1>5, <1>6, <1>7, DisjointSizes
<1>9. /\ IsFiniteSet(a \cup b \cup c \cup d)
      /\ Cardinality(a \cup b \cup c \cup d) = Cardinality(a \cup b \cup c) + Cardinality(d)
  BY <1>5, <1>6, <1>8, DisjointSizes
<1>10. /\ IsFiniteSet(a \cup b \cup c \cup d \cup e)
       /\ Cardinality(a \cup b \cup c \cup d \cup e) = Cardinality(a \cup b \cup c \cup d) + Cardinality(e)
  BY <1>5, <1>6, <1>9, DisjointSizes
<1>11. Cardinality(a \cup b \cup c \cup d \cup e \cup f) =
          Cardinality(a \cup b \cup c \cup d \cup e) + Cardinality(f)
  BY <1>5, <1>6, <1>10, DisjointSizes
<1>12. /\ Cardinality(a) \in Nat /\ Cardinality(b) \in Nat /\ Cardinality(c) \in Nat
       /\ Cardinality(d) \in Nat /\ Cardinality(e) \in Nat /\ Cardinality(f) \in Nat
  BY <1>1, <1>3
<1>13. Cardinality(f) = Cardinality(universe)
          - (Cardinality(a) + Cardinality(b) + Cardinality(c) + Cardinality(d) + Cardinality(e))
  BY <1>4, <1>7, <1>8, <1>9, <1>10, <1>11, <1>12
<1> QED  BY <1>1, <1>3, <1>13

\* The symbols a screen does not leave out, and what it measures of some.
NotOut(universe, x, asOf, q) == {s \in universe : Excluded(x[s], asOf, q) = "none"}
MeasuresOf(x, P) == {Candidate(s, x[s]) : s \in P}

LEMMA CandidatesAre ==
    ASSUME NEW universe, universe \subseteq Symbol, NEW x, \A s \in universe : x[s] \in Seq(DailyBar),
           NEW asOf \in Nat, NEW q, q.minBars \in Int
    PROVE  /\ Candidates(MeasuresOf(x, NotOut(universe, x, asOf, q)))
           /\ Cardinality(MeasuresOf(x, NotOut(universe, x, asOf, q))) =
                 Cardinality(NotOut(universe, x, asOf, q))
           /\ \A r \in MeasuresOf(x, NotOut(universe, x, asOf, q)) :
                 \E s \in universe : \E i \in DOMAIN x[s] : r.day = x[s][i].day
<1> PICK P : P = NotOut(universe, x, asOf, q)
  OBVIOUS
<1> DEFINE C == MeasuresOf(x, P)
           one == [s \in P |-> Candidate(s, x[s])]
<1>1. \A s \in P : /\ Measured(Candidate(s, x[s])) /\ Candidate(s, x[s]).symbol = s
                   /\ Len(x[s]) \in DOMAIN x[s] /\ Candidate(s, x[s]).day = x[s][Len(x[s])].day
  BY CandidateIsMeasured DEF NotOut
<1>2. IsFiniteSet(P)
  <2>1. P \in SUBSET Symbol
    BY DEF NotOut
  <2> QED  BY <2>1, CatalogAssumption, FS_Subset
<1>3. one \in Bijection(P, C)
  <2>1. one \in [P -> C] /\ \A r \in C : \E s \in P : one[s] = r
    BY DEF MeasuresOf
  <2>2. \A s, t \in P : one[s] = one[t] => s = t
    BY <1>1
  <2> HIDE DEF one, C
  <2> QED  BY <2>1, <2>2 DEF Bijection, Injection, Surjection, IsInjective
<1>4. IsFiniteSet(C) /\ Cardinality(C) = Cardinality(P)
  <2>1. ExistsBijection(P, C)
    BY <1>3, Zenon DEF ExistsBijection
  <2> QED  BY <1>2, <2>1, FS_Bijection
<1>5. \A r \in C : Measured(r)
  BY <1>1 DEF MeasuresOf
<1>6. \A a, b \in C : a.symbol = b.symbol => a = b
  <2> TAKE a, b \in C
  <2>1. PICK s \in P : a = Candidate(s, x[s])
    BY DEF MeasuresOf
  <2>2. PICK t \in P : b = Candidate(t, x[t])
    BY DEF MeasuresOf
  <2> QED  BY <1>1, <2>1, <2>2
<1>7. \A r \in C : \E s \in universe : \E i \in DOMAIN x[s] : r.day = x[s][i].day
  BY <1>1 DEF MeasuresOf, NotOut
<1>8. Candidates(C)
  BY <1>4, <1>5, <1>6 DEF Candidates
<1> HIDE DEF one, C
<1>9. /\ Candidates(MeasuresOf(x, P)) /\ Cardinality(MeasuresOf(x, P)) = Cardinality(P)
      /\ \A r \in MeasuresOf(x, P) : \E s \in universe : \E i \in DOMAIN x[s] : r.day = x[s][i].day
  BY <1>4, <1>7, <1>8 DEF C
<1> QED  BY <1>9

\* What ScreenRanksFairly says of one report.
FairScreen(a, top, eligible) ==
    LET out == a.excluded["short_history"] + a.excluded["stale"] + a.excluded["min_price"]
                  + a.excluded["min_dollar_vol"] + a.excluded["vol_unavailable"]
    IN /\ ToSet(a.rows) \subseteq eligible
       /\ \A i, j \in DOMAIN a.rows : /\ Better(a.rows[i], a.rows[j]) => i < j
                                     /\ a.rows[i] = a.rows[j] => i = j
       /\ \A r \in ToSet(a.rows), o \in eligible \ ToSet(a.rows) : ~Better(o, r)
       /\ Len(a.rows) = LET n == a.size - out IN IF top = 0 THEN n ELSE Min({n, top})
       /\ \A r \in ToSet(a.rows) : r.day <= a.vintage
       /\ a.vintage <= a.asOf

LEMMA ScreenIsFair ==
    ASSUME NEW universe, universe \subseteq Symbol,
           NEW bars, \A s \in universe : bars[s] \in Seq(DailyBar),
           NEW q, q.asOf \in Int, q.top \in Int, q.minBars \in Int, ScreenAccepts(q),
           Screen(bars, universe, q).status = "success"
    PROVE  LET a == Screen(bars, universe, q)
           IN FairScreen(a, q.top, Eligible(bars, universe, a.asOf, q))
<1>1. PICK a : a = Screen(bars, universe, q)
  OBVIOUS
<1> PICK eligible : eligible = Eligible(bars, universe, a.asOf, q)
  OBVIOUS
<1>2. PICK asOf, top : asOf = AsOf(bars, universe, q) /\ top = q.top
  OBVIOUS
<1>3. asOf \in Nat /\ top \in Nat
  <2>1. q.asOf >= 0 /\ top >= 0
    BY <1>2 DEF ScreenAccepts
  <2> QED  BY <1>2, <2>1, AsOfIsADay
<1>4. IsFiniteSet(universe) /\ Cardinality(universe) \in Nat
  <2>1. universe \in SUBSET Symbol
    OBVIOUS
  <2> QED  BY <2>1, CatalogAssumption, FS_Subset, FS_CardinalityType
<1>5. CASE q.asOf = 0 /\ asOf = 0
  <2>1. a = [status |-> "success", asOf |-> 0, vintage |-> 0, size |-> 0,
             excluded |-> [r \in Reasons |-> 0], rows |-> NoRow]
    BY <1>1, <1>2, <1>5 DEF Screen
  <2>2. /\ a.rows = <<>> /\ a.vintage = 0 /\ a.asOf = 0 /\ a.size = 0
        /\ \A r \in Reasons : a.excluded[r] = 0
    BY <2>1 DEF NoRow
  <2>3. PICK out : out = a.excluded["short_history"] + a.excluded["stale"] + a.excluded["min_price"]
                            + a.excluded["min_dollar_vol"] + a.excluded["vol_unavailable"]
    OBVIOUS
  <2>4. out = 0
    BY <2>2, <2>3 DEF Reasons
  <2>5. Min({0, top}) = 0
    <3>1. PICK zero : zero = 0
      OBVIOUS
    <3>2. Min({zero, top}) = IF zero <= top THEN zero ELSE top
      BY <1>3, <3>1, MinOfTwo
    <3> QED  BY <1>3, <3>1, <3>2
  <2>6. FairScreen(a, top, eligible)
    <3>1. DOMAIN a.rows = {} /\ Len(a.rows) = 0 /\ ToSet(a.rows) = {}
      BY <2>2 DEF ToSet
    <3>2. /\ ToSet(a.rows) \subseteq eligible
          /\ \A i, j \in DOMAIN a.rows : /\ Better(a.rows[i], a.rows[j]) => i < j
                                        /\ a.rows[i] = a.rows[j] => i = j
          /\ \A r \in ToSet(a.rows), o \in eligible \ ToSet(a.rows) : ~Better(o, r)
      BY <3>1
    <3>3. a.size - out = 0
      BY <2>2, <2>4
    <3>4. Len(a.rows) = IF top = 0 THEN a.size - out ELSE Min({a.size - out, top})
      BY <2>5, <3>1, <3>3
    <3>5. \A r \in ToSet(a.rows) : r.day <= a.vintage
      BY <3>1
    <3>6. a.vintage <= a.asOf
      BY <2>2
    <3> QED  BY <2>3, <3>2, <3>4, <3>5, <3>6, Zenon DEF FairScreen
  <2> QED  BY <1>1, <1>2, <2>6
<1>6. CASE ~(q.asOf = 0 /\ asOf = 0)
  <2> DEFINE x == [s \in universe |-> UpTo(bars[s], asOf)]
             out(reason) == {s \in universe : Excluded(x[s], asOf, q) = reason}
             C == {Candidate(s, x[s]) : s \in out("none")}
             why == [s \in universe |-> Excluded(x[s], asOf, q)]
  <2>1. a = [status |-> "success", asOf |-> asOf, vintage |-> Newest(DaysIn(x, universe)),
             size |-> Cardinality(universe),
             excluded |-> [r \in Reasons |-> Cardinality(out(r))],
             rows |-> Cut(Ranked(C), top)]
    <3>1. a.status # "error"
      BY <1>1
    <3>2. Failed("error").status = "error"
      BY DEF Failed
    <3> QED  BY <1>1, <1>2, <1>6, <3>1, <3>2, Zenon DEF Screen
  <2>2. /\ \A s \in universe : x[s] \in Seq(DailyBar)
        /\ Newest(DaysIn(x, universe)) <= asOf
        /\ \A s \in universe : \A i \in DOMAIN x[s] : x[s][i].day <= Newest(DaysIn(x, universe))
    BY <1>3, DaysUpTo
  <2>3. \A r : out(r) = Out(universe, why, r)
    BY DEF Out
  <2>4. why \in [universe -> Reasons \cup {"none"}]
    BY DEF Excluded, Reasons
  <2> HIDE DEF x
  <2>5. /\ Candidates(C) /\ Cardinality(C) = Cardinality(out("none"))
        /\ \A r \in C : \E s \in universe : \E i \in DOMAIN x[s] : r.day = x[s][i].day
    <3>1. C = MeasuresOf(x, out("none")) /\ out("none") = NotOut(universe, x, asOf, q)
      BY DEF MeasuresOf, NotOut
    <3> HIDE DEF C, out
    <3>2. Candidates(MeasuresOf(x, NotOut(universe, x, asOf, q)))
      BY <1>3, <2>2, CandidatesAre
    <3>3. Cardinality(MeasuresOf(x, NotOut(universe, x, asOf, q))) =
             Cardinality(NotOut(universe, x, asOf, q))
      BY <1>3, <2>2, CandidatesAre
    <3>4. \A r \in MeasuresOf(x, NotOut(universe, x, asOf, q)) :
             \E s \in universe : \E i \in DOMAIN x[s] : r.day = x[s][i].day
      BY <1>3, <2>2, CandidatesAre
    <3> QED  BY <3>1, <3>2, <3>3, <3>4
  <2> HIDE DEF C, out, why
  <2>6. /\ Ranked(C) \in Seq(C) /\ Len(Ranked(C)) = Cardinality(C)
    BY <2>5, RankedInOrder
  <2>7. /\ Cut(Ranked(C), top) \in Seq(C)
        /\ Len(Cut(Ranked(C), top)) = IF top = 0 THEN Len(Ranked(C)) ELSE Min({Len(Ranked(C)), top})
        /\ \A i \in DOMAIN Cut(Ranked(C), top) :
              i \in DOMAIN Ranked(C) /\ Cut(Ranked(C), top)[i] = Ranked(C)[i]
    BY <1>3, <2>6, CutIs
  <2>8. /\ a.rows = Cut(Ranked(C), top) /\ a.asOf = asOf /\ a.size = Cardinality(universe)
        /\ a.vintage = Newest(DaysIn(x, universe))
        /\ \A r \in Reasons : a.excluded[r] = Cardinality(out(r))
    BY <2>1
  <2>9. \A i, j \in DOMAIN a.rows : /\ Better(a.rows[i], a.rows[j]) => i < j
                                    /\ a.rows[i] = a.rows[j] => i = j
    BY <2>5, <2>7, <2>8, RanksBetterFirst, RanksOnce
  <2>10. Cardinality(out("none")) = a.size
            - (a.excluded["short_history"] + a.excluded["stale"] + a.excluded["min_price"]
                  + a.excluded["min_dollar_vol"] + a.excluded["vol_unavailable"])
    <3>1. Cardinality(Out(universe, why, "none")) = Cardinality(universe)
                    - (Cardinality(Out(universe, why, "short_history")) + Cardinality(Out(universe, why, "stale"))
                          + Cardinality(Out(universe, why, "min_price"))
                          + Cardinality(Out(universe, why, "min_dollar_vol"))
                          + Cardinality(Out(universe, why, "vol_unavailable")))
      BY <1>4, <2>4, EveryoneIsAccounted
    <3>2. /\ a.excluded["short_history"] = Cardinality(Out(universe, why, "short_history"))
          /\ a.excluded["stale"] = Cardinality(Out(universe, why, "stale"))
          /\ a.excluded["min_price"] = Cardinality(Out(universe, why, "min_price"))
          /\ a.excluded["min_dollar_vol"] = Cardinality(Out(universe, why, "min_dollar_vol"))
          /\ a.excluded["vol_unavailable"] = Cardinality(Out(universe, why, "vol_unavailable"))
      BY <2>3, <2>8 DEF Reasons
    <3> QED  BY <2>3, <2>8, <3>1, <3>2
  <2>11. \A r \in ToSet(a.rows) : r.day <= a.vintage
    <3> TAKE r \in ToSet(a.rows)
    <3>1. r \in C
      BY <2>7, <2>8 DEF ToSet
    <3> QED  BY <2>2, <2>5, <2>8, <3>1
  <2>12. eligible = C
    BY <2>8 DEF Eligible, C, out, x
  <2>13. /\ ToSet(a.rows) \subseteq eligible
         /\ \A r \in ToSet(a.rows), o \in eligible \ ToSet(a.rows) : ~Better(o, r)
    <3>1. ToSet(a.rows) \subseteq eligible
      BY <2>7, <2>8, <2>12 DEF ToSet
    <3> QED  BY <1>3, <2>5, <2>8, <2>12, <3>1, CutKeepsTheBest
  <2>14. FairScreen(a, top, eligible)
    BY <2>2, <2>5, <2>6, <2>7, <2>8, <2>9, <2>10, <2>11, <2>13, Zenon DEF FairScreen
  <2> QED  BY <1>1, <1>2, <2>14
<1> QED  BY <1>5, <1>6

-----------------------------------------------------------------------------
(* signals current: the cells of a strategy are those of its frame.         *)

\* What a rotation's plan is a row later; k has its frame, its gate and its start.
PlanRow(k, before, i) ==
    IF i = 0 THEN [held |-> {}, entry |-> {}, exit |-> {}]
    ELSE IF i \in Schedule(k.f, k.start)
         THEN Rebalanced(k.f, k.gate, SeedRow(k.f, k.start), before, i)
    ELSE before
PlanByRow(g, k, n) == g = [i \in 0..n |-> PlanRow(k, g[i - 1], i)]

\* There is such a plan: the first row that would have none has one.
LEMMA PlansExist ==
    ASSUME NEW k, NEW n \in Nat
    PROVE  \E g : PlanByRow(g, k, n)
<1> SUFFICES \E g : g = [i \in 0..n |-> PlanRow(k, g[i - 1], i)]
  BY Zenon DEF PlanByRow
<1> DEFINE T == {m \in Nat : ~ \E g : g = [i \in 0..m |-> PlanRow(k, g[i - 1], i)]}
<1> SUFFICES ASSUME T # {} PROVE FALSE
  OBVIOUS
<1>1. PICK m \in T : \A j \in T : m <= j
  <2>1. T \subseteq Nat
    OBVIOUS
  <2> HIDE DEF T
  <2> QED  BY <2>1, LeastNat
<1>2. m \in Nat
  OBVIOUS
<1>3. CASE m = 0
  <2> DEFINE z == PlanRow(k, 0, 0)
             g == [i \in 0..0 |-> z]
  <2>1. PlanRow(k, g[0 - 1], 0) = z
    BY DEF PlanRow
  <2>2. \A i \in 0..0 : i = 0
    OBVIOUS
  <2> HIDE DEF z
  <2>3. g = [i \in 0..0 |-> PlanRow(k, g[i - 1], i)]
    BY <2>1, <2>2
  <2> QED  BY <1>1, <1>3, <2>3
<1>4. CASE m # 0
  <2>1. m - 1 \in Nat /\ m - 1 \notin T
    <3>1. m - 1 \in Nat /\ ~(m <= m - 1)
      BY <1>2, <1>4
    <3> HIDE DEF T
    <3> QED  BY <1>1, <3>1
  <2>2. PICK g : g = [i \in 0..(m - 1) |-> PlanRow(k, g[i - 1], i)]
    BY <2>1
  <2> DEFINE h == [i \in 0..m |-> IF i = m THEN PlanRow(k, g[m - 1], m) ELSE g[i]]
  <2>3. ASSUME NEW i \in 0..m
        PROVE  h[i] = PlanRow(k, h[i - 1], i)
    <3>1. CASE i = m
      <4>1. m - 1 # m /\ m - 1 \in 0..m /\ m \in 0..m
        BY <1>2, <1>4
      <4>2. h[m] = PlanRow(k, g[m - 1], m) /\ h[m - 1] = g[m - 1]
        BY <4>1, Zenon
      <4> QED  BY <3>1, <4>1, <4>2, Zenon
    <3>2. CASE i # m
      <4>1. i \in 0..(m - 1)
        BY <1>2, <3>2
      <4>2. h[i] = g[i] /\ g[i] = PlanRow(k, g[i - 1], i)
        BY <2>2, <3>2, <4>1, Zenon
      <4>3. CASE i = 0
        <5>1. \A x, y : PlanRow(k, x, 0) = PlanRow(k, y, 0)
          BY DEF PlanRow
        <5>2. g[0] = PlanRow(k, g[0 - 1], 0) /\ h[0] = g[0]
          BY <4>2, <4>3
        <5>3. h[0] = PlanRow(k, h[0 - 1], 0)
          BY <5>1, <5>2, Zenon
        <5> QED  BY <4>3, <5>3, Zenon
      <4>4. CASE i # 0
        <5>1. i - 1 \in 0..m /\ i - 1 # m
          BY <1>2, <3>2, <4>4
        <5>2. h[i - 1] = g[i - 1]
          BY <5>1, Zenon
        <5> QED  BY <4>2, <5>2
      <4> QED  BY <4>3, <4>4
    <3> QED  BY <3>1, <3>2
  <2>4. h = [i \in 0..m |-> h[i]]
    OBVIOUS
  <2> HIDE DEF h
  <2>5. h = [i \in 0..m |-> PlanRow(k, h[i - 1], i)]
    BY <2>3, <2>4, Zenon
  <2> QED  BY <1>1, <2>5
<1> QED  BY <1>3, <1>4

\* A set of numbers has a first one.
LEMMA FirstIsFirst ==
    ASSUME NEW S, S \subseteq Nat, S # {}
    PROVE  Min(S) \in S /\ \A x \in S : Min(S) <= x
<1>1. PICK n \in S : \A m \in S : n <= m
  BY LeastNat
<1> QED  BY <1>1, Zenon DEF Min

LEMMA SeedIsARow ==
    ASSUME NEW f, NEW start, NEW n \in Nat, Rows(f) = 1..n
    PROVE  SeedRow(f, start) \in 0..n /\ Schedule(f, start) \subseteq 1..n
<1> DEFINE rows == {i \in Rows(f) : f.days[i] >= start}
<1>1. SeedRow(f, start) = IF rows = {} THEN 0 ELSE Min(rows)
  BY DEF SeedRow
<1>2. SeedRow(f, start) \in 0..n
  <2>1. rows \subseteq 1..n /\ rows \subseteq Nat
    OBVIOUS
  <2>2. CASE rows = {}
    BY <1>1, <2>2
  <2>3. CASE rows # {}
    <3>1. Min(rows) \in rows
      <4> HIDE DEF rows
      <4> QED  BY <2>1, <2>3, FirstIsFirst
    <3>2. SeedRow(f, start) = Min(rows)
      BY <1>1, <2>3
    <3>3. SeedRow(f, start) \in 1..n
      <4> HIDE DEF rows
      <4> QED  BY <2>1, <3>1, <3>2
    <3> QED  BY <3>3
  <2> QED  BY <2>2, <2>3
<1> QED  BY <1>2 DEF Schedule

\* A rotation's plan is built row by row.
LEMMA PlansByRow ==
    ASSUME NEW f, NEW gate, NEW start, Len(f.days) \in Nat
    PROVE  LET plan == RotationPlans(f, gate, start) IN
           /\ plan[0] = [held |-> {}, entry |-> {}, exit |-> {}]
           /\ \A i \in 1..Len(f.days) :
                 plan[i] = IF i \in Schedule(f, start)
                           THEN Rebalanced(f, gate, SeedRow(f, start), plan[i - 1], i) ELSE plan[i - 1]
<1> DEFINE k == [f |-> f, gate |-> gate, start |-> start]
           n == Len(f.days)
           plan == RotationPlans(f, gate, start)
           Row(x, i) == IF i = 0 THEN [held |-> {}, entry |-> {}, exit |-> {}]
                        ELSE IF i \in Schedule(f, start)
                             THEN Rebalanced(f, gate, SeedRow(f, start), x, i)
                        ELSE x
<1>1. \A x, i : PlanRow(k, x, i) = Row(x, i)
  BY DEF PlanRow
<1>2. plan = CHOOSE g : g = [i \in 0..n |-> Row(g[i - 1], i)]
  BY Zenon DEF RotationPlans
<1> HIDE DEF k, n, plan, Row
<1>0. n \in Nat
  BY DEF n
<1>3a. PICK g : PlanByRow(g, k, n)
  BY <1>0, PlansExist
<1>3. g = [i \in 0..n |-> PlanRow(k, g[i - 1], i)]
  BY <1>3a DEF PlanByRow
<1>4. g = [i \in 0..n |-> Row(g[i - 1], i)]
  BY <1>1, <1>3
<1>5. plan = [i \in 0..n |-> Row(plan[i - 1], i)]
  BY <1>2, <1>4, Zenon
<1>6. 0 \in 0..n /\ \A i \in 1..n : i \in 0..n /\ i # 0
  BY DEF n
<1>7. plan[0] = Row(plan[0 - 1], 0) /\ \A i \in 1..n : plan[i] = Row(plan[i - 1], i)
  BY <1>5, <1>6
<1>8. plan[0] = [held |-> {}, entry |-> {}, exit |-> {}]
  BY <1>7 DEF Row
<1>9. ASSUME NEW i \in 1..n
      PROVE  plan[i] = IF i \in Schedule(f, start)
                       THEN Rebalanced(f, gate, SeedRow(f, start), plan[i - 1], i) ELSE plan[i - 1]
  BY <1>6, <1>7 DEF Row
<1> QED  BY <1>8, <1>9 DEF plan, n

LEMMA TargetsAreColumns ==
    ASSUME NEW f, NEW gate, NEW i
    PROVE  Target(f, gate, i) \subseteq Cols(f)
<1> QED  BY DEF Target, Wanted, Tradable

PlanFits(p, cols, n) ==
    p.held \subseteq cols /\ p.entry \subseteq cols \X (1..n) /\ p.exit \subseteq cols \X (1..n)

\* A plan enters and exits columns of the frame on its rows.
LEMMA PlanIsOfTheFrame ==
    ASSUME NEW f, NEW gate, NEW start, NEW n \in Nat, Len(f.days) = n, Rows(f) = 1..n
    PROVE  \A m \in 0..n : PlanFits(RotationPlans(f, gate, start)[m], Cols(f), n)
<1> DEFINE plan == RotationPlans(f, gate, start)
           seed == SeedRow(f, start)
           C == Cols(f)
<1>1. Schedule(f, start) \subseteq 1..n
  BY SeedIsARow
<1>2. /\ plan[0] = [held |-> {}, entry |-> {}, exit |-> {}]
      /\ \A i \in 1..n : plan[i] = IF i \in Schedule(f, start)
                                   THEN Rebalanced(f, gate, seed, plan[i - 1], i) ELSE plan[i - 1]
  BY PlansByRow
<1> HIDE DEF plan, seed, C
<1>3. ASSUME NEW i \in 1..n, PlanFits(plan[i - 1], C, n)
      PROVE  PlanFits(plan[i], C, n)
  <2> DEFINE p == plan[i - 1]
             wanted == Target(f, gate, i)
             held == IF i = seed THEN {} ELSE p.held
             q == Rebalanced(f, gate, seed, p, i)
  <2>1. wanted \subseteq C
    BY TargetsAreColumns DEF C
  <2>2. /\ q.held = wanted /\ q.entry = p.entry \cup ((wanted \ held) \X {i})
        /\ q.exit = p.exit \cup ((held \ wanted) \X {i})
    BY DEF Rebalanced
  <2>3. plan[i] = q \/ plan[i] = p
    BY <1>2
  <2>4. PlanFits(p, C, n)
    BY <1>3
  <2> HIDE DEF p, wanted, q
  <2>5. held \subseteq C
    BY <2>4 DEF PlanFits
  <2> HIDE DEF held
  <2>6. PlanFits(q, C, n)
    BY <2>1, <2>2, <2>4, <2>5 DEF PlanFits
  <2> QED  BY <2>3, <2>4, <2>6
<1>4. \A m \in 0..n : PlanFits(plan[m], C, n)
  <2> DEFINE T == {m \in 0..n : ~PlanFits(plan[m], C, n)}
  <2> SUFFICES ASSUME T # {} PROVE FALSE
    OBVIOUS
  <2>1. PICK m \in T : \A k \in T : m <= k
    <3>1. T \subseteq Nat
      OBVIOUS
    <3> HIDE DEF T
    <3> QED  BY <3>1, LeastNat
  <2>2. m \in 0..n /\ ~PlanFits(plan[m], C, n)
    OBVIOUS
  <2>3. CASE m = 0
    <3>1. PlanFits(plan[0], C, n)
      BY <1>2 DEF PlanFits
    <3> QED  BY <2>2, <2>3, <3>1
  <2>4. CASE m # 0
    <3>1. m \in 1..n /\ m - 1 \in 0..n /\ ~(m <= m - 1)
      BY <2>2, <2>4
    <3>2. PlanFits(plan[m - 1], C, n)
      <4>1. m - 1 \notin T
        <5> HIDE DEF T
        <5> QED  BY <2>1, <3>1
      <4> QED  BY <3>1, <4>1
    <3> QED  BY <1>3, <2>2, <3>1, <3>2
  <2> QED  BY <2>3, <2>4
<1> QED  BY <1>4 DEF plan, C

LEMMA RotationIsOfTheFrame ==
    ASSUME NEW f, NEW gate, NEW start, NEW n \in Nat, Len(f.days) = n, Rows(f) = 1..n
    PROVE  /\ RotationPlan(f, gate, start).entry \subseteq Cols(f) \X (1..n)
           /\ RotationPlan(f, gate, start).exit \subseteq Cols(f) \X (1..n)
<1> DEFINE plan == RotationPlans(f, gate, start)[n]
<1>1. PlanFits(plan, Cols(f), n)
  BY PlanIsOfTheFrame
<1>2. /\ RotationPlan(f, gate, start).entry \subseteq plan.entry
      /\ RotationPlan(f, gate, start).exit = plan.exit
  BY DEF RotationPlan
<1> HIDE DEF plan
<1> QED  BY <1>1, <1>2 DEF PlanFits

\* The cells that a strategy other than the rotation enters and exits.
Enters(strategy, f, benchmark, s, i) ==
    \/ strategy = "sma-cross" /\ CrossEntry(f.close[s], i)
    \/ strategy = "naive-dip" /\ DipEntry(f.close[s], i)
    \/ strategy = "buy-red" /\ BuyRedEntry(f, s, i)
    \/ strategy = "trend-pullback" /\ i \in Gate(f, benchmark, FALSE) /\ PullbackEntry(f, s, i)

LEMMA CellsOfTheFrame ==
    ASSUME NEW f, NEW benchmark, NEW start, NEW n \in Nat, Len(f.days) = n, Rows(f) = 1..n,
           NEW strategy \in Builtin
    PROVE  LET signals == Generate(strategy, f, benchmark, start) IN
           /\ signals.entry \subseteq Cols(f) \X (1..n) /\ signals.exit \subseteq Cols(f) \X (1..n)
           /\ strategy # "momentum-rotation" =>
                 \A s \in Cols(f), i \in 1..n :
                    <<s, i>> \in signals.entry <=> Enters(strategy, f, benchmark, s, i)
<1> DEFINE C == Cols(f)
           signals == Generate(strategy, f, benchmark, start)
<1>0. \A s \in C, i \in 1..n : <<s, i>> \in C \X (1..n)
  OBVIOUS
<1> SUFFICES /\ signals.entry \subseteq C \X (1..n) /\ signals.exit \subseteq C \X (1..n)
             /\ strategy # "momentum-rotation" =>
                   \A s \in C, i \in 1..n :
                      <<s, i>> \in signals.entry <=> Enters(strategy, f, benchmark, s, i)
  OBVIOUS
<1>1. CASE strategy = "sma-cross"
  <2>1. /\ signals.entry = {x \in C \X (1..n) : CrossEntry(f.close[x[1]], x[2])}
        /\ signals.exit = {x \in C \X (1..n) : CrossExit(f.close[x[1]], x[2])}
    BY <1>1 DEF Generate, Cells
  <2> HIDE DEF C, signals
  <2>2. \A s, i : Enters(strategy, f, benchmark, s, i) <=> CrossEntry(f.close[s], i)
    BY <1>1 DEF Enters
  <2> QED  BY <1>0, <2>1, <2>2
<1>2. CASE strategy = "naive-dip"
  <2>1. /\ signals.entry = {x \in C \X (1..n) : DipEntry(f.close[x[1]], x[2])}
        /\ signals.exit = {x \in C \X (1..n) : DipExit(f.close[x[1]], x[2])}
    BY <1>2 DEF Generate, Cells
  <2> HIDE DEF C, signals
  <2>2. \A s, i : Enters(strategy, f, benchmark, s, i) <=> DipEntry(f.close[s], i)
    BY <1>2 DEF Enters
  <2> QED  BY <1>0, <2>1, <2>2
<1>3. CASE strategy = "buy-red"
  <2>1. /\ signals.entry = {x \in C \X (1..n) : BuyRedEntry(f, x[1], x[2])}
        /\ signals.exit = {x \in C \X (1..n) : BuyRedExit(f, x[1], x[2])}
    BY <1>3 DEF Generate, Cells
  <2> HIDE DEF C, signals
  <2>2. \A s, i : Enters(strategy, f, benchmark, s, i) <=> BuyRedEntry(f, s, i)
    BY <1>3 DEF Enters
  <2> QED  BY <1>0, <2>1, <2>2
<1>4. CASE strategy = "trend-pullback"
  <2> DEFINE gate == Gate(f, benchmark, FALSE)
  <2>1. /\ signals.entry = {x \in C \X (1..n) : x[2] \in gate /\ PullbackEntry(f, x[1], x[2])}
        /\ signals.exit = {x \in C \X (1..n) : PullbackExit(f.close[x[1]], x[2])}
    BY <1>4 DEF Generate, Cells
  <2>2. \A s, i : Enters(strategy, f, benchmark, s, i) <=> i \in gate /\ PullbackEntry(f, s, i)
    BY <1>4 DEF Enters
  <2> HIDE DEF C, signals, gate
  <2> QED  BY <1>0, <2>1, <2>2
<1>5. CASE strategy = "momentum-rotation"
  <2> DEFINE gate == Gate(f, benchmark, FALSE)
  <2>1. signals = RotationPlan(f, gate, start)
    BY <1>5, Zenon DEF Generate
  <2> HIDE DEF signals, gate
  <2> QED  BY <1>5, <2>1, RotationIsOfTheFrame
<1> QED  BY <1>1, <1>2, <1>3, <1>4, <1>5 DEF Builtin

-----------------------------------------------------------------------------
(* signals current: the frame of the bars up to asOf.                       *)

\* What FrameOf puts in a cell, by the part of a bar.
BarsOn(bars, d) == {b \in ToSet(bars) : b.day = d}
CellOf(bars, d, part) == IF BarsOn(bars, d) = {} THEN NaN ELSE (CHOOSE b \in BarsOn(bars, d) : TRUE)[part]
ColumnsOf(x) == {s \in DOMAIN x : x[s] # <<>>}

\* A frame of n rows whose cells are those of the bars x, none of them after asOf.
FrameFits(f, x, asOf, n) ==
    /\ n \in Nat \ {0} /\ Len(f.days) = n /\ Rows(f) = 1..n
    /\ \A i \in 1..n : f.days[i] \in Nat /\ f.days[i] <= asOf
    /\ \A i, j \in 1..n : i < j => f.days[i] < f.days[j]
    /\ f.cols \in Seq(Cols(f)) /\ Cols(f) \subseteq DOMAIN x
    /\ \A s \in Cols(f) : f.close[s] \in [1..n -> Price]
    /\ \A s \in Cols(f), i \in 1..n : f.low[s][i] = CellOf(x[s], f.days[i], "low")

LEMMA CellIsAPrice ==
    ASSUME NEW bars \in Seq(DailyBar), NEW d, NEW part \in {"close", "low"}
    PROVE  CellOf(bars, d, part) \in Price
<1> PICK B : B = BarsOn(bars, d)
  OBVIOUS
<1>1. CASE B = {}
  BY <1>1 DEF CellOf, Price
<1>2. CASE B # {}
  <2>1. PICK found : found = CHOOSE b \in B : TRUE
    OBVIOUS
  <2>2. found \in B
    BY <1>2, <2>1, Zenon
  <2>3. found \in DailyBar
    BY <2>2 DEF BarsOn, ToSet
  <2>4. CellOf(bars, d, part) = found[part]
    BY <1>2, <2>1, Zenon DEF CellOf
  <2>5. found["close"] \in Nat /\ found["low"] \in Nat
    BY <2>3 DEF DailyBar
  <2> QED  BY <2>4, <2>5 DEF Price
<1> QED  BY <1>1, <1>2

\* A cell of 0 is that of a bar.
LEMMA ZeroIsABar ==
    ASSUME NEW bars, NEW d, CellOf(bars, d, "low") = 0
    PROVE  \E b \in ToSet(bars) : b.day = d /\ b.low = 0
<1> PICK B : B = BarsOn(bars, d)
  OBVIOUS
<1>1. B # {}
  BY DEF CellOf, NaN
<1>2. PICK found : found = CHOOSE b \in B : TRUE
  OBVIOUS
<1>3. found \in B
  BY <1>1, <1>2, Zenon
<1>4. CellOf(bars, d, "low") = found["low"]
  BY <1>1, <1>2, Zenon DEF CellOf
<1> QED  BY <1>3, <1>4 DEF BarsOn

LEMMA FrameIs ==
    ASSUME NEW universe, universe \subseteq Symbol, NEW x, DOMAIN x = universe,
           \A s \in universe : x[s] \in Seq(DailyBar), NEW asOf \in Nat,
           \A day \in DaysIn(x, universe) : day <= asOf, ColumnsOf(x) # {}
    PROVE  \E n : FrameFits(FrameOf(x), x, asOf, n)
<1> DEFINE cols == ColumnsOf(x)
           D == DaysIn(x, cols)
           days == Ascending(D)
           f == FrameOf(x)
<1>1. cols \subseteq universe /\ cols # {}
  BY DEF ColumnsOf
<1>2. f = [cols |-> Ascending(cols), days |-> days,
           close |-> [s \in cols |-> [i \in DOMAIN days |-> CellOf(x[s], days[i], "close")]],
           high |-> [s \in cols |-> [i \in DOMAIN days |-> CellOf(x[s], days[i], "high")]],
           low |-> [s \in cols |-> [i \in DOMAIN days |-> CellOf(x[s], days[i], "low")]]]
  BY DEF FrameOf, CellOf, BarsOn, ColumnsOf
<1> HIDE DEF cols, f
<1>3. D \subseteq Day /\ IsFiniteSet(D)
  <2>1. \A s \in cols : x[s] \in Seq(DailyBar)
    BY <1>1
  <2> QED  BY <2>1, DaysAreDays
<1>4. D \subseteq Nat /\ \A d \in D : d <= asOf
  <2>1. D \subseteq DaysIn(x, universe)
    BY <1>1 DEF DaysIn
  <2> QED  BY <1>3, <2>1, DayIsPositive
<1>5. D # {}
  <2>1. PICK s \in cols : TRUE
    BY <1>1
  <2>2. x[s] \in Seq(DailyBar) /\ x[s] # <<>>
    BY <1>1, <2>1 DEF cols, ColumnsOf
  <2>3. 1 \in DOMAIN x[s]
    BY <2>2
  <2>4. x[s][1].day \in D
    BY <2>1, <2>3 DEF DaysIn, ToSet
  <2> QED  BY <2>4
<1> HIDE DEF D
<1>6. Lists(days, D) /\ ToSet(days) = D /\ \A i \in DOMAIN days : days[i] \in D
  <2>1. Lists(days, D)
    BY <1>3, <1>4, AscendingLists
  <2> HIDE DEF days
  <2> QED  BY <2>1, ListRange
<1>7. Lists(Ascending(cols), cols)
  <2>1. cols \in SUBSET Symbol
    BY <1>1
  <2>2. cols \subseteq Nat /\ IsFiniteSet(cols)
    BY <2>1, CatalogAssumption, FS_Subset
  <2> QED  BY <2>2, AscendingLists
<1>8. PICK n : n = Len(days)
  OBVIOUS
<1>9. n \in Nat /\ DOMAIN days = 1..n /\ n # 0
  <2>1. Len(days) \in Nat /\ DOMAIN days = 1..Len(days)
    BY <1>6 DEF Lists
  <2>2. \E i \in DOMAIN days : TRUE
    BY <1>5, <1>6 DEF Lists
  <2> QED  BY <1>8, <2>1, <2>2
<1> HIDE DEF days
<1>10. /\ Rows(f) = 1..n /\ Len(f.days) = n /\ Cols(f) = cols /\ f.days = days
       /\ f.cols = Ascending(cols)
  BY <1>2, <1>8, <1>9 DEF Rows, Cols
<1>11. \A i \in 1..n : f.days[i] \in Nat /\ f.days[i] <= asOf
  BY <1>4, <1>6, <1>9, <1>10
<1>12. \A i, j \in 1..n : i < j => f.days[i] < f.days[j]
  BY <1>6, <1>9, <1>10 DEF Lists
<1>13. f.cols \in Seq(Cols(f)) /\ Cols(f) \subseteq DOMAIN x
  BY <1>1, <1>7, <1>10 DEF Lists
<1>14. ASSUME NEW s \in Cols(f) PROVE f.close[s] \in [1..n -> Price]
  <2>1. f.close[s] = [i \in 1..n |-> CellOf(x[s], days[i], "close")]
    BY <1>2, <1>9, <1>10
  <2>2. x[s] \in Seq(DailyBar)
    BY <1>1, <1>10
  <2>3. \A i \in 1..n : CellOf(x[s], days[i], "close") \in Price
    BY <2>2, CellIsAPrice
  <2> QED  BY <2>1, <2>3
<1>15. ASSUME NEW s \in Cols(f), NEW i \in 1..n
       PROVE  f.low[s][i] = CellOf(x[s], f.days[i], "low")
  BY <1>2, <1>9, <1>10
<1>16. n \in Nat \ {0} /\ Len(f.days) = n /\ Rows(f) = 1..n
  BY <1>9, <1>10
<1>17. FrameFits(f, x, asOf, n)
  BY <1>11, <1>12, <1>13, <1>14, <1>15, <1>16 DEF FrameFits
<1> QED  BY <1>17 DEF f

-----------------------------------------------------------------------------
(* signals current: a row's status, its last entry and its legs.            *)

LEMMA EntriesAreKnown ==
    ASSUME NEW f, NEW x, NEW asOf, NEW n, FrameFits(f, x, asOf, n), NEW strategy, NEW benchmark,
           NEW s \in Cols(f), NEW i \in 1..n, Enters(strategy, f, benchmark, s, i)
    PROVE  Known(f.close[s][i])
<1> DEFINE c == f.close[s]
<1>1. n \in Nat /\ c \in [1..n -> Price]
  BY DEF FrameFits
<1> HIDE DEF c
<1>2. CASE CrossEntry(c, i)
  BY <1>2 DEF CrossEntry, c
<1>3. CASE DipEntry(c, i)
  <2>1. Known(Highest(c, i, Trail))
    BY <1>3 DEF DipEntry
  <2>2. Full(c, i, Trail)
    BY <2>1 DEF Highest, Known
  <2>3. Trail \in Nat \ {0}
    BY StrategyAssumption
  <2>4. i >= Trail /\ \A v \in ToSet(Window(c, i, Trail)) : Known(v)
    BY <2>2 DEF Full
  <2>5. PICK t : t = Trail
    OBVIOUS
  <2>6. Window(c, i, t) = [k \in 1..(1 + i - (i - t + 1)) |-> c[k + (i - t + 1) - 1]]
    BY <2>3, <2>5 DEF Window, SubSeq
  <2>7. PICK w : w = Window(c, i, t)
    OBVIOUS
  <2>8. 1 + i - (i - t + 1) = t /\ t \in 1..t /\ t + (i - t + 1) - 1 = i
    BY <2>3, <2>5
  <2>9. DOMAIN w = 1..t /\ w[t] = c[i]
    BY <2>6, <2>7, <2>8
  <2>10. c[i] \in ToSet(w)
    BY <2>8, <2>9 DEF ToSet
  <2> QED  BY <2>4, <2>5, <2>7, <2>10 DEF c
<1>4. CASE BuyRedEntry(f, s, i)
  BY <1>4 DEF BuyRedEntry, Above
<1>5. CASE PullbackEntry(f, s, i)
  BY <1>5 DEF PullbackEntry, Above
<1> QED  BY <1>2, <1>3, <1>4, <1>5 DEF Enters, c

\* The newest of a column's cells is dated asOf when it is on the last row and that row is.
LEMMA LastOfCells ==
    ASSUME NEW f, NEW x, NEW asOf \in Nat \ {0}, NEW n, FrameFits(f, x, asOf, n),
           NEW cells, cells \subseteq Cols(f) \X (1..n), NEW s
    PROVE  LastOf(cells, f, s) = asOf <=> <<s, n>> \in cells /\ f.days[n] = asOf
<1> DEFINE own == {y \in cells : y[1] = s}
           D == {f.days[y[2]] : y \in own}
<1>1. /\ n \in Nat \ {0}
      /\ \A i \in 1..n : f.days[i] \in Nat /\ f.days[i] <= asOf
      /\ \A i, j \in 1..n : i < j => f.days[i] < f.days[j]
  BY DEF FrameFits
<1>2. LastOf(cells, f, s) = Newest(D)
  BY DEF LastOf
<1>3. \A y \in own : y[2] \in 1..n /\ y = <<s, y[2]>>
  OBVIOUS
<1> HIDE DEF own
<1>4. D \subseteq 0..asOf
  BY <1>1, <1>3
<1>5. D \subseteq Nat /\ IsFiniteSet(D)
  <2>1. IsFiniteSet(0..asOf)
    BY FS_Interval
  <2> HIDE DEF D
  <2>2. D \in SUBSET (0..asOf)
    BY <1>4
  <2>3. IsFiniteSet(D)
    BY <2>1, <2>2, FS_Subset
  <2>4. 0..asOf \subseteq Nat
    OBVIOUS
  <2> QED  BY <1>4, <2>3, <2>4
<1>6. ASSUME Newest(D) = asOf PROVE <<s, n>> \in cells /\ f.days[n] = asOf
  <2>1. D # {}
    BY <1>6 DEF Newest
  <2>2. asOf \in D
    <3> HIDE DEF D
    <3> QED  BY <1>5, <1>6, <2>1, LastIsLast DEF Newest
  <2>3. PICK y \in own : f.days[y[2]] = asOf
    BY <2>2
  <2>4. y[2] \in 1..n
    BY <1>3
  <2>5. ~(y[2] < n)
    <3>1. ASSUME y[2] < n PROVE FALSE
      <4>1. f.days[y[2]] < f.days[n] /\ f.days[n] <= asOf /\ f.days[n] \in Nat
        BY <1>1, <2>4, <3>1
      <4> QED  BY <2>3, <4>1
    <3> QED  BY <3>1
  <2>6. y[2] = n
    BY <1>1, <2>4, <2>5
  <2> QED  BY <1>3, <2>3, <2>6 DEF own
<1>7. ASSUME <<s, n>> \in cells, f.days[n] = asOf PROVE Newest(D) = asOf
  <2>1. <<s, n>> \in own
    BY <1>7 DEF own
  <2>2. asOf \in D
    BY <1>7, <2>1
  <2> HIDE DEF D
  <2>3. Max(D) \in D /\ asOf <= Max(D)
    BY <1>5, <2>2, LastIsLast
  <2>4. Max(D) = asOf
    <3>1. PICK top : top = Max(D)
      OBVIOUS
    <3>2. top \in D /\ asOf <= top
      BY <2>3, <3>1
    <3>3. top \in 0..asOf
      BY <1>4, <3>2
    <3>4. top = asOf
      BY <3>2, <3>3
    <3> QED  BY <3>1, <3>4
  <2> QED  BY <2>2, <2>4 DEF Newest
<1> QED  BY <1>2, <1>6, <1>7

\* buy-red enters when all its legs are shown; a level of 0 at a low of 0 shows no touch.
LEMMA BuyRedShows ==
    ASSUME UseVov, NEW f, NEW s, NEW i, f.low[s][i] \in Price
    PROVE  /\ BuyRedLegs(f, s, i) = BuyRedShown => BuyRedEntry(f, s, i)
           /\ BuyRedEntry(f, s, i) =>
                 \/ BuyRedLegs(f, s, i) = BuyRedShown
                 \/ f.low[s][i] = 0 /\ BuyRedLegs(f, s, i) = BuyRedShown \ {"touch_ok"}
<1> DEFINE c == f.close[s]
           low == f.low[s][i]
           legs == BuyRedLegs(f, s, i)
<1>1. /\ legs \subseteq BuyRedShown
      /\ "above_fast" \in legs <=> Above(c[i], Mean(c, i, Short))
      /\ "above_slow" \in legs <=> Above(c[i], Mean(c, i, Long))
      /\ "dist_lo_ok" \in legs <=> /\ Known(c[i]) /\ Known(Lowest(c, i, Trail))
                                   /\ 100 * c[i] > 110 * Lowest(c, i, Trail)
      /\ "drawdown_ok" \in legs <=> Shallow(c, i)
      /\ "vov_ok" \in legs <=> Compressed(c, i)
      /\ "touch_ok" \in legs <=> /\ Known(low)
                                 /\ BuyLevel(c, i) # 0 /\ AtMost(low, BuyLevel(c, i))
  BY DEF BuyRedLegs, BuyRedShown
<1>2. BuyRedEntry(f, s, i) <=>
         /\ Above(c[i], Mean(c, i, Short)) /\ Above(c[i], Mean(c, i, Long))
         /\ Known(Lowest(c, i, Trail)) /\ 100 * c[i] > 110 * Lowest(c, i, Trail)
         /\ Shallow(c, i) /\ AtMost(low, BuyLevel(c, i)) /\ Compressed(c, i)
  BY DEF BuyRedEntry
<1>3. Above(c[i], Mean(c, i, Short)) => Known(c[i])
  BY DEF Above
<1>4. AtMost(low, BuyLevel(c, i)) /\ BuyLevel(c, i) = 0 => low = 0
  BY DEF AtMost, Known, NaN, Price
<1>5. AtMost(low, BuyLevel(c, i)) => Known(low)
  BY DEF AtMost
<1> HIDE DEF c, low, legs
<1>6. legs = BuyRedShown => BuyRedEntry(f, s, i)
  <2>1. {"above_fast", "above_slow", "dist_lo_ok", "drawdown_ok", "vov_ok", "touch_ok"}
           \subseteq BuyRedShown
    BY DEF BuyRedShown
  <2> QED  BY <1>1, <1>2, <2>1
<1>7. ASSUME BuyRedEntry(f, s, i), BuyLevel(c, i) # 0 PROVE legs = BuyRedShown
  <2>1. {"above_fast", "above_slow", "dist_lo_ok", "drawdown_ok", "vov_ok", "touch_ok"}
           \subseteq legs
    BY <1>1, <1>2, <1>3, <1>5, <1>7
  <2> QED  BY <1>1, <2>1 DEF BuyRedShown
<1>8. ASSUME BuyRedEntry(f, s, i), BuyLevel(c, i) = 0
      PROVE  low = 0 /\ legs = BuyRedShown \ {"touch_ok"}
  <2>1. {"above_fast", "above_slow", "dist_lo_ok", "drawdown_ok", "vov_ok"} \subseteq legs
    BY <1>1, <1>2, <1>3, <1>8
  <2>2. "touch_ok" \notin legs
    BY <1>1, <1>8
  <2>3. legs = BuyRedShown \ {"touch_ok"}
    BY <1>1, <2>1, <2>2 DEF BuyRedShown
  <2> QED  BY <1>2, <1>4, <1>8, <2>3
<1> QED  BY <1>6, <1>7, <1>8 DEF low, legs

\* trend-pullback enters only when all of its legs are shown.
LEMMA PullbackShows ==
    ASSUME NEW f, NEW gate, NEW s, NEW m \in Nat, f.close[s] \in [1..m -> Price],
           NEW i \in gate, i \in 1..m, PullbackEntry(f, s, i)
    PROVE  PullbackLegs(f, gate, s, i) = PullbackShown
<1> DEFINE c == f.close[s]
           legs == PullbackLegs(f, gate, s, i)
<1>1. /\ legs \subseteq PullbackShown
      /\ "gate" \in legs <=> i \in gate
      /\ "above_slow" \in legs <=> Above(c[i], Mean(c, i, Long))
      /\ "above_fast" \in legs <=> Above(Mean(c, i, Long), Mean(c, i - Rising, Long))
      /\ "mom_rank" \in legs <=> InTopThird(f, s, i)
      /\ "pullback_dist" \in legs <=> Distant(c, i)
  BY DEF PullbackLegs, PullbackShown
<1>2. /\ Above(c[i], Mean(c, i, Long)) /\ Above(Mean(c, i, Long), Mean(c, i - Rising, Long))
      /\ InTopThird(f, s, i) /\ AtMost(c[i], Mean(c, i, Pullback))
  BY DEF PullbackEntry
<1>4. Distant(c, i)
  <2>1. Rising \in Nat /\ Long \in Nat \ {0} /\ i \in Int /\ i - Rising \in Int /\ i - Rising <= m
    BY StrategyAssumption
  <2>2. Mean(c, i - Rising, Long) \in Price
    BY <2>1, MeanIsAPrice
  <2>3. c[i] \in Price /\ Mean(c, i, Long) \in Price /\ Mean(c, i, Pullback) \in Price
    <3>1. c \in [1..m -> Price] /\ i \in 1..m /\ i \in Int /\ i <= m /\ Pullback \in Nat \ {0}
      BY StrategyAssumption
    <3>2. c[i] \in Price
      BY <3>1
    <3> HIDE DEF c
    <3> QED  BY <2>1, <3>1, <3>2, MeanIsAPrice
  <2> PICK before, trend, average :
          /\ before = Mean(c, i - Rising, Long) /\ trend = Mean(c, i, Long)
          /\ average = Mean(c, i, Pullback)
    OBVIOUS
  <2>4. before >= 0 /\ trend > before /\ c[i] > trend /\ c[i] <= average
    BY <1>2, <2>2, <2>3 DEF Above, AtMost, Known, Price, NaN
  <2>5. average # 0
    BY <2>2, <2>3, <2>4 DEF Price, NaN
  <2> QED  BY <1>2, <2>5 DEF Distant
<1> HIDE DEF c, legs
<1>3. {"gate", "above_slow", "above_fast", "mom_rank", "pullback_dist"} \subseteq legs
  BY <1>1, <1>2, <1>4
<1> QED  BY <1>1, <1>3 DEF PullbackShown, legs

-----------------------------------------------------------------------------
(* The reports: what an answer was made of.                                 *)

ReportFits(c) ==
    /\ call[c].pc = "resolving" => Accepted(call[c].cmd)
    /\ Reported(c, "screen") =>
          /\ Accepted(call[c].cmd)
          /\ call[c].answer = Screen(daily_price, call[c].found, call[c].cmd.query)
    /\ Reported(c, "signals") =>
          /\ Accepted(call[c].cmd)
          /\ call[c].answer = Signals(daily_price, call[c].found, call[c].cmd.query)

ReportInv == CountInv /\ \A c \in Client : ReportFits(c)

LEMMA BarsStay ==
    ASSUME NEW c \in Client, Step(c)
    PROVE  daily_price' = daily_price
  BY DEF Step, ImportGet, LabelList, CreateList, DeleteCount, ReportStart, AddTicker, AddTag,
         RemoveTag, Counted, AddFeature, DeleteFeatures, ReadUniverse, Report, Kill, tables

\* A call that has ended without a report, or is about something else.
LEMMA NoReport ==
    ASSUME NEW d \in Client,
           \/ call'[d].pc \notin {"resolving", "done"}
           \/ call'[d].pc = "done" /\ call'[d].answer.status # "success"
           \/ call'[d].pc # "resolving" /\ call'[d].cmd.op \notin Reports
    PROVE  ReportFits(d)'
  BY DEF ReportFits, Reported, Does, Reports

LEMMA OthersReport ==
    ASSUME ReportInv, NEW c \in Client, Step(c), NEW d \in Client, d # c
    PROVE  ReportFits(d)'
  <1>1. Stands(d) /\ daily_price' = daily_price
    BY OthersStand, BarsStay DEF ReportInv, CountInv, CallsFit
  <1>2. /\ call'[d].pc = call[d].pc /\ call'[d].cmd = call[d].cmd
        /\ call'[d].found = call[d].found /\ call'[d].answer = call[d].answer
    BY <1>1 DEF Stands, Fields
  <1>3. ReportFits(d)
    BY DEF ReportInv
  <1> QED  BY <1>1, <1>2, <1>3 DEF ReportFits, Reported, Does

LEMMA AtOnce ==
    ASSUME Shaped, NEW c \in Client, NEW cmd, NEW status, Go(c, AnswerAtOnce(cmd, status))
    PROVE  call'[c].pc = "done" /\ call'[c].cmd = cmd /\ call'[c].answer = [status |-> status]
  BY Went DEF AnswerAtOnce, Fields

LEMMA WritesReport ==
    ASSUME ReportInv, NEW c \in Client, NEW cmd \in Command[c],
           ImportGet(c, cmd) \/ LabelList(c, cmd) \/ CreateList(c, cmd) \/ DeleteCount(c, cmd)
    PROVE  ReportFits(c)'
  <1>1. Shaped
    BY DEF ReportInv, CountInv, CallsFit
  <1>2. cmd.op \notin Reports
    BY DEF ImportGet, LabelList, CreateList, DeleteCount, Reports
  <1>3. ASSUME NEW status, Go(c, AnswerAtOnce(cmd, status)) PROVE ReportFits(c)'
    <2>1. call'[c].pc = "done" /\ call'[c].cmd = cmd
      BY <1>1, <1>3, AtOnce
    <2> QED  BY <1>2, <2>1, NoReport
  <1>4. ASSUME NEW pc, NEW todo, pc \notin {"resolving", "done"},
               Go(c, [cmd |-> cmd, pc |-> pc, todo |-> todo])
        PROVE  ReportFits(c)'
    <2>1. call'[c].pc = pc
      BY <1>1, <1>4, Went DEF Fields
    <2> QED  BY <1>4, <2>1, NoReport
  <1>5. CASE ImportGet(c, cmd)
    BY <1>3, <1>4, <1>5 DEF ImportGet
  <1>6. CASE LabelList(c, cmd)
    <2>1. \/ Go(c, AnswerAtOnce(cmd, "invalid")) \/ Go(c, AnswerAtOnce(cmd, "not_found"))
          \/ Go(c, [cmd |-> cmd, pc |-> "labelling", todo |-> Matching(cmd)])
      BY <1>6 DEF LabelList
    <2> QED  BY <1>3, <1>4, <2>1
  <1>7. CASE CreateList(c, cmd)
    <2>1. \/ Go(c, AnswerAtOnce(cmd, "invalid")) \/ Go(c, AnswerAtOnce(cmd, "not_found"))
          \/ Go(c, [cmd |-> cmd, pc |-> "adding", todo |-> {t \in ticker : t[1] = cmd.symbol}])
      BY <1>7 DEF CreateList
    <2> QED  BY <1>3, <1>4, <2>1
  <1>8. CASE DeleteCount(c, cmd)
    <2>1. PICK count : \/ Go(c, AnswerAtOnce(cmd, "success"))
                       \/ Go(c, [cmd |-> cmd, pc |-> "deleting", count |-> count])
      BY <1>8 DEF DeleteCount
    <2>2. CASE Go(c, AnswerAtOnce(cmd, "success"))
      BY <1>3, <2>2
    <2>3. CASE Go(c, [cmd |-> cmd, pc |-> "deleting", count |-> count])
      <3>1. call'[c].pc = "deleting"
        BY <1>1, <2>3, Went DEF Fields
      <3> QED  BY <3>1, NoReport
    <2> QED  BY <2>1, <2>2, <2>3
  <1> QED  BY <1>5, <1>6, <1>7, <1>8

LEMMA StartReports ==
    ASSUME ReportInv, NEW c \in Client, NEW cmd \in Command[c], ReportStart(c, cmd)
    PROVE  ReportFits(c)'
  <1>1. Shaped
    BY DEF ReportInv, CountInv, CallsFit
  <1>2. CASE ~Accepted(cmd)
    <2>1. Go(c, AnswerAtOnce(cmd, "invalid"))
      BY <1>2 DEF ReportStart
    <2>2. call'[c].pc = "done" /\ call'[c].answer = [status |-> "invalid"]
      BY <1>1, <2>1, AtOnce
    <2> QED  BY <2>2, NoReport
  <1>3. CASE Accepted(cmd)
    <2>1. PICK reads : Go(c, [cmd |-> cmd, pc |-> "resolving", found |-> cmd.explicit, reads |-> reads])
      BY <1>3 DEF ReportStart
    <2>2. call'[c].pc = "resolving" /\ call'[c].cmd = cmd
      BY <1>1, <2>1, Went DEF Fields
    <2> QED  BY <1>3, <2>2 DEF ReportFits, Reported
  <1> QED  BY <1>2, <1>3

\* The statements of the commands that change the tables.
LEMMA ChangesReport ==
    ASSUME ReportInv, NEW c \in Client,
           \/ AddTicker(c) \/ AddTag(c) \/ RemoveTag(c) \/ Counted(c)
           \/ AddFeature(c) \/ DeleteFeatures(c) \/ Kill(c)
    PROVE  ReportFits(c)'
  <1>1. Shaped /\ Fits(c)
    BY DEF ReportInv, CountInv, CallsFit
  <1>2. CASE Kill(c)
    <2>1. Go(c, [pc |-> "killed"])
      BY <1>2 DEF Kill
    <2>2. call'[c].pc = "killed"
      BY <1>1, <2>1, Went DEF Fields
    <2> QED  BY <2>2, NoReport
  <1>3. ASSUME NEW todo, NEW count, Go(c, [todo |-> todo, count |-> count]),
               call[c].pc \in {"importing", "labelling"}
        PROVE  ReportFits(c)'
    <2>1. call'[c].pc = call[c].pc
      BY <1>1, <1>3, Went DEF Fields
    <2> QED  BY <1>3, <2>1, NoReport
  <1>4. CASE AddTicker(c)
    BY <1>3, <1>4 DEF AddTicker
  <1>5. CASE AddTag(c)
    <2>1. PICK todo, count : Go(c, [todo |-> todo, count |-> count])
      BY <1>5 DEF AddTag
    <2>2. call[c].pc = "labelling"
      BY <1>5 DEF AddTag
    <2> QED  BY <1>3, <2>1, <2>2
  <1>6. CASE RemoveTag(c)
    <2>1. PICK todo, count : Go(c, [todo |-> todo, count |-> count])
      BY <1>6 DEF RemoveTag
    <2>2. call[c].pc = "labelling"
      BY <1>6 DEF RemoveTag
    <2> QED  BY <1>3, <2>1, <2>2
  <1>7. CASE Counted(c)
    <2>1. Go(c, Answer("success")) /\ call[c].cmd.op \notin Reports
      BY <1>1, <1>7 DEF Counted, Fits, Reports
    <2>2. call'[c].pc = "done" /\ call'[c].cmd = call[c].cmd
      BY <1>1, <2>1, Went DEF Answer, Fields
    <2> QED  BY <2>1, <2>2, NoReport
  <1>8. CASE AddFeature(c) \/ DeleteFeatures(c)
    <2>1. PICK status : Touches(c, Answer(status))
      BY <1>8 DEF AddFeature, DeleteFeatures, Touches
    <2>2. call[c].cmd.op \notin Reports
      BY <1>1, <1>8 DEF AddFeature, DeleteFeatures, Fits, Reports
    <2>3. call'[c].pc = "done" /\ call'[c].cmd = call[c].cmd
      <3>1. PICK changes : changes = Answer(status)
        OBVIOUS
      <3>2. DOMAIN changes = {"pc", "answer"} /\ changes["pc"] = "done"
        BY <3>1 DEF Answer
      <3>3. \A x \in Fields : call'[c][x] = IF x \in DOMAIN changes THEN changes[x] ELSE call[c][x]
        BY <1>1, <2>1, <3>1, Touched
      <3> QED  BY <3>2, <3>3 DEF Fields
    <2> QED  BY <2>2, <2>3, NoReport
  <1> QED  BY <1>2, <1>4, <1>5, <1>6, <1>7, <1>8

LEMMA ReadsReport ==
    ASSUME ReportInv, NEW c \in Client, ReadUniverse(c) \/ Report(c)
    PROVE  ReportFits(c)'
  <1>1. /\ Shaped /\ Fits(c) /\ ReportFits(c) /\ daily_price' = daily_price
        /\ call[c].pc = "resolving"
    BY DEF ReportInv, CountInv, CallsFit, ReadUniverse, Report, tables
  <1>2. CASE ReadUniverse(c)
    <2>1. PICK reads, found : Go(c, [reads |-> reads, found |-> found])
      BY <1>2 DEF ReadUniverse
    <2>2. call'[c].pc = call[c].pc /\ call'[c].cmd = call[c].cmd
      BY <1>1, <2>1, Went DEF Fields
    <2> QED  BY <1>1, <2>2 DEF ReportFits, Reported
  <1>3. CASE Report(c)
    <2> DEFINE cmd == call[c].cmd
               universe == call[c].found
               made == CASE cmd.op = "screen" -> Screen(daily_price, universe, cmd.query)
                         [] cmd.op = "signals" -> Signals(daily_price, universe, cmd.query)
                         [] cmd.op = "freshness" -> Freshness(daily_price, universe, cmd.query)
                         [] cmd.op = "ranges" -> Ranges(daily_price, universe, cmd.query)
    <2>1. Go(c, [pc |-> "done", answer |-> made])
      BY <1>3, Zenon DEF Report
    <2>2. cmd.op = "screen" => made = Screen(daily_price, universe, cmd.query)
      BY Zenon
    <2>3. cmd.op = "signals" => made = Signals(daily_price, universe, cmd.query)
      OBVIOUS
    <2> HIDE DEF made
    <2>4. /\ call'[c].pc = "done" /\ call'[c].cmd = cmd /\ call'[c].found = universe
          /\ call'[c].answer = made
      BY <1>1, <2>1, Went DEF Fields
    <2> QED  BY <1>1, <2>2, <2>3, <2>4 DEF ReportFits, Reported, Does
  <1> QED  BY <1>2, <1>3

LEMMA ReportStep ==
    ASSUME ReportInv, [Next]_vars
    PROVE  ReportInv'
  <1>1. CountInv'
    BY CountStep DEF ReportInv
  <1>2. CASE UNCHANGED vars
    BY <1>1, <1>2 DEF ReportInv, ReportFits, Reported, Does, vars, tables
  <1>3. ASSUME NEW c \in Client, Step(c) PROVE \A d \in Client : ReportFits(d)'
    <2>1. ReportFits(c)'
      BY <1>3, WritesReport, StartReports, ChangesReport, ReadsReport DEF Step
    <2> QED  BY <1>3, <2>1, OthersReport
  <1>4. CASE Next
    BY <1>1, <1>3, <1>4 DEF Next, ReportInv
  <1> QED  BY <1>2, <1>4

LEMMA ReportInit == Init => ReportInv
  <1> SUFFICES ASSUME Init PROVE ReportInv
    OBVIOUS
  <1>1. \A c \in Client : call[c].pc = "idle"
    BY DEF Init, Idle
  <1>2. \A c \in Client : ReportFits(c)
    BY <1>1 DEF ReportFits, Reported
  <1> QED  BY <1>2, CountInit DEF ReportInv

\* What a report is asked, and the bars it is made from.
LEMMA ReportIsMadeOf ==
    ASSUME ReportInv, NEW c \in Client, call[c].pc = "done", call[c].cmd.op \in Reports
    PROVE  /\ call[c].found \subseteq Symbol /\ \A s \in Symbol : daily_price[s] \in Seq(DailyBar)
           /\ \A option \in {"asOf", "top", "minBars"} : call[c].cmd.query[option] \in Int
  <1>1. /\ call[c].found \subseteq Symbol /\ daily_price \in History
        /\ call[c].cmd \in Command[c]
    BY DEF ReportInv, CountInv, CallsFit, Typed, TablesTyped, Fits
  <1>2. daily_price \in [Symbol -> Seq(DailyBar)]
    BY <1>1, CatalogAssumption
  <1>3. WellFormed(call[c].cmd)
    BY <1>1, CatalogAssumption
  <1> QED  BY <1>1, <1>2, <1>3 DEF WellFormed

LEMMA ScreensAreFair == ReportInv => ScreenRanksFairly
  <1> SUFFICES ASSUME ReportInv, NEW c \in Client, Reported(c, "screen")
               PROVE  FairScreen(call[c].answer, call[c].cmd.query.top,
                                 Eligible(daily_price, call[c].found, call[c].answer.asOf,
                                          call[c].cmd.query))
    BY DEF ScreenRanksFairly, FairScreen
  <1>1. /\ ReportFits(c) /\ call[c].pc = "done" /\ call[c].cmd.op = "screen"
        /\ call[c].answer.status = "success"
    BY DEF ReportInv, Reported, Does
  <1>2. PICK bars, universe, q : /\ bars = daily_price /\ universe = call[c].found
                                 /\ q = call[c].cmd.query
    OBVIOUS
  <1>3. /\ universe \subseteq Symbol /\ \A s \in universe : bars[s] \in Seq(DailyBar)
        /\ q.asOf \in Int /\ q.top \in Int /\ q.minBars \in Int
    <2>1. call[c].cmd.op \in Reports
      BY <1>1 DEF Reports
    <2> QED  BY <1>1, <1>2, <2>1, ReportIsMadeOf
  <1>4. Accepted(call[c].cmd) /\ call[c].answer = Screen(bars, universe, q)
    BY <1>1, <1>2 DEF ReportFits
  <1>5. ScreenAccepts(q)
    BY <1>1, <1>2, <1>4 DEF Accepted
  <1>6. Screen(bars, universe, q).status = "success"
    BY <1>1, <1>4
  <1> QED  BY <1>2, <1>3, <1>4, <1>5, <1>6, ScreenIsFair

\* In a screen a name that is behind on no measure, and ahead on one or in the alphabet, is ranked
\* ahead of the other if both are shown, and is not left out by a cut that shows the other; every
\* symbol of the universe is excluded for a reason, or shown once as far as the cut allows: whatever
\* the universe, the bars, the floors, the ties and the cut (ScreenSymbols._score, _pct_rank).
THEOREM FairScreens == Spec => []ScreenRanksFairly
  <1> QED  BY ReportInit, ReportStep, ScreensAreFair, PTL DEF Spec

-----------------------------------------------------------------------------
(* signals current: every row of the report.                                *)

\* What a row says of a strategy, in a report of asOf from these bars.
RowExplains(r, strategy, asOf, bars) ==
    LET free(s) == \E b \in ToSet(bars[s]) : b.day = asOf /\ b.low = 0
    IN /\ (r.status = "entry_signal") <=> (r.lastEntry = asOf)
       /\ r.status = "exit_signal" => r.lastExit = asOf
       /\ strategy = "buy-red" /\ UseVov =>
             /\ r.legs = BuyRedShown => r.status = "entry_signal"
             /\ r.status = "entry_signal" =>
                   r.legs = BuyRedShown
                      \/ (free(r.symbol) /\ r.legs = BuyRedShown \ {"touch_ok"})
       /\ strategy = "trend-pullback" /\ r.status = "entry_signal" => r.legs = PullbackShown

\* The status of a row: the newest row counts when it is asOf's and the symbol's own.
LEMMA StatusIs ==
    ASSUME NEW signals, NEW f, NEW asOf, NEW s, NEW n, Len(f.days) = n
    PROVE  /\ SignalStatus(signals, f, asOf, s) = "entry_signal" <=>
                 f.days[n] = asOf /\ Known(f.close[s][n]) /\ <<s, n>> \in signals.entry
           /\ SignalStatus(signals, f, asOf, s) = "exit_signal" =>
                 f.days[n] = asOf /\ <<s, n>> \in signals.exit
<1> QED  BY DEF SignalStatus

LEMMA RowIsExplained ==
    ASSUME NEW f, NEW x, NEW asOf \in Nat \ {0}, NEW n, FrameFits(f, x, asOf, n),
           \A s \in DOMAIN x : x[s] \in Seq(DailyBar),
           NEW strategy \in Builtin, ~RankIsMissing(strategy, f, asOf), NEW benchmark, NEW start,
           NEW s \in Cols(f)
    PROVE  RowExplains(SignalRow(strategy, Generate(strategy, f, benchmark, start), f, benchmark,
                                 asOf, s), strategy, asOf, x)
<1> DEFINE signals == Generate(strategy, f, benchmark, start)
           r == SignalRow(strategy, signals, f, benchmark, asOf, s)
<1>1. /\ n \in Nat \ {0} /\ Len(f.days) = n /\ Rows(f) = 1..n /\ s \in DOMAIN x
      /\ f.low[s][n] = CellOf(x[s], f.days[n], "low")
  BY DEF FrameFits
<1>2. n \in 1..n /\ n \in Nat
  BY <1>1
<1>3. /\ signals.entry \subseteq Cols(f) \X (1..n) /\ signals.exit \subseteq Cols(f) \X (1..n)
      /\ strategy # "momentum-rotation" =>
            (<<s, n>> \in signals.entry <=> Enters(strategy, f, benchmark, s, n))
  BY <1>1, <1>2, CellsOfTheFrame
<1>4. /\ r.symbol = s /\ r.status = SignalStatus(signals, f, asOf, s)
      /\ r.lastEntry = LastOf(signals.entry, f, s) /\ r.lastExit = LastOf(signals.exit, f, s)
      /\ r.legs = Legs(strategy, f, benchmark, asOf, s)
  BY DEF SignalRow
<1> HIDE DEF signals, r
<1>5. /\ r.status = "entry_signal" <=>
            f.days[n] = asOf /\ Known(f.close[s][n]) /\ <<s, n>> \in signals.entry
      /\ r.status = "exit_signal" => f.days[n] = asOf /\ <<s, n>> \in signals.exit
  BY <1>1, <1>4, StatusIs
<1>6. /\ r.lastEntry = asOf <=> <<s, n>> \in signals.entry /\ f.days[n] = asOf
      /\ r.lastExit = asOf <=> <<s, n>> \in signals.exit /\ f.days[n] = asOf
  BY <1>3, <1>4, LastOfCells
<1>7. strategy = "momentum-rotation" => f.days[n] # asOf
  <2>1. f.days[n] \in ToSet(f.days)
    BY <1>1, <1>2 DEF Rows, ToSet
  <2> QED  BY <2>1 DEF RankIsMissing
<1>8. <<s, n>> \in signals.entry /\ f.days[n] = asOf => Known(f.close[s][n])
  BY <1>2, <1>3, <1>7, EntriesAreKnown
<1>9. /\ (r.status = "entry_signal") <=> (r.lastEntry = asOf)
      /\ r.status = "exit_signal" => r.lastExit = asOf
  BY <1>5, <1>6, <1>8
<1>10. ASSUME strategy = "buy-red", UseVov
       PROVE  /\ r.legs = BuyRedShown => r.status = "entry_signal"
              /\ r.status = "entry_signal" =>
                    r.legs = BuyRedShown
                       \/ ((\E b \in ToSet(x[s]) : b.day = asOf /\ b.low = 0)
                              /\ r.legs = BuyRedShown \ {"touch_ok"})
  <2>1. r.legs = IF f.days[n] # asOf THEN {} ELSE BuyRedLegs(f, s, n)
    BY <1>1, <1>4, <1>10 DEF Legs
  <2>2. f.low[s][n] \in Price
    BY <1>1, CellIsAPrice
  <2>3. /\ BuyRedLegs(f, s, n) = BuyRedShown => BuyRedEntry(f, s, n)
        /\ BuyRedEntry(f, s, n) =>
              \/ BuyRedLegs(f, s, n) = BuyRedShown
              \/ f.low[s][n] = 0 /\ BuyRedLegs(f, s, n) = BuyRedShown \ {"touch_ok"}
    BY <1>10, <2>2, BuyRedShows
  <2>4. <<s, n>> \in signals.entry <=> BuyRedEntry(f, s, n)
    BY <1>3, <1>10 DEF Enters
  <2>5. BuyRedShown # {}
    BY DEF BuyRedShown
  <2>6. f.low[s][n] = 0 => \E b \in ToSet(x[s]) : b.day = f.days[n] /\ b.low = 0
    BY <1>1, ZeroIsABar
  <2> QED  BY <1>5, <1>8, <2>1, <2>3, <2>4, <2>5, <2>6
<1>11. ASSUME strategy = "trend-pullback", r.status = "entry_signal"
       PROVE  r.legs = PullbackShown
  <2> DEFINE gate == Gate(f, benchmark, FALSE)
  <2>1. f.days[n] = asOf /\ n \in gate /\ PullbackEntry(f, s, n)
    BY <1>3, <1>5, <1>11 DEF Enters
  <2>2. r.legs = PullbackLegs(f, gate, s, n)
    BY <1>1, <1>4, <1>11, <2>1 DEF Legs
  <2>3. n \in Nat /\ f.close[s] \in [1..n -> Price]
    BY <1>2 DEF FrameFits
  <2> HIDE DEF gate
  <2> QED  BY <1>2, <2>1, <2>2, <2>3, PullbackShows
<1> QED  BY <1>4, <1>9, <1>10, <1>11 DEF RowExplains, signals, r

\* A frame without a column is that of no bars.
LEMMA NoColumns ==
    ASSUME NEW x, ColumnsOf(x) = {}
    PROVE  FrameOf(x).cols = <<>>
<1> DEFINE cols == {s \in DOMAIN x : x[s] # <<>>}
<1>1. FrameOf(x).cols = Ascending(cols)
  BY DEF FrameOf
<1>2. cols = {}
  BY DEF ColumnsOf
<1>3. Lists(Ascending({}), {})
  BY FS_EmptySet, AscendingLists
<1>4. Len(Ascending({})) = 0 /\ Ascending({}) \in Seq({})
  BY <1>3, FS_EmptySet DEF Lists
<1>5. Ascending({}) = <<>>
  BY <1>4
<1> QED  BY <1>1, <1>2, <1>5

LEMMA SignalsAreExplained ==
    ASSUME NEW universe, universe \subseteq Symbol,
           NEW bars, \A s \in universe : bars[s] \in Seq(DailyBar),
           NEW q, q.asOf \in Int, q.top \in Int, SignalsAccepts(q), q.ask.strategy \in Builtin,
           Signals(bars, universe, q).status = "success"
    PROVE  LET a == Signals(bars, universe, q)
           IN \A r \in ToSet(a.rows) : RowExplains(r, q.ask.strategy, a.asOf, bars)
<1> DEFINE scored == Scored(universe, q)
           asOf == AsOf(bars, scored, q)
           x == [s \in scored |-> UpTo(bars[s], asOf)]
           f == FrameOf(x)
           benchmark == IF q.benchmark = 0 THEN <<>> ELSE BenchmarkOf(UpTo(bars[q.benchmark], asOf))
           strategy == q.ask.strategy
           signals == Generate(strategy, f, benchmark, asOf + 1)
           rows == [i \in DOMAIN f.cols |->
                       SignalRow(strategy, signals, f, benchmark, asOf, f.cols[i])]
           a == Signals(bars, universe, q)
<1> SUFFICES ASSUME NEW r \in ToSet(a.rows) PROVE RowExplains(r, strategy, a.asOf, bars)
  OBVIOUS
<1>1. a = IF asOf = 0 THEN Failed("error")
          ELSE IF f.cols = <<>> THEN
             [status |-> "success", asOf |-> asOf, vintage |-> 0,
              size |-> Cardinality(scored), rows |-> NoRow]
          ELSE IF RankIsMissing(strategy, f, asOf) THEN Failed("error")
          ELSE [status |-> "success", asOf |-> asOf,
                vintage |-> Newest({b.day : b \in ToSet(rows)}),
                size |-> Cardinality(scored), rows |-> Cut(rows, q.top)]
  BY DEF Signals
<1>2. scored \subseteq universe /\ scored \subseteq Symbol
  BY DEF Scored
<1>3. q.asOf >= 0 /\ q.top \in Nat
  BY DEF SignalsAccepts
<1>4. a.status = "success"
  OBVIOUS
<1> HIDE DEF a, rows, signals, benchmark, strategy, f, scored
<1>5. asOf \in Nat
  BY <1>2, <1>3, AsOfIsADay
<1> HIDE DEF asOf
<1>6. \A s \in scored : x[s] \in Seq(DailyBar) /\ x[s] = UpTo(bars[s], asOf)
  <2>1. \A s \in scored : bars[s] \in Seq(DailyBar)
    BY <1>2
  <2> QED  BY <1>5, <2>1, DaysUpTo
<1>7. \A day \in DaysIn(x, scored) : day <= asOf
  <2>1. \A s \in scored : bars[s] \in Seq(DailyBar)
    BY <1>2
  <2> QED  BY <1>5, <2>1, DaysUpTo
<1>8. DOMAIN x = scored
  OBVIOUS
<1> HIDE DEF x
<1>9. asOf # 0
  BY <1>1, <1>4 DEF Failed
<1>10. f.cols # <<>>
  <2>1. ASSUME f.cols = <<>> PROVE FALSE
    <3>1. a.rows = <<>>
      BY <1>1, <1>9, <2>1 DEF NoRow
    <3>2. ToSet(a.rows) = {}
      BY <3>1 DEF ToSet
    <3> QED  BY <3>2
  <2> QED  BY <2>1
<1>11. ~RankIsMissing(strategy, f, asOf) /\ a.asOf = asOf /\ a.rows = Cut(rows, q.top)
  <2>1. ~RankIsMissing(strategy, f, asOf)
    BY <1>1, <1>4, <1>9, <1>10 DEF Failed
  <2> QED  BY <1>1, <1>9, <1>10, <2>1
<1>12. PICK n : FrameFits(f, x, asOf, n)
  <2>1. ColumnsOf(x) # {}
    BY <1>10, NoColumns DEF f
  <2> QED  BY <1>2, <1>5, <1>6, <1>7, <1>8, <2>1, FrameIs DEF f
<1>13. PICK i \in DOMAIN f.cols : r = SignalRow(strategy, signals, f, benchmark, asOf, f.cols[i])
  <2>1. f.cols \in Seq(Cols(f))
    BY <1>12 DEF FrameFits
  <2>2. \E R : rows \in Seq(R)
    <3>1. DOMAIN f.cols = 1..Len(f.cols) /\ Len(f.cols) \in Nat
      BY <2>1
    <3>2. rows = [j \in 1..Len(f.cols) |-> rows[j]]
      BY <3>1 DEF rows
    <3> HIDE DEF rows
    <3>3. PICK m : m = Len(f.cols)
      OBVIOUS
    <3>4. PICK R : R = {rows[j] : j \in 1..m}
      OBVIOUS
    <3>5. \A j \in 1..m : rows[j] \in R
      BY <3>4
    <3>6. rows \in [1..m -> R]
      BY <3>2, <3>3, <3>5
    <3>7. m \in Nat
      BY <3>1, <3>3
    <3>8. rows \in Seq(R)
      BY <3>6, <3>7
    <3> QED  BY <3>8
  <2>3. PICK j \in DOMAIN a.rows : r = a.rows[j]
    BY DEF ToSet
  <2>4. j \in DOMAIN rows /\ a.rows[j] = rows[j]
    <3>1. PICK R : rows \in Seq(R)
      BY <2>2
    <3>2. PICK top, cut : top = q.top /\ cut = Cut(rows, top)
      OBVIOUS
    <3>3. \A k \in DOMAIN Cut(rows, top) : k \in DOMAIN rows /\ Cut(rows, top)[k] = rows[k]
      BY <1>3, <3>1, <3>2, CutIs
    <3>4. a.rows = cut
      BY <1>11, <3>2
    <3> QED  BY <2>3, <3>2, <3>3, <3>4
  <2> QED  BY <2>3, <2>4 DEF rows
<1>14. f.cols[i] \in Cols(f) /\ Cols(f) \subseteq scored
  BY <1>8, <1>12, <1>13 DEF FrameFits
<1>15. PICK s : s = f.cols[i]
  OBVIOUS
<1>16. RowExplains(r, strategy, asOf, x)
  <2>1. strategy \in Builtin
    BY DEF strategy
  <2>2. s \in Cols(f) /\ r = SignalRow(strategy, signals, f, benchmark, asOf, s)
    BY <1>13, <1>14, <1>15
  <2>3. asOf \in Nat \ {0} /\ \A t \in DOMAIN x : x[t] \in Seq(DailyBar)
    BY <1>5, <1>6, <1>8, <1>9
  <2> QED  BY <1>11, <1>12, <2>1, <2>2, <2>3, RowIsExplained DEF signals
<1>17. r.symbol = s
  BY <1>13, <1>15 DEF SignalRow
<1>18. ToSet(x[s]) \subseteq ToSet(bars[s])
  <2>1. s \in scored /\ bars[s] \in Seq(DailyBar)
    BY <1>2, <1>14, <1>15
  <2>2. \A k \in DOMAIN UpTo(bars[s], asOf) : \E j \in DOMAIN bars[s] : UpTo(bars[s], asOf)[k] = bars[s][j]
    <3>1. asOf \in Int
      BY <1>5
    <3> QED  BY <2>1, <3>1, UpToIs
  <2>3. x[s] = UpTo(bars[s], asOf)
    BY <1>6, <2>1
  <2> QED  BY <2>2, <2>3 DEF ToSet
<1>19. RowExplains(r, strategy, asOf, bars)
  BY <1>16, <1>17, <1>18 DEF RowExplains
<1> QED  BY <1>11, <1>19

LEMMA ReportsExplain == ReportInv => LegsExplainSignals
  <1> SUFFICES ASSUME ReportInv, NEW c \in Client, Reported(c, "signals"),
                      NEW r \in ToSet(call[c].answer.rows)
               PROVE  RowExplains(r, call[c].cmd.query.ask.strategy, call[c].answer.asOf, daily_price)
    BY DEF LegsExplainSignals, RowExplains
  <1>1. /\ ReportFits(c) /\ call[c].pc = "done" /\ call[c].cmd.op = "signals"
        /\ call[c].answer.status = "success"
    BY DEF ReportInv, Reported, Does
  <1>2. PICK bars, universe, q : /\ bars = daily_price /\ universe = call[c].found
                                 /\ q = call[c].cmd.query
    OBVIOUS
  <1>3. /\ universe \subseteq Symbol /\ \A s \in universe : bars[s] \in Seq(DailyBar)
        /\ q.asOf \in Int /\ q.top \in Int
    <2>1. call[c].cmd.op \in Reports
      BY <1>1 DEF Reports
    <2> QED  BY <1>1, <1>2, <2>1, ReportIsMadeOf
  <1>4. Accepted(call[c].cmd) /\ call[c].answer = Signals(bars, universe, q)
    BY <1>1, <1>2 DEF ReportFits
  <1>5. SignalsAccepts(q)
    BY <1>1, <1>2, <1>4 DEF Accepted
  <1>6. q.ask.strategy \in Builtin
    BY <1>5 DEF SignalsAccepts, Built, Builds
  <1>7. Signals(bars, universe, q).status = "success"
    BY <1>1, <1>4
  <1> QED  BY <1>2, <1>3, <1>4, <1>5, <1>6, <1>7, SignalsAreExplained

\* The status of a signal row, the date of its last entry and the legs shown next to it agree,
\* for every strategy, universe and table of bars, gaps and zeros included (_score_signals,
\* _attribution).
THEOREM ExplainedSignals == Spec => []LegsExplainSignals
  <1> QED  BY ReportInit, ReportStep, ReportsExplain, PTL DEF Spec
=============================================================================
