-------------------------- MODULE RouterConfigProofs --------------------------
(***************************************************************************)
(* Proofs about RouterConfig for any number of clusters, administrators'   *)
(* requests and failing calls: a cluster keeps its entries while others    *)
(* are made and removed, and a clean-up leaves nothing, except where two   *)
(* threads edited a list at once without the lock.                         *)
(***************************************************************************)
EXTENDS RouterConfig, SequenceTheorems, WellFoundedInduction, TLAPS

-----------------------------------------------------------------------------
(* Scripts: what a thread has to do, as a sequence of calls                *)

Cmd == {Op(do, l) : do \in {"add", "name", "find", "drop"}, l \in List}
       \cup {Op(do, "interface") : do \in {"set", "unset"}}
       \cup {Op(do, "zone") : do \in {"join", "read", "clear", "refill"}}

\* Commands that rely on the one before them, and those that are relied on.
Second == {"name", "drop", "clear", "refill"}
Leading == {"add", "find", "read", "clear"}

LinkedAt(g, i) ==
  /\ g[i].do = "add"   => i < Len(g) /\ g[i + 1] = Op("name", g[i].on)
  /\ g[i].do = "find"  => Len(g) = i + 1 /\ g[i + 1] = Op("drop", g[i].on)
  /\ g[i].do = "read"  => i + 1 < Len(g) /\ g[i + 1] = Op("clear", "zone")
                          /\ g[i + 2] = Op("refill", "zone")
  /\ g[i].do = "clear" => i < Len(g) /\ g[i + 1] = Op("refill", "zone")
  /\ g[i].do \notin Leading /\ i < Len(g) => g[i + 1].do \notin Second
Linked(g) == /\ \A i \in 1..Len(g) : LinkedAt(g, i)
             /\ \A i, j \in 1..Len(g) : g[i] = g[j] => i = j
Has(g, c) == \E i \in 1..Len(g) : g[i] = c

Call == {g \in Seq(Cmd) : Linked(g)}
Whole(g) == g[1].do \notin Second

\* Only the first call may have begun.
Script(td) ==
  /\ td \in Seq(Call)
  /\ \A j \in 1..Len(td) : td[j] # <<>> /\ (j > 1 => Whole(td[j]))
Fresh(td) == Script(td) /\ (td # <<>> => Whole(td[1]))

First(td) == Head(Head(td))
Ops(td) == {c \in Cmd : \E j \in 1..Len(td) : Has(td[j], c)}

LEMMA EmptyOrNot ==
  ASSUME NEW S, NEW s \in Seq(S)
  PROVE  Len(s) \in Nat /\ (s = <<>> <=> Len(s) = 0)
OBVIOUS

LEMMA HeadAndTail ==
  ASSUME NEW S, NEW s \in Seq(S), s # <<>>
  PROVE  /\ Tail(s) \in Seq(S) /\ Len(Tail(s)) = Len(s) - 1 /\ Head(s) = s[1] /\ Head(s) \in S
         /\ 1 \in 1..Len(s)
         /\ \A i \in 1..Len(Tail(s)) : Tail(s)[i] = s[i + 1] /\ i + 1 \in 1..Len(s)
         /\ \A i \in 1..Len(s) : i = 1 \/ (i - 1 \in 1..Len(Tail(s)) /\ Tail(s)[i - 1] = s[i])
<1>1. Len(s) \in Nat /\ Len(s) > 0
  OBVIOUS
<1>. QED  BY <1>1

\* What a call asks of its second command, and what follows the first.
LEMMA TailOfCall ==
  ASSUME NEW g \in Call, g # <<>>
  PROVE  /\ Tail(g) \in Call /\ Head(g) \in Cmd
         /\ \A c : Has(g, c) <=> c = Head(g) \/ Has(Tail(g), c)
         /\ ~Has(Tail(g), Head(g))
         /\ Head(g).do = "add"  => Tail(g) # <<>> /\ Head(Tail(g)) = Op("name", Head(g).on)
         /\ Head(g).do = "find" => Len(g) = 2 /\ Tail(g) # <<>> /\ Head(Tail(g)) = Op("drop", Head(g).on)
         /\ Head(g).do = "read" => Len(g) > 2 /\ Tail(g) # <<>> /\ Head(Tail(g)) = Op("clear", "zone")
         /\ Head(g).do = "clear" => Tail(g) # <<>> /\ Head(Tail(g)) = Op("refill", "zone")
         /\ Head(g).do \notin Leading /\ Tail(g) # <<>> => Whole(Tail(g))
<1>1. g \in Seq(Cmd) /\ Linked(g)
  BY DEF Call
<1>2. Len(g) \in Nat /\ Len(g) > 0 /\ 1 \in 1..Len(g)
  BY <1>1, EmptyOrNot
<1>3. /\ Tail(g) \in Seq(Cmd) /\ Len(Tail(g)) = Len(g) - 1 /\ Head(g) = g[1] /\ Head(g) \in Cmd
      /\ \A i \in 1..Len(Tail(g)) : Tail(g)[i] = g[i + 1] /\ i + 1 \in 1..Len(g)
      /\ \A i \in 1..Len(g) : i = 1 \/ (i - 1 \in 1..Len(Tail(g)) /\ Tail(g)[i - 1] = g[i])
  BY <1>1, HeadAndTail
<1>4. Tail(g) # <<>> <=> Len(g) > 1
  <2>1. Tail(g) \in Seq(Cmd)
    BY <1>3
  <2>2. Tail(g) = <<>> <=> Len(Tail(g)) = 0
    BY <2>1, EmptyOrNot
  <2>. QED  BY <1>2, <1>3, <2>2
<1>5. Tail(g) # <<>> => Head(Tail(g)) = g[2] /\ Tail(g)[1] = g[2] /\ 2 \in 1..Len(g)
  <2>1. SUFFICES ASSUME Tail(g) # <<>> PROVE Head(Tail(g)) = g[2] /\ Tail(g)[1] = g[2] /\ 2 \in 1..Len(g)
    OBVIOUS
  <2>2. 1 \in 1..Len(Tail(g)) /\ Head(Tail(g)) = Tail(g)[1]
    BY <1>3, <2>1, HeadAndTail
  <2>3. Tail(g)[1] = g[1 + 1]
    BY <1>3, <2>2
  <2>. QED  BY <1>2, <1>4, <2>1, <2>2, <2>3
<1>6. Linked(Tail(g))
  <2>. DEFINE s == Tail(g)
  <2>1. ASSUME NEW i \in 1..Len(s) PROVE LinkedAt(s, i)
    <3>1. i + 1 \in 1..Len(g) /\ s[i] = g[i + 1] /\ Len(s) = Len(g) - 1 /\ i \in Nat
      BY <1>3
    <3>2. i < Len(s) => s[i + 1] = g[(i + 1) + 1]
      BY <1>2, <1>3
    <3>3. i + 1 < Len(s) => s[i + 2] = g[(i + 1) + 2]
      BY <1>2, <1>3
    <3>4. LinkedAt(g, i + 1)
      BY <1>1, <3>1 DEF Linked
    <3>. HIDE DEF s
    <3>. QED  BY <1>2, <3>1, <3>2, <3>3, <3>4 DEF LinkedAt
  <2>2. ASSUME NEW i \in 1..Len(s), NEW j \in 1..Len(s), s[i] = s[j] PROVE i = j
    <3>1. i + 1 \in 1..Len(g) /\ j + 1 \in 1..Len(g) /\ g[i + 1] = g[j + 1]
      BY <1>3, <2>2
    <3>2. i + 1 = j + 1
      BY <1>1, <3>1 DEF Linked
    <3>. QED  BY <3>2
  <2>. QED  BY <2>1, <2>2 DEF Linked
<1>7. ASSUME NEW i \in 1..Len(Tail(g)), Tail(g)[i] = Head(g) PROVE FALSE
  <2>1. i + 1 \in 1..Len(g) /\ g[i + 1] = g[1]
    BY <1>3, <1>7
  <2>2. i + 1 = 1
    BY <1>1, <1>2, <2>1 DEF Linked
  <2>. QED  BY <2>2
<1>8. /\ Head(g).do = "add"  => Tail(g) # <<>> /\ Head(Tail(g)) = Op("name", Head(g).on)
      /\ Head(g).do = "find" => Len(g) = 2 /\ Tail(g) # <<>> /\ Head(Tail(g)) = Op("drop", Head(g).on)
      /\ Head(g).do = "read" => Len(g) > 2 /\ Tail(g) # <<>> /\ Head(Tail(g)) = Op("clear", "zone")
      /\ Head(g).do = "clear" => Tail(g) # <<>> /\ Head(Tail(g)) = Op("refill", "zone")
      /\ Head(g).do \notin Leading /\ Tail(g) # <<>> => Whole(Tail(g))
  <2>1. LinkedAt(g, 1)
    BY <1>1, <1>2 DEF Linked
  <2>. QED  BY <1>2, <1>3, <1>4, <1>5, <2>1 DEF LinkedAt, Whole
<1>9. ASSUME NEW c PROVE Has(g, c) <=> c = Head(g) \/ Has(Tail(g), c)
  BY <1>2, <1>3 DEF Has
<1>. QED  BY <1>3, <1>6, <1>7, <1>8, <1>9 DEF Call, Has

LEMMA TailOfScript ==
  ASSUME NEW td, Script(td), td # <<>>
  PROVE  /\ Fresh(Tail(td)) /\ Head(td) \in Call /\ Head(td) # <<>>
         /\ Len(td) <= 1 => Tail(td) = <<>>
         /\ Ops(td) = {c \in Cmd : Has(Head(td), c)} \cup Ops(Tail(td))
<1>1. td \in Seq(Call) /\ Len(td) \in Nat /\ Len(td) > 0
  BY EmptyOrNot DEF Script
<1>2. /\ Tail(td) \in Seq(Call) /\ Len(Tail(td)) = Len(td) - 1 /\ Head(td) = td[1] /\ Head(td) \in Call
      /\ \A i \in 1..Len(Tail(td)) : Tail(td)[i] = td[i + 1] /\ i + 1 \in 1..Len(td)
      /\ \A i \in 1..Len(td) : i = 1 \/ (i - 1 \in 1..Len(Tail(td)) /\ Tail(td)[i - 1] = td[i])
  BY <1>1, HeadAndTail
<1>3. 1 \in 1..Len(td)
  BY <1>1
<1>4. ASSUME NEW j \in 1..Len(Tail(td)) PROVE Tail(td)[j] # <<>> /\ Whole(Tail(td)[j])
  <2>1. j + 1 \in 1..Len(td) /\ j + 1 > 1 /\ Tail(td)[j] = td[j + 1]
    BY <1>1, <1>2
  <2>. QED  BY <2>1 DEF Script
<1>5. Fresh(Tail(td))
  <2>1. Tail(td) # <<>> => 1 \in 1..Len(Tail(td))
    BY <1>2
  <2>. QED  BY <1>2, <1>4, <2>1 DEF Fresh, Script
<1>6. Len(td) <= 1 => Tail(td) = <<>>
  BY <1>1, <1>2
<1>7. ASSUME NEW c \in Cmd
      PROVE  c \in Ops(td) <=> Has(Head(td), c) \/ c \in Ops(Tail(td))
  <2>1. (\E j \in 1..Len(td) : Has(td[j], c)) <=>
        Has(Head(td), c) \/ \E j \in 1..Len(Tail(td)) : Has(Tail(td)[j], c)
    BY <1>2, <1>3
  <2>. QED  BY <2>1 DEF Ops
<1>8. Ops(td) \subseteq Cmd /\ Ops(Tail(td)) \subseteq Cmd
  BY DEF Ops
<1>. QED  BY <1>2, <1>3, <1>5, <1>6, <1>7, <1>8 DEF Script

LEMMA GroupsScript ==
  ASSUME NEW g \in Call, NEW rest, Fresh(rest)
  PROVE  /\ Script(Groups(g, rest))
         /\ g # <<>> => Groups(g, rest) # <<>> /\ Head(Groups(g, rest)) = g
         /\ g = <<>> => Groups(g, rest) = rest
         /\ rest = <<>> => Len(Groups(g, rest)) <= 1
         /\ (g # <<>> => Whole(g)) => Fresh(Groups(g, rest))
         /\ Ops(Groups(g, rest)) = {c \in Cmd : Has(g, c)} \cup Ops(rest)
<1>1. rest \in Seq(Call) /\ Len(rest) \in Nat
  BY DEF Fresh, Script
<1>2. CASE g = <<>>
  <2>1. Groups(g, rest) = rest /\ Len(g) = 0
    BY <1>2 DEF Groups
  <2>2. {c \in Cmd : Has(g, c)} = {}
    BY <2>1 DEF Has
  <2>. QED  BY <1>1, <1>2, <2>1, <2>2 DEF Fresh
<1>3. CASE g # <<>>
  <2>. DEFINE s == <<g>> \o rest
  <2>1. Groups(g, rest) = s
    BY <1>3 DEF Groups
  <2>2. /\ s \in Seq(Call) /\ Len(s) = Len(rest) + 1 /\ s[1] = g /\ s # <<>> /\ Head(s) = g
        /\ \A j \in 1..Len(rest) : s[j + 1] = rest[j]
    BY <1>1
  <2>. HIDE DEF s
  <2>3. \A j \in 1..Len(s) : j = 1 \/ (j - 1 \in 1..Len(rest) /\ s[j] = rest[j - 1])
    BY <1>1, <2>2
  <2>4. ASSUME NEW j \in 1..Len(rest) PROVE rest[j] # <<>> /\ Whole(rest[j])
    <3>1. j > 1 => Whole(rest[j])
      BY DEF Fresh, Script
    <3>2. j = 1 => Whole(rest[j])
      BY DEF Fresh
    <3>. QED  BY <3>1, <3>2, <1>1 DEF Fresh, Script
  <2>5. Script(s) /\ (Whole(g) => Fresh(s))
    <3>1. \A j \in 1..Len(s) : s[j] # <<>> /\ (j > 1 => Whole(s[j]))
      BY <1>3, <2>2, <2>3, <2>4
    <3>. QED  BY <2>2, <3>1 DEF Script, Fresh
  <2>6. rest = <<>> => Len(s) <= 1
    BY <2>2
  <2>7. ASSUME NEW c \in Cmd
        PROVE  c \in Ops(s) <=> Has(g, c) \/ c \in Ops(rest)
    <3>1. 1 \in 1..Len(s) /\ \A j \in 1..Len(rest) : j + 1 \in 1..Len(s)
      BY <1>1, <2>2
    <3>2. (\E j \in 1..Len(s) : Has(s[j], c)) <=> Has(g, c) \/ \E j \in 1..Len(rest) : Has(rest[j], c)
      BY <2>2, <2>3, <3>1
    <3>. QED  BY <3>2 DEF Ops
  <2>8. Ops(s) = {c \in Cmd : Has(g, c)} \cup Ops(rest)
    BY <2>7 DEF Ops
  <2>. QED  BY <1>3, <2>1, <2>2, <2>5, <2>6, <2>8
<1>. QED  BY <1>2, <1>3

-----------------------------------------------------------------------------
(* The scripts that threads begin                                          *)

LEMMA Two ==
  ASSUME NEW a \in Cmd, NEW b \in Cmd
  PROVE  LET g == <<a, b>> IN
         /\ g \in Seq(Cmd) /\ g # <<>> /\ Len(g) = 2 /\ g[1] = a /\ g[2] = b
         /\ \A i \in 1..Len(g) : i = 1 \/ i = 2
         /\ \A c : Has(g, c) <=> c = a \/ c = b
<1>. DEFINE g == <<a, b>>
<1>1. /\ g \in Seq(Cmd) /\ g # <<>> /\ Len(g) = 2 /\ g[1] = a /\ g[2] = b
  OBVIOUS
<1>. HIDE DEF g
<1>2. 1..Len(g) = {1, 2}
  BY <1>1
<1>3. /\ \A i \in 1..Len(g) : i = 1 \/ i = 2
      /\ \A c : Has(g, c) <=> c = a \/ c = b
  BY <1>1, <1>2 DEF Has
<1>. QED  BY <1>1, <1>3 DEF g

LEMMA Four ==
  ASSUME NEW a \in Cmd, NEW b \in Cmd, NEW c \in Cmd, NEW d \in Cmd
  PROVE  LET g == <<a, b, c, d>> IN
         /\ g \in Seq(Cmd) /\ g # <<>> /\ Len(g) = 4 /\ g[1] = a /\ g[2] = b /\ g[3] = c /\ g[4] = d
         /\ \A i \in 1..Len(g) : i = 1 \/ i = 2 \/ i = 3 \/ i = 4
         /\ \A x : Has(g, x) <=> x = a \/ x = b \/ x = c \/ x = d
<1>. DEFINE g == <<a, b, c, d>>
<1>1. g \in Seq(Cmd) /\ g # <<>> /\ Len(g) = 4 /\ g[1] = a /\ g[2] = b /\ g[3] = c /\ g[4] = d
  OBVIOUS
<1>. HIDE DEF g
<1>2. 1..Len(g) = {1, 2, 3, 4}
  BY <1>1
<1>3. /\ \A i \in 1..Len(g) : i = 1 \/ i = 2 \/ i = 3 \/ i = 4
      /\ \A x : Has(g, x) <=> x = a \/ x = b \/ x = c \/ x = d
  BY <1>1, <1>2 DEF Has
<1>. QED  BY <1>1, <1>3 DEF g

LEMMA JoinOnes == ASSUME NEW S, NEW a \in S, NEW b \in S PROVE <<a>> \o <<b>> = <<a, b>>
<1>. DEFINE s == <<a>> \o <<b>>
            t == <<a, b>>
<1>1. /\ s \in Seq(S) /\ Len(s) = 2 /\ s[1] = a /\ s[2] = b
      /\ t \in Seq(S) /\ Len(t) = 2 /\ t[1] = a /\ t[2] = b
  OBVIOUS
<1>. HIDE DEF s, t
<1>2. 1..Len(s) = {1, 2}
  BY <1>1
<1>3. s = t
  BY <1>1, <1>2, SeqEqual
<1>. QED  BY <1>3 DEF s, t

LEMMA JoinTwos ==
  ASSUME NEW S, NEW a \in S, NEW b \in S, NEW c \in S, NEW d \in S
  PROVE  <<a, b>> \o <<c, d>> = <<a, b, c, d>>
<1>. DEFINE s == <<a, b>> \o <<c, d>>
            t == <<a, b, c, d>>
<1>1. /\ s \in Seq(S) /\ Len(s) = 4 /\ s[1] = a /\ s[2] = b /\ s[3] = c /\ s[4] = d
      /\ t \in Seq(S) /\ Len(t) = 4 /\ t[1] = a /\ t[2] = b /\ t[3] = c /\ t[4] = d
  OBVIOUS
<1>. HIDE DEF s, t
<1>2. 1..Len(s) = {1, 2, 3, 4}
  BY <1>1
<1>3. s = t
  BY <1>1, <1>2, SeqEqual
<1>. QED  BY <1>3 DEF s, t

LEMMA JoinThree ==
  ASSUME NEW S, NEW a \in S, NEW b \in S, NEW c \in S, NEW d \in S
  PROVE  <<a, b, c>> \o <<d>> = <<a, b, c, d>>
<1>. DEFINE s == <<a, b, c>> \o <<d>>
            t == <<a, b, c, d>>
<1>1. /\ s \in Seq(S) /\ Len(s) = 4 /\ s[1] = a /\ s[2] = b /\ s[3] = c /\ s[4] = d
      /\ t \in Seq(S) /\ Len(t) = 4 /\ t[1] = a /\ t[2] = b /\ t[3] = c /\ t[4] = d
  OBVIOUS
<1>. HIDE DEF s, t
<1>2. 1..Len(s) = {1, 2, 3, 4}
  BY <1>1
<1>3. s = t
  BY <1>1, <1>2, SeqEqual
<1>. QED  BY <1>3 DEF s, t

LEMMA OpFields == ASSUME NEW do, NEW on PROVE Op(do, on).do = do /\ Op(do, on).on = on
BY DEF Op

LEMMA NoCall == <<>> \in Call /\ \A c : ~Has(<<>>, c)
<1>1. <<>> \in Seq(Cmd) /\ 1..Len(<<>>) = {}
  OBVIOUS
<1>. QED  BY <1>1 DEF Call, Linked, Has

LEMMA NoScript == Fresh(<<>>) /\ Ops(<<>>) = {}
<1>1. <<>> \in Seq(Call) /\ 1..Len(<<>>) = {}
  OBVIOUS
<1>. QED  BY <1>1 DEF Fresh, Script, Ops

LEMMA PairCall ==
  ASSUME NEW a \in Cmd, NEW b \in Cmd, a # b,
         \/ a.do = "add" /\ b = Op("name", a.on)
         \/ a.do = "find" /\ b = Op("drop", a.on)
         \/ a.do = "set" /\ b.do = "join"
  PROVE  <<a, b>> \in Call /\ Whole(<<a, b>>)
<1>. DEFINE g == <<a, b>>
<1>1. /\ g \in Seq(Cmd) /\ Len(g) = 2 /\ g[1] = a /\ g[2] = b
      /\ \A i \in 1..Len(g) : i = 1 \/ i = 2
  BY Two
<1>. HIDE DEF g
<1>2. b.do \in {"name", "drop", "join"}
  BY OpFields
<1>3. LinkedAt(g, 1) /\ LinkedAt(g, 2)
  BY <1>1, <1>2 DEF LinkedAt, Leading, Second
<1>4. \A i, j \in 1..Len(g) : g[i] = g[j] => i = j
  BY <1>1
<1>5. g \in Call /\ Whole(g)
  BY <1>1, <1>3, <1>4 DEF Call, Linked, Whole, Second
<1>. QED  BY <1>5 DEF g

LEMMA FourCall ==
  ASSUME NEW a \in Cmd, NEW b \in Cmd, NEW c \in Cmd, NEW d \in Cmd,
         \/ /\ a.do = "add" /\ b = Op("name", a.on)
            /\ c.do \in {"add", "set"}
            /\ c.do = "add" => d = Op("name", c.on) /\ c.on # a.on
            /\ c.do = "set" => d.do = "join"
         \/ a.do = "read" /\ b = Op("clear", "zone") /\ c = Op("refill", "zone") /\ d.do = "unset"
  PROVE  <<a, b, c, d>> \in Call /\ Whole(<<a, b, c, d>>)
<1>. DEFINE g == <<a, b, c, d>>
<1>1. /\ g \in Seq(Cmd) /\ Len(g) = 4 /\ g[1] = a /\ g[2] = b /\ g[3] = c /\ g[4] = d
      /\ \A i \in 1..Len(g) : i = 1 \/ i = 2 \/ i = 3 \/ i = 4
  BY Four
<1>. HIDE DEF g
<1>2. a # b /\ a # c /\ a # d /\ b # c /\ b # d /\ c # d
  BY OpFields
<1>3. b.do \in {"name", "clear"} /\ d.do \in {"name", "join", "unset"}
      /\ (c.do = "refill" => a.do = "read") /\ (b.do = "clear" => c = Op("refill", "zone"))
  BY OpFields
<1>4. LinkedAt(g, 1)
  BY <1>1, <1>3 DEF LinkedAt, Leading, Second
<1>5. LinkedAt(g, 2)
  BY <1>1, <1>3, OpFields DEF LinkedAt, Leading, Second
<1>6. LinkedAt(g, 3)
  BY <1>1, <1>3, OpFields DEF LinkedAt, Leading, Second
<1>7. LinkedAt(g, 4)
  BY <1>1, <1>3 DEF LinkedAt, Leading, Second
<1>8. \A i, j \in 1..Len(g) : g[i] = g[j] => i = j
  BY <1>1, <1>2
<1>9. g \in Call /\ Whole(g)
  BY <1>1, <1>4, <1>5, <1>6, <1>7, <1>8 DEF Call, Linked, Whole, Second
<1>. QED  BY <1>9 DEF g

LEMMA Cmds ==
  /\ \A l \in List, do \in {"add", "name", "find", "drop"} : Op(do, l) \in Cmd
  /\ Op("set", "interface") \in Cmd /\ Op("unset", "interface") \in Cmd
  /\ Op("join", "zone") \in Cmd /\ Op("read", "zone") \in Cmd
  /\ Op("clear", "zone") \in Cmd /\ Op("refill", "zone") \in Cmd
BY DEF Cmd

\* A script of one call.
LEMMA OneCall ==
  ASSUME NEW g \in Call, g # <<>> => Whole(g)
  PROVE  /\ Fresh(Groups(g, <<>>)) /\ Len(Groups(g, <<>>)) <= 1
         /\ \A c : c \in Ops(Groups(g, <<>>)) <=> c \in Cmd /\ Has(g, c)
         /\ g # <<>> => Groups(g, <<>>) = <<g>>
<1>1. g # <<>> => Groups(g, <<>>) = <<g>>
  <2>1. <<g>> \o <<>> = <<g>>
    OBVIOUS
  <2>. QED  BY <2>1 DEF Groups
<1>. QED  BY <1>1, NoScript, GroupsScript

LEMMA SetUpScript ==
  /\ Fresh(SetUp) /\ Len(SetUp) <= 1
  /\ \A c \in Ops(SetUp) : c.do \in {"add", "name", "set", "join"}
                           /\ (c.on \in List => c.on = "device")
<1>. DEFINE a == Op("add", "device") b == Op("name", "device")
            c == Op("set", "interface") d == Op("join", "zone")
            g == Add("device") \o (CreateInterface \o AddInterfaceToZone)
<1>1. c \in Cmd /\ d \in Cmd /\ c # d /\ c.do = "set" /\ d.do = "join" /\ c.on = "interface" /\ d.on = "zone"
  BY Cmds, OpFields
<1>2. "interface" \notin List /\ "zone" \notin List
  BY RouterAssumption
<1>3. g \in Call /\ g # <<>> /\ Whole(g) /\ \A x : Has(g, x) => x \in {a, b, c, d}
  <2>1. CASE "device" \in List
    <3>1. g = <<a, b>> \o (<<c>> \o <<d>>)
      BY <2>1 DEF Add, CreateInterface, AddInterfaceToZone
    <3>2. a \in Cmd /\ b \in Cmd /\ a.do = "add" /\ a.on = "device"
      BY <2>1, Cmds, OpFields
    <3>3. b = Op("name", a.on)
      BY <3>2
    <3>. HIDE DEF a, b, c, d, g
    <3>4. g = <<a, b, c, d>>
      BY <1>1, <3>1, <3>2, JoinOnes, JoinTwos
    <3>. QED  BY <1>1, <3>2, <3>3, <3>4, FourCall, Four
  <2>2. CASE "device" \notin List
    <3>1. g = <<>> \o (<<c>> \o <<d>>)
      BY <2>2 DEF Add, CreateInterface, AddInterfaceToZone
    <3>. HIDE DEF a, b, c, d, g
    <3>2. <<c>> \o <<d>> = <<c, d>> /\ <<c, d>> \in Seq(Cmd)
      BY <1>1, JoinOnes
    <3>3. g = <<c, d>>
      BY <3>1, <3>2, ConcatEmptySeq
    <3>. QED  BY <1>1, <3>3, PairCall, Two
  <2>. QED  BY <2>1, <2>2
<1>4. a.do = "add" /\ b.do = "name" /\ a.on = "device" /\ b.on = "device"
  BY OpFields
<1>. HIDE DEF a, b, c, d, g
<1>5. SetUp = Groups(g, <<>>)
  BY <1>3, OneCall DEF SetUp, g
<1>6. \A x \in Ops(SetUp) : x \in {a, b, c, d}
  BY <1>3, <1>5, OneCall
<1>. QED  BY <1>1, <1>2, <1>3, <1>4, <1>5, <1>6, OneCall

LEMMA ForwardScript ==
  /\ Fresh(Forward) /\ Len(Forward) <= 1
  /\ \A c \in Ops(Forward) : c.do \in {"add", "name"} /\ c.on \in List \ {"device"}
<1>. DEFINE a == Op("add", "host") b == Op("name", "host")
            c == Op("add", "redirect") d == Op("name", "redirect")
            g == Add("host") \o Add("redirect")
<1>1. /\ a.do = "add" /\ b.do = "name" /\ a.on = "host" /\ b.on = "host"
      /\ c.do = "add" /\ d.do = "name" /\ c.on = "redirect" /\ d.on = "redirect"
  BY OpFields
<1>2. /\ "host" \in List => a \in Cmd /\ b \in Cmd
      /\ "redirect" \in List => c \in Cmd /\ d \in Cmd
  BY Cmds
<1>3. /\ g \in Call /\ (g # <<>> => Whole(g))
      /\ \A x : Has(g, x) => \/ "host" \in List /\ x \in {a, b}
                             \/ "redirect" \in List /\ x \in {c, d}
  <2>1. CASE "host" \in List /\ "redirect" \in List
    <3>1. g = <<a, b>> \o <<c, d>>
      BY <2>1 DEF Add
    <3>2. b = Op("name", a.on) /\ d = Op("name", c.on) /\ c.on # a.on
      BY <1>1
    <3>. HIDE DEF a, b, c, d, g
    <3>3. g = <<a, b, c, d>>
      BY <1>2, <2>1, <3>1, JoinTwos
    <3>. QED  BY <1>1, <1>2, <2>1, <3>2, <3>3, FourCall, Four
  <2>2. CASE "host" \in List /\ "redirect" \notin List
    <3>1. g = <<a, b>> \o <<>>
      BY <2>2 DEF Add
    <3>2. b = Op("name", a.on)
      BY <1>1
    <3>. HIDE DEF a, b, c, d, g
    <3>3. g = <<a, b>>
      BY <1>2, <2>2, <3>1, Two, ConcatEmptySeq
    <3>. QED  BY <1>1, <1>2, <2>2, <3>2, <3>3, PairCall, Two
  <2>3. CASE "host" \notin List /\ "redirect" \in List
    <3>1. g = <<>> \o <<c, d>>
      BY <2>3 DEF Add
    <3>2. d = Op("name", c.on)
      BY <1>1
    <3>. HIDE DEF a, b, c, d, g
    <3>3. g = <<c, d>>
      BY <1>2, <2>3, <3>1, Two, ConcatEmptySeq
    <3>. QED  BY <1>1, <1>2, <2>3, <3>2, <3>3, PairCall, Two
  <2>4. CASE "host" \notin List /\ "redirect" \notin List
    <3>1. g = <<>>
      BY <2>4, NoCall, ConcatEmptySeq DEF Add, Call
    <3>. HIDE DEF a, b, c, d, g
    <3>. QED  BY <3>1, NoCall
  <2>. QED  BY <2>1, <2>2, <2>3, <2>4
<1>. HIDE DEF a, b, c, d, g
<1>5. Forward = Groups(g, <<>>)
  BY DEF Forward, g
<1>6. \A x \in Ops(Forward) : \/ "host" \in List /\ x \in {a, b}
                              \/ "redirect" \in List /\ x \in {c, d}
  BY <1>3, <1>5, OneCall
<1>. QED  BY <1>1, <1>3, <1>5, <1>6, OneCall

LEMMA DeleteCall ==
  ASSUME NEW l
  PROVE  /\ Delete(l) \in Call /\ (Delete(l) # <<>> => Whole(Delete(l)))
         /\ \A x : Has(Delete(l), x) <=> l \in List /\ x \in {Op("find", l), Op("drop", l)}
<1>1. CASE l \in List
  <2>1. /\ Op("find", l) \in Cmd /\ Op("drop", l) \in Cmd
        /\ Op("find", l).do = "find" /\ Op("find", l).on = l /\ Op("drop", l).do = "drop"
    BY <1>1, Cmds, OpFields
  <2>2. Delete(l) = <<Op("find", l), Op("drop", l)>>
    BY <1>1 DEF Delete
  <2>. QED  BY <1>1, <2>1, <2>2, PairCall, Two
<1>2. CASE l \notin List
  <2>1. Delete(l) = <<>>
    BY <1>2 DEF Delete
  <2>. QED  BY <1>2, <2>1, NoCall
<1>. QED  BY <1>1, <1>2

LEMMA InterfaceCalls ==
  /\ CreateInterface \o AddInterfaceToZone \in Call
  /\ Whole(CreateInterface \o AddInterfaceToZone)
  /\ CreateInterface \o AddInterfaceToZone # <<>>
  /\ DeleteInterface \in Call /\ Whole(DeleteInterface) /\ DeleteInterface # <<>>
  /\ \A x : Has(CreateInterface \o AddInterfaceToZone, x) <=>
              x \in {Op("set", "interface"), Op("join", "zone")}
  /\ \A x : Has(DeleteInterface, x) <=>
              x \in {Op("read", "zone"), Op("clear", "zone"), Op("refill", "zone"),
                     Op("unset", "interface")}
<1>. DEFINE a == Op("read", "zone") b == Op("clear", "zone") c == Op("refill", "zone")
            d == Op("unset", "interface") e == Op("set", "interface") f == Op("join", "zone")
<1>1. /\ a.do = "read" /\ d.do = "unset" /\ e.do = "set" /\ f.do = "join"
      /\ a \in Cmd /\ b \in Cmd /\ c \in Cmd /\ d \in Cmd /\ e \in Cmd /\ f \in Cmd
  BY Cmds, OpFields
<1>2. e # f
  BY <1>1
<1>3. CreateInterface \o AddInterfaceToZone = <<e, f>>
  BY <1>1, JoinOnes DEF CreateInterface, AddInterfaceToZone
<1>4. DeleteInterface = <<a, b, c, d>>
  BY <1>1, JoinThree DEF DeleteInterface, RemoveInterfaceFromZone
<1>5. b = Op("clear", "zone") /\ c = Op("refill", "zone")
  OBVIOUS
<1>6. \A x : x \in {a, b, c, d} <=> x = a \/ x = b \/ x = c \/ x = d
  OBVIOUS
<1>7. \A x : x \in {e, f} <=> x = e \/ x = f
  OBVIOUS
<1>8. <<e, f>> \in Call /\ Whole(<<e, f>>) /\ <<e, f>> # <<>>
      /\ \A x : Has(<<e, f>>, x) <=> x \in {e, f}
  <2>. HIDE DEF a, b, c, d, e, f
  <2>. QED  BY <1>1, <1>2, <1>7, PairCall, Two
<1>9. <<a, b, c, d>> \in Call /\ Whole(<<a, b, c, d>>) /\ <<a, b, c, d>> # <<>>
      /\ \A x : Has(<<a, b, c, d>>, x) <=> x \in {a, b, c, d}
  <2>. HIDE DEF a, b, c, d, e, f
  <2>. QED  BY <1>1, <1>5, <1>6, FourCall, Four
<1>. QED  BY <1>3, <1>4, <1>8, <1>9

\* What a clean-up has to do for every list and for the zone.
Swept == {Op("find", l) : l \in List} \cup {Op("read", "zone"), Op("unset", "interface")}

LEMMA CleanUpScript ==
  /\ Fresh(CleanUp) /\ Swept \subseteq Ops(CleanUp)
  /\ \A c \in Ops(CleanUp) : c.do \in {"find", "drop", "read", "clear", "refill", "unset"}
<1>. DEFINE td1 == Groups(Delete("device"), <<>>)
            td2 == <<DeleteInterface>> \o td1
            td3 == Groups(Delete("host"), td2)
            td4 == Groups(Delete("redirect"), td3)
<1>1. CleanUp = td4 /\ td2 = Groups(DeleteInterface, td1)
  BY InterfaceCalls DEF CleanUp, CleanUpWith, Groups
<1>2. Fresh(td1) /\ Ops(td1) = {c \in Cmd : Has(Delete("device"), c)}
  BY DeleteCall, GroupsScript, NoScript
<1>. HIDE DEF td1
<1>3. Fresh(td2) /\ Ops(td2) = {c \in Cmd : Has(DeleteInterface, c)} \cup Ops(td1)
  BY <1>1, <1>2, InterfaceCalls, GroupsScript
<1>. HIDE DEF td2
<1>4. Fresh(td3) /\ Ops(td3) = {c \in Cmd : Has(Delete("host"), c)} \cup Ops(td2)
  BY <1>3, DeleteCall, GroupsScript
<1>. HIDE DEF td3
<1>5. Fresh(td4) /\ Ops(td4) = {c \in Cmd : Has(Delete("redirect"), c)} \cup Ops(td3)
  BY <1>4, DeleteCall, GroupsScript
<1>. HIDE DEF td4
<1>6. \A c : c \in Ops(CleanUp) <=>
               /\ c \in Cmd
               /\ \/ Has(Delete("device"), c) \/ Has(DeleteInterface, c)
                  \/ Has(Delete("host"), c) \/ Has(Delete("redirect"), c)
  BY <1>1, <1>2, <1>3, <1>4, <1>5
<1>7. \A c \in Ops(CleanUp) : c.do \in {"find", "drop", "read", "clear", "refill", "unset"}
  BY <1>6, DeleteCall, InterfaceCalls, OpFields
<1>8. Swept \subseteq Ops(CleanUp)
  <2>1. ASSUME NEW l \in List PROVE Op("find", l) \in Ops(CleanUp)
    <3>1. l = "device" \/ l = "host" \/ l = "redirect"
      BY RouterAssumption
    <3>. QED  BY <1>6, <3>1, Cmds, DeleteCall
  <2>2. Op("read", "zone") \in Ops(CleanUp) /\ Op("unset", "interface") \in Ops(CleanUp)
    BY <1>6, Cmds, InterfaceCalls
  <2>. QED  BY <2>1, <2>2 DEF Swept
<1>. QED  BY <1>1, <1>5, <1>7, <1>8

LEMMA VisitScript ==
  ASSUME NEW td \in Visits
  PROVE  Fresh(td) /\ \A c \in Ops(td) : c.on \notin List
<1>1. PICK g \in {CreateInterface \o AddInterfaceToZone, DeleteInterface} : td = <<g>>
  BY DEF Visits
<1>2. g \in Call /\ Whole(g) /\ g # <<>>
      /\ \A x : Has(g, x) => x \in {Op("set", "interface"), Op("join", "zone"), Op("read", "zone"),
                      Op("clear", "zone"), Op("refill", "zone"), Op("unset", "interface")}
  BY <1>1, InterfaceCalls
<1>3. "interface" \notin List /\ "zone" \notin List
  BY RouterAssumption
<1>4. td = Groups(g, <<>>)
  BY <1>1, <1>2, OneCall
<1>5. \A x : Has(g, x) => x.on \in {"interface", "zone"}
  BY <1>2, OpFields
<1>. QED  BY <1>2, <1>3, <1>4, <1>5, OneCall

-----------------------------------------------------------------------------
(* The inductive invariant                                                 *)

Still  == {"new", "cloning", "ssh", "ready", "gone", "failed"}
Locked == {"setUp", "forward", "cleanUp"}
Left(t) == Ops(run[t].todo)

Thread == [at : Stage, todo : Seq(Call), index : Nat, nets : SUBSET (Name \cup {Lan})]

\* What a thread may still have to do where it is.
WorkOf(t) ==
  /\ run[t].at \in Still => run[t].todo = <<>>
  /\ run[t].at \in {"setUp", "forward"} =>
       /\ Len(run[t].todo) <= 1
       /\ \A c \in Left(t) : c.do \in {"add", "name", "set", "join"}
  /\ run[t].at = "setUp" => \A c \in Left(t) : c.on \in List => c.on = "device"
  /\ run[t].at \in {"cleanUp", "late"} =>
       \A c \in Left(t) : c.do \in {"find", "drop", "read", "clear", "refill", "unset"}
  /\ run[t].at = "visit" => \A c \in Left(t) : c.on \notin List
  /\ \A l \in List : Pending(t, "name", l) => Op("add", l) \notin Left(t)
WhoOf(t) ==
  /\ run[t].at \in Locked <=> lock = t
  /\ IF t \in Cluster THEN run[t].at # "visit" ELSE run[t].at \in {"new", "visit", "gone"}
Threads == /\ run \in [Name -> Thread]
           /\ \A t \in Name : Script(run[t].todo) /\ WorkOf(t) /\ WhoOf(t)

\* A thread that has yet to make its section in a list has none.
MayAdd(t, l) ==
  \/ run[t].at = "new" \/ (run[t].at \in {"setUp", "cloning"} /\ l # "device")
  \/ Op("add", l) \in Left(t) \/ Pending(t, "name", l)

\* The sections of an unspoilt list are in order: one to a name, the new one last,
\* an index that was found still the right one.
Section(l) ==
  /\ \A i, j \in 1..Len(lists[l]) : lists[l][i] = lists[l][j] /\ lists[l][i] # None => i = j
  /\ \A t \in Name : MayAdd(t, l) => t \notin Held(l)
  /\ \A t \in Name : Pending(t, "name", l) => lists[l] # <<>> /\ lists[l][Len(lists[l])] = None
  /\ \A t \in Name : Pending(t, "drop", l) =>
       run[t].index \in 1..Len(lists[l]) /\ lists[l][run[t].index] = t
  /\ failed = {} => \A i \in 1..Len(lists[l]) : lists[l][i] = None =>
       i = Len(lists[l]) /\ \E t \in Name : Pending(t, "name", l)

\* The zone is what was read of it until it is cleared; then it is empty, and its
\* members are with the thread that writes it anew.
Ready == {k \in Cluster : Free(k, "ready")}
Zone ==
  /\ \A t \in Name : Pending(t, "clear", "zone") => run[t].nets = zone
  /\ \A t \in Name : Pending(t, "refill", "zone") =>
       /\ zone = {} /\ {Lan} \cup Ready \subseteq run[t].nets
       /\ \A u \in Name : Pending(u, "refill", "zone") => u = t
  /\ ~Rewriting => {Lan} \cup Ready \subseteq zone

\* Who is, or will be again, in the zone.
Member(k) == k \in zone \/ \E u \in Name : Pending(u, "refill", "zone") /\ k \in run[u].nets

Kept(k) == Free(k, "ready") => k \in named /\ \A l \in List \ spoilt : k \in Held(l)

\* What a clean-up has not removed yet it is going to remove.
CleanedUp(k) ==
  /\ \A l \in List \ spoilt : k \in Held(l) => Op("find", l) \in Left(k) \/ Pending(k, "drop", l)
  /\ "zone" \notin spoilt =>
       /\ k \in named => Op("unset", "interface") \in Left(k)
       /\ Member(k) => \/ Op("read", "zone") \in Left(k)
                       \/ Pending(k, "clear", "zone") \/ Pending(k, "refill", "zone")

IInv == /\ TypeOK
        /\ Threads
        /\ \A l \in List \ spoilt : Section(l)
        /\ "zone" \notin spoilt => Zone
        /\ \A k \in Cluster : Kept(k)
        /\ \A k \in Cluster \ failed : run[k].at \in {"cleanUp", "late", "gone"} => CleanedUp(k)

-----------------------------------------------------------------------------
(* What is left to do after a command                                      *)

LEMMA CmdIsOp == ASSUME NEW c \in Cmd PROVE c = Op(c.do, c.on)
BY DEF Cmd, Op

LEMMA CmdKinds ==
  ASSUME NEW c \in Cmd
  PROVE  /\ c.do \in {"add", "name", "find", "drop"} <=> c.on \in List
         /\ c.do \in {"set", "unset"} => c.on = "interface"
         /\ c.do \in {"join", "read", "clear", "refill"} => c.on = "zone"
         /\ c.do \in {"add", "name", "find", "drop", "set", "unset", "join", "read", "clear", "refill"}
<1>1. "interface" \notin List /\ "zone" \notin List
  BY RouterAssumption
<1>. QED  BY <1>1 DEF Cmd, Op

\* What may come second in a script says what came first.
Heir(h, d) ==
  \/ h.do = "add" /\ d = Op("name", h.on)
  \/ h.do = "find" /\ d = Op("drop", h.on)
  \/ h.do = "read" /\ d = Op("clear", "zone")
  \/ h.do = "clear" /\ d = Op("refill", "zone")

LEMMA AfterCommand ==
  ASSUME NEW td, Script(td), td # <<>>
  PROVE  LET h == First(td)
             next == Groups(Tail(Head(td)), Tail(td))
         IN /\ h \in Ops(td) /\ h \in Cmd
            /\ Script(next) /\ Ops(next) \subseteq Ops(td) /\ Ops(td) \subseteq {h} \cup Ops(next)
            /\ Len(td) <= 1 => Len(next) <= 1 /\ h \notin Ops(next)
            /\ h.do \in Leading => next # <<>> /\ Heir(h, First(next))
            /\ h.do \notin Leading => Fresh(next)
<1>. DEFINE h == First(td)
            g == Head(td)
            rest == Tail(td)
            next == Groups(Tail(g), rest)
<1>1. /\ Fresh(rest) /\ g \in Call /\ g # <<>>
      /\ Len(td) <= 1 => rest = <<>>
      /\ Ops(td) = {c \in Cmd : Has(g, c)} \cup Ops(rest)
  BY TailOfScript
<1>2. h = Head(g)
  BY DEF First
<1>. HIDE DEF g, rest, h
<1>3. /\ Tail(g) \in Call /\ h \in Cmd
      /\ \A c : Has(g, c) <=> c = h \/ Has(Tail(g), c)
      /\ ~Has(Tail(g), h)
      /\ h.do = "add"  => Tail(g) # <<>> /\ Head(Tail(g)) = Op("name", h.on)
      /\ h.do = "find" => Tail(g) # <<>> /\ Head(Tail(g)) = Op("drop", h.on)
      /\ h.do = "read" => Tail(g) # <<>> /\ Head(Tail(g)) = Op("clear", "zone")
      /\ h.do = "clear" => Tail(g) # <<>> /\ Head(Tail(g)) = Op("refill", "zone")
      /\ h.do \notin Leading /\ Tail(g) # <<>> => Whole(Tail(g))
  BY <1>1, <1>2, TailOfCall
<1>4. /\ Script(next)
      /\ Tail(g) # <<>> => next # <<>> /\ Head(next) = Tail(g)
      /\ rest = <<>> => Len(next) <= 1
      /\ (Tail(g) # <<>> => Whole(Tail(g))) => Fresh(next)
      /\ Ops(next) = {c \in Cmd : Has(Tail(g), c)} \cup Ops(rest)
  BY <1>1, <1>3, GroupsScript
<1>. HIDE DEF next
<1>5. Ops(<<>>) = {}
  BY NoScript
<1>6. h \in Ops(td) /\ Ops(next) \subseteq Ops(td) /\ Ops(td) \subseteq {h} \cup Ops(next)
  BY <1>1, <1>3, <1>4
<1>7. Len(td) <= 1 => Len(next) <= 1 /\ h \notin Ops(next)
  BY <1>1, <1>3, <1>4, <1>5
<1>8. h.do \in Leading => next # <<>> /\ Heir(h, First(next))
  BY <1>3, <1>4 DEF Leading, Heir, First
<1>9. h.do \notin Leading => Fresh(next)
  BY <1>3, <1>4
<1>10. h \in Cmd /\ Script(next)
  BY <1>3, <1>4
<1>. QED  BY <1>6, <1>7, <1>8, <1>9, <1>10 DEF h, g, rest, next

LEMMA AfterCall ==
  ASSUME NEW td, Script(td), td # <<>>
  PROVE  /\ Fresh(Tail(td)) /\ Ops(Tail(td)) \subseteq Ops(td)
         /\ Len(td) <= 1 => Len(Tail(td)) <= 1
         /\ First(td).do = "find" => Ops(td) \subseteq {First(td), Op("drop", First(td).on)} \cup Ops(Tail(td))
<1>. DEFINE g == Head(td)
            h == Head(g)
<1>1. /\ Fresh(Tail(td)) /\ g \in Call /\ g # <<>>
      /\ Len(td) <= 1 => Tail(td) = <<>>
      /\ Ops(td) = {c \in Cmd : Has(g, c)} \cup Ops(Tail(td))
  BY TailOfScript
<1>. HIDE DEF g
<1>2. Len(<<>>) = 0
  OBVIOUS
<1>3. ASSUME h.do = "find" PROVE \A c : Has(g, c) => c = h \/ c = Op("drop", h.on)
  <2>1. /\ Tail(g) \in Call /\ Len(g) = 2 /\ Tail(g) # <<>> /\ Head(Tail(g)) = Op("drop", h.on)
        /\ \A c : Has(g, c) <=> c = h \/ Has(Tail(g), c)
    BY <1>1, <1>3, TailOfCall
  <2>2. g \in Seq(Cmd)
    BY <1>1 DEF Call
  <2>. DEFINE s == Tail(g)
  <2>3. Len(s) = 1 /\ s \in Seq(Cmd)
    BY <1>1, <2>1, <2>2, HeadAndTail
  <2>4. Head(s) = s[1] /\ Head(s) = Op("drop", h.on)
    BY <2>1, <2>3, HeadAndTail
  <2>. HIDE DEF s
  <2>5. \A i \in 1..Len(s) : i = 1
    BY <2>3
  <2>6. \A c : Has(s, c) => c = Op("drop", h.on)
    BY <2>4, <2>5 DEF Has
  <2>. QED  BY <2>1, <2>6 DEF s
<1>4. First(td) = h
  BY DEF First, g
<1>. HIDE DEF h
<1>. QED  BY <1>1, <1>2, <1>3, <1>4

\* An interface that is not in the zone needs no rewriting of it.
LEMMA AfterSkip ==
  ASSUME NEW td, Script(td), td # <<>>, First(td).do = "read"
  PROVE  LET next == Groups(SubSeq(Head(td), 4, Len(Head(td))), Tail(td))
         IN /\ Fresh(next) /\ Ops(next) \subseteq Ops(td)
            /\ Ops(td) \subseteq {Op("read", "zone"), Op("clear", "zone"), Op("refill", "zone")} \cup Ops(next)
            /\ Len(td) <= 1 => Len(next) <= 1
<1>. DEFINE g == Head(td)
            g2 == Tail(g)
            g3 == Tail(g2)
            g4 == Tail(g3)
            rest == Tail(td)
            next == Groups(g4, rest)
<1>1. /\ Fresh(rest) /\ g \in Call /\ g # <<>>
      /\ Len(td) <= 1 => rest = <<>>
      /\ Ops(td) = {c \in Cmd : Has(g, c)} \cup Ops(rest)
  BY TailOfScript
<1>2. Head(g).do = "read" /\ Head(g) = Op("read", "zone")
  <2>1. Head(g).do = "read"
    BY DEF First
  <2>2. Head(g) \in Cmd
    BY <1>1, TailOfCall
  <2>. QED  BY <2>1, <2>2, CmdIsOp, CmdKinds
<1>. HIDE DEF g
<1>3. /\ g2 \in Call /\ g2 # <<>> /\ Len(g) > 2 /\ Head(g2) = Op("clear", "zone")
      /\ \A c : Has(g, c) <=> c = Head(g) \/ Has(g2, c)
  BY <1>1, <1>2, TailOfCall
<1>. HIDE DEF g2
<1>4. Head(g2).do = "clear"
  BY <1>3, OpFields
<1>5. /\ g3 \in Call /\ g3 # <<>> /\ Head(g3) = Op("refill", "zone")
      /\ \A c : Has(g2, c) <=> c = Head(g2) \/ Has(g3, c)
  BY <1>3, <1>4, TailOfCall
<1>. HIDE DEF g3
<1>6. Head(g3).do \notin Leading
  BY <1>5, OpFields DEF Leading
<1>7. /\ g4 \in Call /\ (g4 # <<>> => Whole(g4))
      /\ \A c : Has(g3, c) <=> c = Head(g3) \/ Has(g4, c)
  BY <1>5, <1>6, TailOfCall
<1>8. SubSeq(g, 4, Len(g)) = g4
  <2>1. g \in Seq(Cmd) /\ g2 \in Seq(Cmd) /\ g3 \in Seq(Cmd)
    BY <1>1, <1>3, <1>5 DEF Call
  <2>2. /\ g2 \in Seq(Cmd) /\ Len(g2) = Len(g) - 1 /\ Len(g) \in Nat /\ Len(g) > 2
        /\ \A i \in 1..Len(g2) : g2[i] = g[i + 1] /\ i + 1 \in 1..Len(g)
    BY <1>1, <1>3, <2>1, HeadAndTail DEF g2
  <2>3. /\ g3 \in Seq(Cmd) /\ Len(g3) = Len(g2) - 1
        /\ \A i \in 1..Len(g3) : g3[i] = g2[i + 1] /\ i + 1 \in 1..Len(g2)
    BY <1>3, <2>1, HeadAndTail DEF g3
  <2>4. /\ g4 \in Seq(Cmd) /\ Len(g4) = Len(g3) - 1
        /\ \A i \in 1..Len(g4) : g4[i] = g3[i + 1] /\ i + 1 \in 1..Len(g3)
    BY <1>5, <2>1, HeadAndTail
  <2>. DEFINE s == SubSeq(g, 4, Len(g))
  <2>5. /\ s \in Seq(Cmd) /\ Len(s) = Len(g) - 3
        /\ \A i \in 1..Len(s) : s[i] = g[i + 3]
    BY <2>1, <2>2
  <2>. HIDE DEF s, g4
  <2>6. Len(s) = Len(g4)
    BY <2>2, <2>3, <2>4, <2>5
  <2>7. ASSUME NEW i \in 1..Len(s) PROVE s[i] = g4[i]
    <3>1. i \in 1..Len(g4) /\ g4[i] = g3[i + 1] /\ i + 1 \in 1..Len(g3)
      BY <2>4, <2>6
    <3>2. g3[i + 1] = g2[(i + 1) + 1] /\ (i + 1) + 1 \in 1..Len(g2)
      BY <2>3, <3>1
    <3>3. g2[(i + 1) + 1] = g[((i + 1) + 1) + 1]
      BY <2>2, <3>2
    <3>4. ((i + 1) + 1) + 1 = i + 3
      BY <3>1
    <3>. QED  BY <2>5, <3>1, <3>2, <3>3, <3>4
  <2>8. s = g4
    BY <2>4, <2>5, <2>6, <2>7, SeqEqual
  <2>. QED  BY <2>8 DEF s
<1>. HIDE DEF g4
<1>9. /\ Fresh(next)
      /\ rest = <<>> => Len(next) <= 1
      /\ Ops(next) = {c \in Cmd : Has(g4, c)} \cup Ops(rest)
  BY <1>1, <1>7, GroupsScript
<1>. HIDE DEF next
<1>10. Ops(next) \subseteq Ops(td) /\ (Len(td) <= 1 => Len(next) <= 1)
       /\ Ops(td) \subseteq {Op("read", "zone"), Op("clear", "zone"), Op("refill", "zone")} \cup Ops(next)
  BY <1>1, <1>2, <1>3, <1>5, <1>7, <1>9
<1>11. next = Groups(SubSeq(Head(td), 4, Len(Head(td))), Tail(td))
  BY <1>8 DEF next, g
<1>. QED  BY <1>9, <1>10, <1>11

-----------------------------------------------------------------------------
(* What a command of t, or its failure, does to the threads                *)

LEMMA FirstIsLeft ==
  ASSUME NEW td, Script(td), td # <<>>
  PROVE  First(td) \in Ops(td) /\ First(td) \in Cmd
BY AfterCommand

LEMMA PendingIsLeft ==
  ASSUME Threads, NEW t \in Name, NEW do, NEW on, Pending(t, do, on)
  PROVE  Op(do, on) \in Left(t)
BY FirstIsLeft DEF Threads, Pending, Busy, NextOp, First, Left

Onward(t, h) ==
  /\ run'[t].at = run[t].at
  /\ Script(run'[t].todo) /\ Left(t)' \subseteq Left(t)
  /\ Len(run[t].todo) <= 1 => Len(run'[t].todo) <= 1
  /\ \A do \in Second : \A on : Pending(t, do, on)' =>
       Heir(h, Op(do, on)) /\ (Len(run[t].todo) <= 1 => h \notin Left(t)')
Undone(t) ==
  /\ run[t].at = "setUp" /\ run'[t].at = "cleanUp" /\ run'[t].todo = CleanUp /\ t \in failed'
Moved(t, h) ==
  /\ Busy(t) /\ h = NextOp(t)
  /\ \A u \in Name \ {t} : run'[u] = run[u]
  /\ run' \in [Name -> Thread] /\ lock' = lock
  /\ Onward(t, h) \/ Undone(t)
  /\ spoilt \subseteq spoilt' /\ failed \subseteq failed' /\ failed' \subseteq failed \cup {t}

LEMMA Advances ==
  ASSUME Threads, NEW t \in Name, Busy(t), NEW h, h = NextOp(t),
         run'[t].at = run[t].at, run'[t].todo = Advanced(t)
  PROVE  /\ Onward(t, h) /\ h \in Cmd /\ h \in Left(t)
         /\ Left(t) \subseteq {h} \cup Left(t)'
         /\ Len(run[t].todo) <= 1 => h \notin Left(t)'
         /\ \A do, on : Heir(h, Op(do, on)) => Pending(t, do, on)'
<1>. DEFINE td == run[t].todo
            next == Groups(Tail(Head(td)), Tail(td))
<1>1. /\ h \in Ops(td) /\ h \in Cmd
      /\ Script(next) /\ Ops(next) \subseteq Ops(td) /\ Ops(td) \subseteq {h} \cup Ops(next)
      /\ Len(td) <= 1 => Len(next) <= 1 /\ h \notin Ops(next)
      /\ h.do \in Leading => next # <<>> /\ Heir(h, First(next))
      /\ h.do \notin Leading => Fresh(next)
  <2>1. Script(td) /\ td # <<>> /\ h = First(td)
    BY DEF Threads, Busy, NextOp, First
  <2>. HIDE DEF td
  <2>. QED  BY <2>1, AfterCommand
<1>2. run'[t].todo = next
  BY DEF Advanced
<1>3. Left(t)' = Ops(next) /\ Left(t) = Ops(td)
  BY <1>2 DEF Left
<1>4. ASSUME NEW do, NEW on
      PROVE  Pending(t, do, on)' <=> next # <<>> /\ First(next) = Op(do, on)
  BY <1>2 DEF Pending, Busy, NextOp, First
<1>. HIDE DEF next
<1>5. ASSUME NEW do \in Second, NEW on, Pending(t, do, on)' PROVE Heir(h, Op(do, on))
  <2>1. next # <<>> /\ First(next) = Op(do, on)
    BY <1>4, <1>5
  <2>2. h.do \in Leading
    <3>1. First(next) = next[1][1]
      <4>1. next \in Seq(Call) /\ next # <<>> /\ Len(next) \in Nat
        BY <1>1, <2>1, EmptyOrNot DEF Script
      <4>2. Head(next) = next[1] /\ 1 \in 1..Len(next)
        BY <4>1, HeadAndTail
      <4>3. next[1] \in Seq(Cmd) /\ next[1] # <<>>
        BY <1>1, <4>1, <4>2 DEF Script, Call
      <4>. QED  BY <4>2, <4>3, HeadAndTail DEF First
    <3>2. Op(do, on).do = do
      BY OpFields
    <3>3. next[1][1].do \in Second
      BY <2>1, <3>1, <3>2
    <3>. QED  BY <1>1, <2>1, <3>3 DEF Fresh, Whole
  <2>. QED  BY <1>1, <2>1, <2>2
<1>6. ASSUME NEW do, NEW on, Heir(h, Op(do, on)) PROVE Pending(t, do, on)'
  <2>1. h.do \in Leading
    BY <1>6 DEF Heir, Leading
  <2>2. next # <<>> /\ Heir(h, First(next))
    BY <1>1, <2>1
  <2>3. First(next) = Op(do, on)
    BY <1>6, <2>2 DEF Heir
  <2>. QED  BY <1>4, <2>2, <2>3
<1>. QED  BY <1>1, <1>2, <1>3, <1>5, <1>6 DEF Onward

\* Nothing is half done after a call that ended.
LEMMA FreshPending ==
  ASSUME NEW t \in Name, Fresh(run'[t].todo), NEW do \in Second, NEW on
  PROVE  ~Pending(t, do, on)'
<1>. DEFINE next == run'[t].todo
<1>1. SUFFICES ASSUME next # <<>>, Head(Head(next)) = Op(do, on) PROVE FALSE
  BY DEF Pending, Busy, NextOp
<1>. HIDE DEF next
<1>2. Fresh(next)
  BY DEF next
<1>3. next \in Seq(Call)
  BY <1>2 DEF Fresh, Script
<1>4. Head(next) = next[1] /\ 1 \in 1..Len(next)
  BY <1>1, <1>3, HeadAndTail
<1>5. next[1] \in Seq(Cmd) /\ next[1] # <<>>
  BY <1>2, <1>3, <1>4 DEF Fresh, Script, Call
<1>6. Head(next[1]) = next[1][1]
  BY <1>5, HeadAndTail
<1>. QED  BY <1>1, <1>2, <1>4, <1>6, OpFields DEF Fresh, Whole

LEMMA Ends ==
  ASSUME Threads, NEW t \in Name, Busy(t), NEW h, h = NextOp(t),
         run'[t].at = run[t].at, run'[t].todo = Returned(t)
  PROVE  /\ Onward(t, h) /\ h \in Cmd
         /\ \A do \in Second : \A on : ~Pending(t, do, on)'
         /\ h.do = "find" => Left(t) \subseteq {h, Op("drop", h.on)} \cup Left(t)'
<1>. DEFINE td == run[t].todo
<1>1. Script(td) /\ td # <<>> /\ h = First(td)
  BY DEF Threads, Busy, NextOp, First
<1>2. /\ Fresh(Tail(td)) /\ Ops(Tail(td)) \subseteq Ops(td)
      /\ Len(td) <= 1 => Len(Tail(td)) <= 1
      /\ h.do = "find" => Ops(td) \subseteq {h, Op("drop", h.on)} \cup Ops(Tail(td))
  <2>. HIDE DEF td
  <2>. QED  BY <1>1, AfterCall
<1>3. run'[t].todo = Tail(td) /\ Left(t) = Ops(td) /\ Left(t)' = Ops(Tail(td))
  BY DEF Returned, Left
<1>4. \A do \in Second : \A on : ~Pending(t, do, on)'
  BY <1>2, <1>3, FreshPending
<1>5. h \in Cmd
  <2>. HIDE DEF td
  <2>. QED  BY <1>1, FirstIsLeft
<1>. QED  BY <1>2, <1>3, <1>4, <1>5 DEF Onward, Fresh

LEMMA Skips ==
  ASSUME Threads, NEW t \in Name, Pending(t, "read", "zone"), NEW h, h = NextOp(t),
         run'[t].at = run[t].at,
         run'[t].todo = Groups(SubSeq(Head(run[t].todo), 4, Len(Head(run[t].todo))), Tail(run[t].todo))
  PROVE  /\ Onward(t, h) /\ h \in Cmd
         /\ \A do \in Second : \A on : ~Pending(t, do, on)'
         /\ Left(t) \subseteq {Op("read", "zone"), Op("clear", "zone"), Op("refill", "zone")} \cup Left(t)'
<1>. DEFINE td == run[t].todo
            next == Groups(SubSeq(Head(td), 4, Len(Head(td))), Tail(td))
<1>1. Script(td) /\ td # <<>> /\ h = First(td) /\ h = Op("read", "zone")
  BY DEF Threads, Pending, Busy, NextOp, First
<1>2. h.do = "read"
  BY <1>1, OpFields
<1>3. /\ Fresh(next) /\ Ops(next) \subseteq Ops(td)
      /\ Ops(td) \subseteq {Op("read", "zone"), Op("clear", "zone"), Op("refill", "zone")} \cup Ops(next)
      /\ Len(td) <= 1 => Len(next) <= 1
  <2>. HIDE DEF td
  <2>. QED  BY <1>1, <1>2, AfterSkip
<1>4. run'[t].todo = next /\ Left(t) = Ops(td) /\ Left(t)' = Ops(next)
  BY DEF Left
<1>5. \A do \in Second : \A on : ~Pending(t, do, on)'
  BY <1>3, <1>4, FreshPending
<1>6. h \in Cmd
  <2>. HIDE DEF td, next
  <2>. QED  BY <1>1, FirstIsLeft
<1>. QED  BY <1>3, <1>4, <1>5, <1>6 DEF Onward, Fresh

LEMMA Where ==
  ASSUME Threads, NEW t \in Name
  PROVE  /\ run[t] \in Thread /\ run[t].at \in Stage /\ run[t].todo \in Seq(Call)
         /\ run[t].index \in Nat /\ run[t].nets \in SUBSET (Name \cup {Lan})
         /\ Stage = Still \cup Locked \cup {"late", "visit"}
         /\ Busy(t) => run[t].at \notin Still
BY DEF Threads, Thread, Stage, Still, Locked, WorkOf, Busy

\* Of two threads at work one does without the lock.
LEMMA TwoBusy ==
  ASSUME Threads, NEW t \in Name, NEW u \in Name, t # u, Busy(t), Busy(u)
  PROVE  Unlocked(t) \/ Unlocked(u)
<1>1. run[t].at \in Locked \/ Unlocked(t)
  BY Where DEF Unlocked
<1>2. run[u].at \in Locked \/ Unlocked(u)
  BY Where DEF Unlocked
<1>. QED  BY <1>1, <1>2 DEF Threads, WhoOf

\* A list is spoilt, and the zone, when a thread upsets another at work on it.
LEMMA NoUpset ==
  ASSUME Threads, NEW t \in Name, NEW u \in Name \ {t}, Busy(t),
         spoilt' = IF Races(t) THEN spoilt \cup {NextOp(t).on} ELSE spoilt,
         NextOp(t).on \notin spoilt'
  PROVE  ~Upsets(NextOp(t), u)
<1>1. SUFFICES ASSUME Upsets(NextOp(t), u) PROVE FALSE
  OBVIOUS
<1>2. Busy(u)
  BY <1>1 DEF Upsets, Pending
<1>3. Races(t)
  BY <1>1, <1>2, TwoBusy DEF Races
<1>. QED  BY <1>3

LEMMA Others ==
  ASSUME NEW t \in Name, NEW h, Moved(t, h), NEW u \in Name \ {t}
  PROVE  /\ run'[u] = run[u] /\ Left(u)' = Left(u) /\ (Busy(u)' <=> Busy(u))
         /\ \A do, on : Pending(u, do, on)' <=> Pending(u, do, on)
         /\ \A s : Free(u, s)' <=> Free(u, s)
<1>1. run'[u] = run[u]
  BY DEF Moved
<1>2. NextOp(u)' = NextOp(u)
  BY <1>1 DEF NextOp
<1>. QED  BY <1>1, <1>2 DEF Left, Busy, Pending, Free

LEMMA MovedThreads ==
  ASSUME Threads, NEW t \in Name, NEW h, Moved(t, h)
  PROVE  Threads'
<1>1. ASSUME NEW u \in Name, u # t
      PROVE  Script(run'[u].todo) /\ WorkOf(u)' /\ WhoOf(u)'
  <2>1. u \in Name \ {t}
    BY <1>1
  <2>2. /\ run'[u] = run[u] /\ Left(u)' = Left(u)
        /\ \A l \in List : Pending(u, "name", l)' <=> Pending(u, "name", l)
    BY <2>1, Others
  <2>3. lock' = lock /\ Script(run[u].todo) /\ WorkOf(u) /\ WhoOf(u)
    BY DEF Moved, Threads
  <2>4. WorkOf(u)'
    BY <2>2, <2>3 DEF WorkOf
  <2>. QED  BY <2>2, <2>3, <2>4 DEF WhoOf
<1>2. Busy(t) /\ WorkOf(t) /\ WhoOf(t) /\ lock' = lock /\ run[t].at \notin Still /\ run[t].at \in Stage
  BY Where DEF Moved, Threads
<1>3. CASE Onward(t, h)
  <2>1. ASSUME NEW l \in List, Pending(t, "name", l)' PROVE Op("add", l) \notin Left(t)'
    <3>1. Heir(h, Op("name", l)) /\ (Len(run[t].todo) <= 1 => h \notin Left(t)')
      BY <1>3, <2>1 DEF Onward, Second
    <3>2. Op("name", l).do = "name" /\ Op("name", l).on = l
      BY OpFields
    <3>3. h.do = "add" /\ h.on = l
      <4>1. h.do = "add" /\ Op("name", l) = Op("name", h.on)
        BY <3>1 DEF Heir, Op
      <4>2. Op("name", h.on).on = h.on
        BY OpFields
      <4>. QED  BY <3>2, <4>1, <4>2
    <3>4. h \in Cmd /\ h \in Left(t)
      <4>1. h = First(run[t].todo) /\ run[t].todo # <<>> /\ Script(run[t].todo)
        BY DEF Moved, NextOp, First, Busy, Threads
      <4>. QED  BY <4>1, FirstIsLeft DEF Left
    <3>5. h = Op("add", l)
      BY <3>3, <3>4, CmdIsOp
    <3>6. run[t].at \in {"setUp", "forward"}
      <4>1. run[t].at \notin {"cleanUp", "late"}
        BY <1>2, <3>3, <3>4 DEF WorkOf
      <4>2. run[t].at # "visit"
        BY <1>2, <3>3, <3>4 DEF WorkOf
      <4>. QED  BY <1>2, <4>1, <4>2 DEF Stage, Still
    <3>7. Len(run[t].todo) <= 1
      BY <1>2, <3>6 DEF WorkOf
    <3>. QED  BY <3>1, <3>5, <3>7
  <2>2. run'[t].at = run[t].at /\ Left(t)' \subseteq Left(t)
        /\ (Len(run[t].todo) <= 1 => Len(run'[t].todo) <= 1)
    BY <1>3 DEF Onward
  <2>3. WorkOf(t)'
    BY <1>2, <2>1, <2>2 DEF WorkOf
  <2>. QED  BY <1>1, <1>2, <1>3, <2>2, <2>3 DEF Threads, Moved, Onward, WhoOf
<1>4. CASE Undone(t)
  <2>1. run'[t].at = "cleanUp" /\ run'[t].todo = CleanUp /\ run[t].at = "setUp"
    BY <1>4 DEF Undone
  <2>2. Fresh(CleanUp) /\ \A c \in Ops(CleanUp) : c.do \in {"find", "drop", "read", "clear", "refill", "unset"}
    BY CleanUpScript
  <2>3. Left(t)' = Ops(CleanUp)
    BY <2>1 DEF Left
  <2>4. \A l \in List : ~Pending(t, "name", l)'
    BY <2>1, <2>2, FreshPending DEF Second
  <2>5. WorkOf(t)'
    BY <2>1, <2>2, <2>3, <2>4 DEF WorkOf, Still
  <2>6. WhoOf(t)'
    BY <1>2, <2>1 DEF WhoOf, Locked
  <2>. QED  BY <1>1, <2>1, <2>2, <2>5, <2>6 DEF Threads, Moved, Fresh
<1>. QED  BY <1>3, <1>4 DEF Moved

LEMMA CleanUpPending ==
  ASSUME NEW t \in Name, Undone(t), NEW do \in Second, NEW on
  PROVE  ~Pending(t, do, on)'
BY CleanUpScript, FreshPending DEF Undone

\* What is half done after the command follows from the command.
LEMMA PendingAfter ==
  ASSUME NEW t \in Name, NEW h, Moved(t, h), NEW do \in Second, NEW on, Pending(t, do, on)'
  PROVE  /\ Heir(h, Op(do, on)) /\ Onward(t, h)
         /\ do = "name"   => h.do = "add" /\ h.on = on
         /\ do = "drop"   => h.do = "find" /\ h.on = on
         /\ do = "clear"  => h.do = "read"
         /\ do = "refill" => h.do = "clear"
<1>1. Onward(t, h)
  BY CleanUpPending DEF Moved
<1>2. Heir(h, Op(do, on))
  BY <1>1 DEF Onward
<1>3. Op(do, on).do = do /\ Op(do, on).on = on
  BY OpFields
<1>4. /\ Op("name", h.on).do = "name" /\ Op("name", h.on).on = h.on
      /\ Op("drop", h.on).do = "drop" /\ Op("drop", h.on).on = h.on
      /\ Op("clear", "zone").do = "clear" /\ Op("refill", "zone").do = "refill"
  BY OpFields
<1>. QED  BY <1>1, <1>2, <1>3, <1>4 DEF Heir

LEMMA MovedMayAdd ==
  ASSUME Threads, NEW t \in Name, NEW h, Moved(t, h), NEW u \in Name, NEW l \in List, MayAdd(u, l)'
  PROVE  MayAdd(u, l)
<1>1. CASE u # t
  <2>1. /\ run'[u] = run[u] /\ Left(u)' = Left(u)
        /\ Pending(u, "name", l)' <=> Pending(u, "name", l)
    BY <1>1, Others
  <2>. QED  BY <2>1 DEF MayAdd
<1>2. CASE u = t
  <2>1. Busy(t) /\ run[t].at \notin Still
    BY Where DEF Moved
  <2>2. CASE Undone(t)
    <3>1. /\ run'[t].at = "cleanUp" /\ Left(t)' = Ops(CleanUp)
          /\ ~Pending(t, "name", l)'
      BY <2>2, CleanUpPending DEF Undone, Left, Second
    <3>2. Op("add", l).do = "add"
      BY OpFields
    <3>. QED  BY <1>2, <3>1, <3>2, CleanUpScript DEF MayAdd
  <2>3. CASE Onward(t, h)
    <3>1. CASE Pending(t, "name", l)'
      <4>1. h.do = "add" /\ h.on = l
        BY <3>1, PendingAfter DEF Second
      <4>2. h \in Cmd /\ h \in Left(t)
        <5>1. h = First(run[t].todo) /\ run[t].todo # <<>> /\ Script(run[t].todo)
          BY DEF Moved, NextOp, First, Busy, Threads
        <5>. QED  BY <5>1, FirstIsLeft DEF Left
      <4>3. h = Op("add", l)
        BY <4>1, <4>2, CmdIsOp
      <4>. QED  BY <1>2, <4>2, <4>3 DEF MayAdd
    <3>2. CASE ~Pending(t, "name", l)'
      BY <1>2, <2>3, <3>2 DEF MayAdd, Onward
    <3>. QED  BY <3>1, <3>2
  <2>. QED  BY <2>2, <2>3 DEF Moved
<1>. QED  BY <1>1, <1>2

LEMMA MovedReady ==
  ASSUME Threads, NEW t \in Name, NEW h, Moved(t, h)
  PROVE  /\ ~Free(t, "ready") /\ ~Free(t, "ready")'
         /\ \A k \in Cluster : Free(k, "ready")' <=> Free(k, "ready")
         /\ Ready' = Ready
<1>1. Busy(t) /\ run[t].at \notin Still
  BY Where DEF Moved
<1>2. run'[t].at = run[t].at \/ run'[t].at = "cleanUp"
  BY DEF Moved, Onward, Undone
<1>3. ~Free(t, "ready") /\ ~Free(t, "ready")'
  BY <1>1, <1>2 DEF Free, Still
<1>4. ASSUME NEW k \in Cluster PROVE Free(k, "ready")' <=> Free(k, "ready")
  <2>1. k \in Name
    BY DEF Name
  <2>. QED  BY <1>3, <2>1, Others
<1>. QED  BY <1>3, <1>4 DEF Ready

LEMMA MovedRewriting ==
  ASSUME NEW t \in Name, NEW h, Moved(t, h)
  PROVE  /\ ~Pending(t, "refill", "zone")' => (Rewriting' => Rewriting)
         /\ ~Pending(t, "refill", "zone") => (Rewriting => Rewriting')
BY Others DEF Rewriting

-----------------------------------------------------------------------------
(* What stays as it is                                                     *)

LEMMA SectionStays ==
  ASSUME Threads, NEW t \in Name, NEW h, Moved(t, h), NEW l \in List, Section(l), lists'[l] = lists[l],
         ~Pending(t, "name", l)', Pending(t, "name", l) => failed' # {},
         Pending(t, "drop", l)' => run'[t].index \in 1..Len(lists[l]) /\ lists[l][run'[t].index] = t
  PROVE  Section(l)'
<1>1. Held(l)' = Held(l)
  BY DEF Held
<1>2. \A u \in Name : MayAdd(u, l)' => u \notin Held(l)'
  BY <1>1, MovedMayAdd DEF Section
<1>3. ASSUME NEW u \in Name, Pending(u, "name", l)' PROVE Pending(u, "name", l)
  BY <1>3, Others
<1>4. ASSUME NEW u \in Name, Pending(u, "drop", l)'
      PROVE  run'[u].index \in 1..Len(lists[l]) /\ lists[l][run'[u].index] = u
  BY <1>4, Others DEF Section
<1>5. ASSUME failed' = {} PROVE failed = {} /\ \A u \in Name : Pending(u, "name", l) => Pending(u, "name", l)'
  BY <1>5, Others DEF Moved
<1>. QED  BY <1>1, <1>2, <1>3, <1>4, <1>5 DEF Section

\* A command on something else.
LEMMA OtherSection ==
  ASSUME Threads, NEW t \in Name, NEW h, Moved(t, h), NEW l \in List, Section(l), lists'[l] = lists[l],
         h.on # l
  PROVE  Section(l)'
<1>1. ~Pending(t, "name", l)' /\ ~Pending(t, "drop", l)'
  BY PendingAfter DEF Second
<1>2. ~Pending(t, "name", l)
  BY OpFields DEF Pending, Moved
<1>. QED  BY <1>1, <1>2, SectionStays

LEMMA ZoneStays ==
  ASSUME Threads, NEW t \in Name, NEW h, Moved(t, h), Zone, zone' = zone,
         ~Pending(t, "refill", "zone")', ~Pending(t, "refill", "zone"),
         Pending(t, "clear", "zone")' => run'[t].nets = zone
  PROVE  Zone'
<1>1. Ready' = Ready /\ (Rewriting' <=> Rewriting)
  BY MovedReady, MovedRewriting
<1>2. \A u \in Name \ {t} : /\ run'[u] = run[u]
                            /\ Pending(u, "clear", "zone")' <=> Pending(u, "clear", "zone")
                            /\ Pending(u, "refill", "zone")' <=> Pending(u, "refill", "zone")
  BY Others
<1>. QED  BY <1>1, <1>2 DEF Zone

\* The parts of the invariant that are left when the lists, the zone and what t
\* still has to remove are in order.
Entries(t) ==
  /\ \A l \in List \ spoilt' : Held(l)' \ {t, None} = Held(l) \ {t, None}
  /\ named' \ {t} = named \ {t}
  /\ "zone" \notin spoilt' => \A k \in Name \ {t} : Member(k)' => Member(k)

LEMMA MovedInv ==
  ASSUME IInv, NEW t \in Name, NEW h, Moved(t, h), TypeOK', Entries(t),
         \A l \in List \ spoilt' : Section(l)',
         "zone" \notin spoilt' => Zone',
         t \in Cluster \ failed' /\ run[t].at \in {"cleanUp", "late"} /\ CleanedUp(t) => CleanedUp(t)'
  PROVE  IInv'
<1>1. Threads'
  BY MovedThreads DEF IInv
<1>2. ASSUME NEW k \in Cluster PROVE Kept(k)'
  <2>1. SUFFICES ASSUME Free(k, "ready")' PROVE k \in named' /\ \A l \in List \ spoilt' : k \in Held(l)'
    BY DEF Kept
  <2>2. k # t /\ Free(k, "ready") /\ k # None
    BY <2>1, MovedReady, RouterAssumption DEF IInv, Name
  <2>3. k \in named /\ \A l \in List \ spoilt : k \in Held(l)
    BY <2>2 DEF IInv, Kept
  <2>4. spoilt \subseteq spoilt'
    BY DEF Moved
  <2>. QED  BY <2>2, <2>3, <2>4 DEF Entries
<1>3. ASSUME NEW k \in Cluster \ failed', run'[k].at \in {"cleanUp", "late", "gone"}
      PROVE  CleanedUp(k)'
  <2>1. k \in Name /\ k \in Cluster \ failed
    BY DEF Name, Moved
  <2>2. CASE k = t
    <3>1. Onward(t, h)
      BY <2>2, <1>3 DEF Moved, Undone
    <3>2. run[t].at \in {"cleanUp", "late"}
      BY <1>3, <2>2, <3>1, Where DEF IInv, Moved, Onward, Still
    <3>. QED  BY <2>1, <2>2, <3>2 DEF IInv
  <2>3. CASE k # t
    <3>1. /\ run'[k] = run[k] /\ Left(k)' = Left(k)
          /\ \A do, on : Pending(k, do, on)' <=> Pending(k, do, on)
      BY <2>1, <2>3, Others
    <3>2. CleanedUp(k)
      BY <1>3, <2>1, <3>1 DEF IInv
    <3>3. k # None /\ spoilt \subseteq spoilt'
      BY <2>1, RouterAssumption DEF Moved
    <3>4. ASSUME NEW l \in List \ spoilt', k \in Held(l)'
          PROVE  Op("find", l) \in Left(k)' \/ Pending(k, "drop", l)'
      BY <2>3, <3>1, <3>2, <3>3, <3>4 DEF CleanedUp, Entries
    <3>5. ASSUME "zone" \notin spoilt'
          PROVE  /\ k \in named' => Op("unset", "interface") \in Left(k)'
                 /\ Member(k)' => \/ Op("read", "zone") \in Left(k)'
                                  \/ Pending(k, "clear", "zone")' \/ Pending(k, "refill", "zone")'
      BY <2>1, <2>3, <3>1, <3>2, <3>3, <3>5 DEF CleanedUp, Entries
    <3>. QED  BY <3>4, <3>5 DEF CleanedUp
  <2>. QED  BY <2>2, <2>3
<1>. QED  BY <1>1, <1>2, <1>3 DEF IInv

-----------------------------------------------------------------------------
(* How a command moves its thread                                          *)

LEMMA NextIsLeft ==
  ASSUME Threads, NEW t \in Name, Busy(t)
  PROVE  /\ Script(run[t].todo) /\ run[t].todo # <<>> /\ NextOp(t) = First(run[t].todo)
         /\ NextOp(t) \in Left(t) /\ NextOp(t) \in Cmd
         /\ Advanced(t) \in Seq(Call) /\ Returned(t) \in Seq(Call)
<1>1. Script(run[t].todo) /\ run[t].todo # <<>> /\ NextOp(t) = First(run[t].todo)
  BY DEF Threads, Busy, NextOp, First
<1>2. First(run[t].todo) \in Ops(run[t].todo) /\ First(run[t].todo) \in Cmd
  BY <1>1, FirstIsLeft
<1>3. Script(Advanced(t))
  BY <1>1, AfterCommand DEF Advanced
<1>4. Fresh(Returned(t))
  BY <1>1, AfterCall DEF Returned
<1>. QED  BY <1>1, <1>2, <1>3, <1>4 DEF Left, Script, Fresh

LEMMA Steps ==
  ASSUME Threads, NEW t \in Name, NEW td \in Seq(Call), NEW i \in Nat,
         NEW N \in SUBSET (Name \cup {Lan}),
         \/ run' = [run EXCEPT ![t].todo = td]
         \/ run' = [run EXCEPT ![t].todo = td, ![t].index = i]
         \/ run' = [run EXCEPT ![t].todo = td, ![t].nets = N]
  PROVE  /\ run' \in [Name -> Thread] /\ \A u \in Name \ {t} : run'[u] = run[u]
         /\ run'[t].at = run[t].at /\ run'[t].todo = td
<1>1. run \in [Name -> Thread] /\ run[t] \in Thread
  BY DEF Threads
<1>2. CASE run' = [run EXCEPT ![t].todo = td]
  BY <1>1, <1>2 DEF Thread
<1>3. CASE run' = [run EXCEPT ![t].todo = td, ![t].index = i]
  BY <1>1, <1>3 DEF Thread
<1>4. CASE run' = [run EXCEPT ![t].todo = td, ![t].nets = N]
  BY <1>1, <1>4 DEF Thread
<1>. QED  BY <1>2, <1>3, <1>4

\* What every command leaves, and when it spoils something.
Ran(t) == /\ spoilt' = IF Races(t) THEN spoilt \cup {NextOp(t).on} ELSE spoilt
          /\ lock' = lock /\ fails' = fails

LEMMA Goes ==
  ASSUME Threads, NEW t \in Name, Busy(t), Ran(t), failed' = failed,
         run' \in [Name -> Thread], \A u \in Name \ {t} : run'[u] = run[u],
         run'[t].at = run[t].at, run'[t].todo = Advanced(t)
  PROVE  /\ Moved(t, NextOp(t)) /\ Left(t) \subseteq {NextOp(t)} \cup Left(t)'
         /\ \A do, on : Heir(NextOp(t), Op(do, on)) => Pending(t, do, on)'
<1>1. /\ Onward(t, NextOp(t)) /\ Left(t) \subseteq {NextOp(t)} \cup Left(t)'
      /\ \A do, on : Heir(NextOp(t), Op(do, on)) => Pending(t, do, on)'
  BY Advances
<1>2. spoilt \subseteq spoilt'
  BY DEF Ran
<1>. QED  BY <1>1, <1>2 DEF Moved, Ran

LEMMA Put ==
  ASSUME NEW t \in Name, run \in [Name -> Thread], NEW r \in Thread, run' = [run EXCEPT ![t] = r]
  PROVE  run' \in [Name -> Thread] /\ run'[t] = r /\ \A u \in Name \ {t} : run'[u] = run[u]
OBVIOUS

LEMMA Raises ==
  ASSUME Threads, NEW t \in Name, Busy(t),
         \/ run' = [run EXCEPT ![t] = Raised(t)]
         \/ run' = [run EXCEPT ![t] = [Raised(t) EXCEPT !.index = 0, !.nets = {}]]
  PROVE  /\ run' \in [Name -> Thread] /\ \A u \in Name \ {t} : run'[u] = run[u]
         /\ t \in failed' \/ run[t].at # "setUp" => Onward(t, NextOp(t)) \/ Undone(t)
         /\ run[t].at # "setUp" => run'[t].at = run[t].at /\ run'[t].todo = Returned(t)
         /\ \A do \in Second : \A on : ~Pending(t, do, on)'
<1>. DEFINE r == Raised(t)
            r2 == [r EXCEPT !.index = 0, !.nets = {}]
<1>1. /\ run \in [Name -> Thread] /\ run[t] \in Thread /\ Returned(t) \in Seq(Call)
      /\ CleanUp \in Seq(Call)
  BY NextIsLeft, CleanUpScript DEF Threads, Fresh, Script
<1>2. /\ r \in Thread
      /\ IF run[t].at = "setUp" THEN r.at = "cleanUp" /\ r.todo = CleanUp
         ELSE r.at = run[t].at /\ r.todo = Returned(t)
  <2>1. ASSUME NEW s \in Stage, NEW td \in Seq(Call)
        PROVE  [run[t] EXCEPT !.at = s, !.todo = td] \in Thread
    BY <1>1 DEF Thread
  <2>2. ASSUME NEW td \in Seq(Call) PROVE [run[t] EXCEPT !.todo = td] \in Thread
    BY <1>1 DEF Thread
  <2>3. ASSUME NEW s, NEW td
        PROVE  /\ [run[t] EXCEPT !.at = s, !.todo = td].at = s
               /\ [run[t] EXCEPT !.at = s, !.todo = td].todo = td
               /\ [run[t] EXCEPT !.todo = td].at = run[t].at
               /\ [run[t] EXCEPT !.todo = td].todo = td
    BY <1>1 DEF Thread
  <2>4. "cleanUp" \in Stage
    BY DEF Stage
  <2>5. CASE run[t].at = "setUp"
    <3>1. r = [run[t] EXCEPT !.at = "cleanUp", !.todo = CleanUp]
      BY <2>5 DEF Raised
    <3>. HIDE DEF r
    <3>2. [run[t] EXCEPT !.at = "cleanUp", !.todo = CleanUp] \in Thread
      BY <1>1, <2>1, <2>4
    <3>3. /\ [run[t] EXCEPT !.at = "cleanUp", !.todo = CleanUp].at = "cleanUp"
          /\ [run[t] EXCEPT !.at = "cleanUp", !.todo = CleanUp].todo = CleanUp
      BY <2>3
    <3>. QED  BY <2>5, <3>1, <3>2, <3>3
  <2>6. CASE run[t].at # "setUp"
    <3>1. r = [run[t] EXCEPT !.todo = Returned(t)]
      BY <2>6 DEF Raised
    <3>. HIDE DEF r
    <3>. QED  BY <1>1, <2>2, <2>3, <2>6, <3>1
  <2>. QED  BY <2>5, <2>6
<1>. HIDE DEF r
<1>3. r2 \in Thread /\ r2.at = r.at /\ r2.todo = r.todo
  BY <1>2 DEF Thread
<1>. HIDE DEF r2
<1>4. run' = [run EXCEPT ![t] = r] \/ run' = [run EXCEPT ![t] = r2]
  BY DEF r, r2
<1>5. /\ run' \in [Name -> Thread] /\ \A u \in Name \ {t} : run'[u] = run[u]
      /\ run'[t] = r \/ run'[t] = r2
  BY <1>1, <1>2, <1>3, <1>4, Put
<1>6. run'[t].at = r.at /\ run'[t].todo = r.todo
  BY <1>3, <1>5
<1>7. CASE run[t].at = "setUp"
  <2>1. run'[t].at = "cleanUp" /\ run'[t].todo = CleanUp
    BY <1>2, <1>6, <1>7
  <2>2. \A do \in Second : \A on : ~Pending(t, do, on)'
    BY <2>1, CleanUpScript, FreshPending
  <2>. QED  BY <1>5, <1>7, <2>1, <2>2 DEF Undone
<1>8. CASE run[t].at # "setUp"
  <2>1. run'[t].at = run[t].at /\ run'[t].todo = Returned(t)
    BY <1>2, <1>6, <1>8
  <2>2. Onward(t, NextOp(t)) /\ \A do \in Second : \A on : ~Pending(t, do, on)'
    BY <2>1, Ends
  <2>. QED  BY <1>5, <1>8, <2>1, <2>2
<1>. QED  BY <1>7, <1>8

LEMMA RanType ==
  ASSUME IInv, NEW t \in Name, NEW h, Moved(t, h), Ran(t),
         lists' \in [List -> Seq(Name \cup {None})], named' \subseteq Name,
         zone' \subseteq Name \cup {Lan}
  PROVE  TypeOK'
<1>1. \A u \in Name : run'[u] \in Thread
  BY DEF Moved
<1>2. \A u \in Name : run'[u].at \in Stage /\ run'[u].index \in Nat
                      /\ run'[u].nets \subseteq Name \cup {Lan}
  BY <1>1 DEF Thread
<1>3. spoilt' \subseteq List \cup {"zone"}
  <2>1. NextOp(t) \in Cmd
    BY NextIsLeft DEF IInv, Moved
  <2>2. Races(t) => NextOp(t).do \in {"add", "drop", "join", "clear", "refill", "read"}
    BY DEF Races, Upsets
  <2>3. Races(t) => NextOp(t).on \in List \cup {"zone"}
    BY <2>1, <2>2, CmdKinds
  <2>. QED  BY <2>3 DEF Ran, IInv, TypeOK
<1>. QED  BY <1>2, <1>3 DEF TypeOK, IInv, Ran, Moved

LEMMA OpIs ==
  ASSUME NEW t, NEW do, NEW on, Pending(t, do, on)
  PROVE  /\ Busy(t) /\ NextOp(t) = Op(do, on) /\ NextOp(t).do = do /\ NextOp(t).on = on
         /\ \A d, o : Pending(t, d, o) => d = do /\ o = on
<1>1. Busy(t) /\ NextOp(t) = Op(do, on)
  BY DEF Pending
<1>2. Op(do, on).do = do /\ Op(do, on).on = on
  BY OpFields
<1>3. ASSUME NEW d, NEW o, Pending(t, d, o) PROVE d = do /\ o = on
  <2>1. NextOp(t) = Op(d, o) /\ Op(d, o).do = d /\ Op(d, o).on = o
    BY <1>3, OpFields DEF Pending
  <2>. QED  BY <1>1, <1>2, <2>1
<1>. QED  BY <1>1, <1>2, <1>3

-----------------------------------------------------------------------------
(* Sections                                                                *)

LEMMA InSet ==
  ASSUME NEW S, NEW s \in Seq(S)
  PROVE  \A n : n \in ToSet(s) <=> \E i \in 1..Len(s) : s[i] = n
<1>1. DOMAIN s = 1..Len(s)
  OBVIOUS
<1>. QED  BY <1>1, Zenon DEF ToSet

LEMMA NewList ==
  ASSUME TypeOK, NEW l \in List, NEW s \in Seq(Name \cup {None}), SetList(l, s)
  PROVE  /\ lists' \in [List -> Seq(Name \cup {None})] /\ lists'[l] = s /\ Held(l)' = ToSet(s)
         /\ \A m \in List \ {l} : lists'[m] = lists[m] /\ Held(m)' = Held(m)
<1>1. /\ lists' \in [List -> Seq(Name \cup {None})] /\ lists'[l] = s
      /\ \A m \in List \ {l} : lists'[m] = lists[m]
  BY DEF SetList, TypeOK
<1>. QED  BY <1>1 DEF Held

LEMMA SameZone ==
  ASSUME NEW t \in Name, NEW h, Moved(t, h), zone' = zone, ~Pending(t, "refill", "zone")'
  PROVE  \A k : Member(k)' => Member(k)
BY Others DEF Member

LEMMA ListType ==
  ASSUME IInv, NEW l \in List
  PROVE  lists[l] \in Seq(Name \cup {None}) /\ Len(lists[l]) \in Nat
BY DEF IInv, TypeOK

\* Who makes something is not cleaning up.
LEMMA NotCleaning ==
  ASSUME Threads, NEW t \in Name, Busy(t), NextOp(t).do \in {"add", "name", "set", "join"}
  PROVE  run[t].at \notin {"cleanUp", "late"}
BY NextIsLeft DEF Threads, WorkOf

LEMMA NotMaking ==
  ASSUME Threads, NEW t \in Name, Busy(t),
         NextOp(t).do \in {"find", "drop", "read", "clear", "refill", "unset"}
  PROVE  run[t].at # "setUp"
BY NextIsLeft DEF Threads, WorkOf

\* At most one thread is about to name a section of a list.
LEMMA OneNamer ==
  ASSUME Threads, NEW t \in Name, NEW u \in Name, NEW l \in List,
         Pending(t, "name", l), Pending(u, "name", l)
  PROVE  t = u
<1>1. ASSUME NEW v \in Name, Pending(v, "name", l) PROVE Busy(v) /\ ~Unlocked(v)
  <2>1. Busy(v) /\ NextOp(v).do = "name" /\ NextOp(v).on = l
    BY <1>1, OpIs
  <2>2. run[v].at \notin {"cleanUp", "late"}
    BY <2>1, NotCleaning
  <2>3. run[v].at # "visit"
    BY <2>1, NextIsLeft DEF Threads, WorkOf
  <2>. QED  BY <2>1, <2>2, <2>3 DEF Unlocked
<1>. QED  BY <1>1, TwoBusy

LEMMA AddInv ==
  ASSUME IInv, NEW t \in Name, NEW l \in List, AddSection(t, l), Ran(t)
  PROVE  IInv'
<1>. DEFINE h == NextOp(t)
            s == lists[l]
            s2 == Append(s, None)
<1>1. /\ Busy(t) /\ h.do = "add" /\ h.on = l /\ h = Op("add", l)
      /\ \A d, o : Pending(t, d, o) => d = "add" /\ o = l
  BY OpIs DEF AddSection
<1>2. Threads /\ TypeOK
  BY DEF IInv
<1>3. s \in Seq(Name \cup {None}) /\ Len(s) \in Nat
  BY ListType
<1>4. s2 \in Seq(Name \cup {None}) /\ s2 # <<>> /\ Len(s2) = Len(s) + 1 /\ s2[Len(s) + 1] = None
      /\ \A i \in 1..Len(s) : s2[i] = s[i]
  BY <1>3, AppendProperties
<1>5. /\ lists' \in [List -> Seq(Name \cup {None})] /\ lists'[l] = s2 /\ Held(l)' = ToSet(s2)
      /\ \A m \in List \ {l} : lists'[m] = lists[m] /\ Held(m)' = Held(m)
  BY <1>2, <1>4, NewList DEF AddSection
<1>. HIDE DEF s2
<1>6. /\ run' \in [Name -> Thread] /\ \A u \in Name \ {t} : run'[u] = run[u]
      /\ run'[t].at = run[t].at /\ run'[t].todo = Advanced(t)
  BY <1>1, <1>2, NextIsLeft, Steps DEF AddSection, Then
<1>7. /\ Moved(t, h)
      /\ \A do, on : Heir(h, Op(do, on)) => Pending(t, do, on)'
  BY <1>1, <1>2, <1>6, Goes DEF AddSection
<1>8. ~Pending(t, "refill", "zone")' /\ ~Pending(t, "clear", "zone")' /\ \A m : ~Pending(t, "drop", m)'
  BY <1>1, <1>7, PendingAfter DEF Second
<1>9. Pending(t, "name", l)'
  BY <1>1, <1>7 DEF Heir
<1>. HIDE DEF h
<1>10. \A n : n \in Held(l)' <=> n \in Held(l) \/ n = None
  <2>1. \A n : n \in Held(l)' <=> \E i \in 1..Len(s2) : s2[i] = n
    BY <1>4, <1>5, InSet
  <2>2. \A n : n \in Held(l) <=> \E i \in 1..Len(s) : s[i] = n
    BY <1>3, InSet DEF Held
  <2>3. \A i \in 1..Len(s2) : i \in 1..Len(s) \/ i = Len(s) + 1
    BY <1>3, <1>4
  <2>4. Len(s) + 1 \in 1..Len(s2) /\ \A i \in 1..Len(s) : i \in 1..Len(s2)
    BY <1>3, <1>4
  <2>. QED  BY <1>4, <2>1, <2>2, <2>3, <2>4
<1>11. TypeOK'
  BY <1>2, <1>5, <1>7, RanType DEF AddSection, TypeOK
<1>12. Entries(t)
  <2>1. \A m \in List \ spoilt' : Held(m)' \ {t, None} = Held(m) \ {t, None}
    BY <1>5, <1>10
  <2>. QED  BY <1>7, <1>8, <2>1, SameZone DEF Entries, AddSection
<1>13. ASSUME NEW m \in List \ spoilt' PROVE Section(m)'
  <2>1. Section(m)
    BY <1>7 DEF IInv, Moved
  <2>2. CASE m # l
    BY <1>1, <1>2, <1>5, <1>7, <2>1, <2>2, OtherSection
  <2>3. CASE m = l
    <3>1. \A u \in Name \ {t} : ~Pending(u, "name", l)
      <4>1. \A u \in Name \ {t} : ~Upsets(h, u)
        BY <1>1, <1>2, <2>3, NoUpset DEF Ran, h
      <4>. QED  BY <1>1, <4>1 DEF Upsets
    <3>2. \A u \in Name : MayAdd(u, l)' => u \notin Held(l)'
      <4>1. \A u \in Name : u # None
        BY RouterAssumption
      <4>. QED  BY <1>2, <1>7, <1>10, <2>1, <2>3, <4>1, MovedMayAdd DEF Section
    <3>3. ASSUME NEW u \in Name, Pending(u, "drop", l)'
          PROVE  run'[u].index \in 1..Len(s2) /\ s2[run'[u].index] = u
      <4>1. u \in Name \ {t}
        BY <1>8, <3>3
      <4>2. Pending(u, "drop", l) /\ run'[u] = run[u]
        BY <1>7, <3>3, <4>1, Others
      <4>. QED  BY <1>3, <1>4, <2>1, <2>3, <4>2 DEF Section
    <3>4. ASSUME failed' = {}, NEW i \in 1..Len(s2), s2[i] = None
          PROVE  i = Len(s2) /\ \E u \in Name : Pending(u, "name", l)'
      <4>1. i \notin 1..Len(s)
        <5>1. SUFFICES ASSUME i \in 1..Len(s) PROVE FALSE
          OBVIOUS
        <5>2. s[i] = None /\ failed = {}
          BY <1>4, <3>4, <5>1 DEF AddSection
        <5>3. PICK u \in Name : Pending(u, "name", l)
          BY <2>1, <2>3, <5>1, <5>2 DEF Section
        <5>. QED  BY <1>1, <3>1, <5>3
      <4>. QED  BY <1>3, <1>4, <1>9, <4>1
    <3>5. \A i, j \in 1..Len(s2) : s2[i] = s2[j] /\ s2[i] # None => i = j
      BY <1>3, <1>4, <2>1, <2>3 DEF Section
    <3>6. \A u \in Name : Pending(u, "name", l)' => s2 # <<>> /\ s2[Len(s2)] = None
      BY <1>4
    <3>. QED  BY <1>5, <2>3, <3>2, <3>3, <3>4, <3>5, <3>6 DEF Section
  <2>. QED  BY <2>2, <2>3
<1>14. "zone" \notin spoilt' => Zone'
  <2>1. ~Pending(t, "refill", "zone")
    BY <1>1
  <2>2. spoilt \subseteq spoilt'
    BY <1>7 DEF Moved
  <2>. QED  BY <1>2, <1>7, <1>8, <2>1, <2>2, ZoneStays DEF IInv, AddSection
<1>15. run[t].at \notin {"cleanUp", "late"}
  BY <1>1, <1>2, NotCleaning DEF h
<1>. QED  BY <1>7, <1>11, <1>12, <1>13, <1>14, <1>15, MovedInv

\* A call that raises changes no section, and nothing is half done after it.
LEMMA RaisedSections ==
  ASSUME IInv, NEW t \in Name, NEW h, Moved(t, h), lists' = lists,
         \A do \in Second : \A on : ~Pending(t, do, on)',
         \A l \in List : Pending(t, "name", l) => failed' # {}
  PROVE  \A l \in List \ spoilt' : Section(l)'
<1>1. ASSUME NEW l \in List \ spoilt' PROVE Section(l)'
  <2>1. Section(l) /\ Threads
    BY DEF IInv, Moved
  <2>2. ~Pending(t, "name", l)' /\ ~Pending(t, "drop", l)'
    BY DEF Second
  <2>. QED  BY <2>1, <2>2, SectionStays
<1>. QED  BY <1>1

\* Naming: where uci finds a section to name.
LEMMA NameInv ==
  ASSUME IInv, NEW t \in Name, NEW l \in List, NameSection(t, l), Ran(t), lists[l] # <<>>
  PROVE  IInv'
<1>. DEFINE h == NextOp(t)
            s == lists[l]
            n == Len(s)
            s2 == [s EXCEPT ![n] = t]
<1>1. /\ Busy(t) /\ h.do = "name" /\ h.on = l
      /\ \A d, o : Pending(t, d, o) => d = "name" /\ o = l
      /\ Pending(t, "name", l)
  BY OpIs DEF NameSection
<1>2. Threads /\ TypeOK
  BY DEF IInv
<1>3. s \in Seq(Name \cup {None}) /\ n \in Nat /\ n > 0
  BY ListType
<1>4. /\ s2 \in Seq(Name \cup {None}) /\ s2 # <<>> /\ Len(s2) = n /\ s2[n] = t
      /\ \A i \in 1..n : i # n => s2[i] = s[i]
  <2>1. Len(s2) = n /\ s2 \in Seq(Name \cup {None}) /\ s2[n] = t
    BY <1>3
  <2>2. s2 # <<>>
    BY <1>3, <2>1, EmptyOrNot
  <2>. QED  BY <1>3, <2>1, <2>2
<1>5. /\ lists' \in [List -> Seq(Name \cup {None})] /\ lists'[l] = s2 /\ Held(l)' = ToSet(s2)
      /\ \A m \in List \ {l} : lists'[m] = lists[m] /\ Held(m)' = Held(m)
  BY <1>2, <1>4, NewList DEF NameSection
<1>. HIDE DEF s2
<1>6. /\ run' \in [Name -> Thread] /\ \A u \in Name \ {t} : run'[u] = run[u]
      /\ run'[t].at = run[t].at /\ run'[t].todo = Advanced(t)
  BY <1>1, <1>2, NextIsLeft, Steps DEF NameSection, Then
<1>7. Moved(t, h)
  BY <1>1, <1>2, <1>6, Goes DEF NameSection
<1>8. \A do \in Second : \A on : ~Pending(t, do, on)'
  BY <1>1, <1>7, PendingAfter DEF Second
<1>9. /\ t \in Held(l)'
      /\ \A x : x \in Held(l)' => x \in Held(l) \/ x = t
      /\ \A x : x \in Held(l) => x \in Held(l)' \/ x = s[n]
  <2>1. \A x : x \in Held(l)' <=> \E i \in 1..Len(s2) : s2[i] = x
    BY <1>4, <1>5, InSet
  <2>2. \A x : x \in Held(l) <=> \E i \in 1..Len(s) : s[i] = x
    BY <1>3, InSet DEF Held
  <2>. QED  BY <1>3, <1>4, <2>1, <2>2
<1>. HIDE DEF h
<1>10. TypeOK'
  BY <1>2, <1>5, <1>7, RanType DEF NameSection, TypeOK
<1>11. l \notin spoilt' => s[n] = None /\ t \notin Held(l)
  <2>1. l \notin spoilt' => Section(l)
    BY <1>7 DEF IInv, Moved
  <2>. QED  BY <1>1, <2>1 DEF Section, MayAdd
<1>12. Entries(t)
  <2>1. \A m \in List \ spoilt' : Held(m)' \ {t, None} = Held(m) \ {t, None}
    BY <1>5, <1>9, <1>11
  <2>. QED  BY <1>7, <1>8, <2>1, SameZone DEF Entries, NameSection, Second
<1>13. ASSUME NEW m \in List \ spoilt' PROVE Section(m)'
  <2>1. Section(m)
    BY <1>7 DEF IInv, Moved
  <2>2. CASE m # l
    BY <1>1, <1>2, <1>5, <1>7, <2>1, <2>2, OtherSection
  <2>3. CASE m = l
    <3>1. \A u \in Name : ~Pending(u, "name", l)'
      <4>1. \A u \in Name \ {t} : ~Pending(u, "name", l)
        BY <1>1, <1>2, OneNamer
      <4>. QED  BY <1>7, <1>8, <4>1, Others DEF Second
    <3>2. ASSUME NEW u \in Name, MayAdd(u, l)' PROVE u \notin Held(l)'
      <4>1. MayAdd(u, l)
        BY <1>2, <1>7, <3>2, MovedMayAdd
      <4>2. u # t
        <5>1. SUFFICES ASSUME MayAdd(t, l)' PROVE FALSE
          BY <3>2
        <5>2. run[t].at \notin Still /\ h \in Left(t) /\ WorkOf(t)
          BY <1>1, <1>2, Where, NextIsLeft DEF h, Threads
        <5>3. ~(run[t].at = "setUp" /\ l # "device")
          BY <1>1, <5>2 DEF WorkOf
        <5>4. Op("add", l) \notin Left(t)
          BY <1>1, <5>2 DEF WorkOf
        <5>5. Left(t)' \subseteq Left(t)
          <6>1. Onward(t, h) \/ Undone(t)
            BY <1>7 DEF Moved
          <6>2. run[t].at # "cleanUp" /\ run'[t].at = run[t].at
            BY <1>1, <1>2, <1>6, NotCleaning DEF h
          <6>. QED  BY <6>1, <6>2 DEF Onward, Undone
        <5>. QED  BY <1>6, <3>1, <5>1, <5>2, <5>3, <5>4, <5>5 DEF MayAdd, Still
      <4>. QED  BY <1>9, <2>1, <2>3, <4>1, <4>2 DEF Section
    <3>3. ASSUME NEW u \in Name, Pending(u, "drop", l)'
          PROVE  run'[u].index \in 1..Len(s2) /\ s2[run'[u].index] = u
      <4>1. u \in Name \ {t} /\ u # None
        BY <1>8, <3>3, RouterAssumption DEF Second
      <4>2. Pending(u, "drop", l) /\ run'[u] = run[u]
        BY <1>7, <3>3, <4>1, Others
      <4>3. run[u].index \in 1..n /\ s[run[u].index] = u
        BY <2>1, <2>3, <4>2 DEF Section
      <4>4. run[u].index # n
        BY <1>11, <2>3, <4>1, <4>3
      <4>. QED  BY <1>3, <1>4, <4>2, <4>3, <4>4
    <3>4. ASSUME failed' = {}, NEW i \in 1..Len(s2), s2[i] = None PROVE FALSE
      <4>1. i # n /\ i \in 1..n
        BY <1>4, <3>4, RouterAssumption
      <4>2. s[i] = None /\ failed = {}
        BY <1>4, <1>7, <3>4, <4>1 DEF Moved
      <4>. QED  BY <2>1, <2>3, <4>1, <4>2 DEF Section
    <3>5. \A i, j \in 1..Len(s2) : s2[i] = s2[j] /\ s2[i] # None => i = j
      <4>1. \A i \in 1..n : s[i] # t
        BY <1>3, <1>11, <2>3, InSet DEF Held
      <4>. QED  BY <1>3, <1>4, <2>1, <2>3, <4>1 DEF Section
    <3>. QED  BY <1>5, <2>3, <3>1, <3>2, <3>3, <3>4, <3>5 DEF Section
  <2>. QED  BY <2>2, <2>3
<1>14. "zone" \notin spoilt' => Zone'
  <2>1. ~Pending(t, "refill", "zone")
    BY <1>1
  <2>2. spoilt \subseteq spoilt'
    BY <1>7 DEF Moved
  <2>. QED  BY <1>2, <1>7, <1>8, <2>1, <2>2, ZoneStays DEF IInv, NameSection, Second
<1>15. run[t].at \notin {"cleanUp", "late"}
  BY <1>1, <1>2, NotCleaning DEF h
<1>. QED  BY <1>7, <1>10, <1>12, <1>13, <1>14, <1>15, MovedInv

\* Naming: where the section is gone.
LEMMA NamelessInv ==
  ASSUME IInv, NEW t \in Name, NEW l \in List, NameSection(t, l), Ran(t), lists[l] = <<>>
  PROVE  IInv'
<1>. DEFINE h == NextOp(t)
<1>1. /\ Busy(t) /\ h.do = "name" /\ h.on = l
      /\ \A d, o : Pending(t, d, o) => d = "name" /\ o = l
  BY OpIs DEF NameSection
<1>2. Threads /\ TypeOK
  BY DEF IInv
<1>3. /\ run' = [run EXCEPT ![t] = Raised(t)] /\ lists' = lists /\ named' = named /\ zone' = zone
      /\ failed' = failed \cup {t}
  BY DEF NameSection
<1>4. /\ run' \in [Name -> Thread] /\ \A u \in Name \ {t} : run'[u] = run[u]
      /\ Onward(t, h) \/ Undone(t)
      /\ \A do \in Second : \A on : ~Pending(t, do, on)'
  BY <1>1, <1>2, <1>3, Raises
<1>5. Moved(t, h)
  BY <1>1, <1>3, <1>4 DEF Moved, Ran
<1>. HIDE DEF h
<1>6. TypeOK'
  BY <1>2, <1>3, <1>5, RanType DEF TypeOK
<1>7. \A m \in List \ spoilt' : Section(m)'
  BY <1>3, <1>4, <1>5, RaisedSections
<1>8. "zone" \notin spoilt' => Zone'
  <2>1. ~Pending(t, "refill", "zone")
    BY <1>1
  <2>2. spoilt \subseteq spoilt'
    BY <1>5 DEF Moved
  <2>. QED  BY <1>2, <1>3, <1>4, <1>5, <2>1, <2>2, ZoneStays DEF IInv, Second
<1>9. Entries(t)
  BY <1>3, <1>4, <1>5, SameZone DEF Entries, Second, Held
<1>. QED  BY <1>3, <1>5, <1>6, <1>7, <1>8, <1>9, MovedInv

LEMMA LeastExists ==
  ASSUME NEW S \in SUBSET Nat, S # {}
  PROVE  \E n \in S : \A m \in S : n <= m
<1>1. PICK n \in S : \A m \in S : ~ (<<m, n>> \in OpToRel(<, Nat))
  BY NatLessThanWellFounded, WFMin, Zenon
<1>2. \A m \in S : ~ (m < n)
  BY <1>1 DEF OpToRel
<1>. QED  BY <1>2

LEMMA Found ==
  ASSUME IInv, NEW l \in List, NEW t, t \in Held(l)
  PROVE  Position(l, t) \in 1..Len(lists[l]) /\ lists[l][Position(l, t)] = t
<1>. DEFINE s == lists[l]
            S == {i \in 1..Len(s) : s[i] = t}
<1>1. s \in Seq(Name \cup {None}) /\ Len(s) \in Nat /\ DOMAIN s = 1..Len(s)
  BY ListType
<1>2. S # {}
  BY <1>1, InSet DEF Held
<1>3. S \in SUBSET Nat
  BY <1>1
<1>4. PICK n \in S : \A m \in S : n <= m
  <2>. HIDE DEF S
  <2>. QED  BY <1>2, <1>3, LeastExists
<1>5. n \in 1..Len(s) /\ s[n] = t /\ \A j \in 1..(n - 1) : s[j] # t
  BY <1>1, <1>4
<1>6. \E i \in DOMAIN s : s[i] = t /\ \A j \in 1..(i - 1) : s[j] # t
  BY <1>1, <1>5
<1>. QED  BY <1>1, <1>6 DEF Position

LEMMA FindInv ==
  ASSUME IInv, NEW t \in Name, NEW l \in List, FindSection(t, l), Ran(t)
  PROVE  IInv'
<1>. DEFINE h == NextOp(t)
<1>1. /\ Busy(t) /\ h.do = "find" /\ h.on = l /\ h = Op("find", l)
      /\ \A d, o : Pending(t, d, o) => d = "find" /\ o = l
  BY OpIs DEF FindSection
<1>2. Threads /\ TypeOK /\ run[t].at # "setUp"
  BY <1>1, NotMaking DEF IInv
<1>3. lists' = lists /\ named' = named /\ zone' = zone /\ failed' = failed
  BY DEF FindSection, config
<1>4. ASSUME NEW l2 \in List PROVE Op("find", l2) = h => l2 = l
  BY <1>1, OpFields
<1>5. Op("unset", "interface") # h /\ Op("read", "zone") # h
  BY <1>1, OpFields
<1>6. CASE t \in Held(l)
  <2>1. /\ run' = [run EXCEPT ![t].todo = Advanced(t), ![t].index = Position(l, t)]
        /\ Position(l, t) \in 1..Len(lists[l]) /\ lists[l][Position(l, t)] = t
    BY <1>6, Found DEF FindSection
  <2>2. Position(l, t) \in Nat
    BY <2>1, ListType
  <2>3. /\ run' \in [Name -> Thread] /\ \A u \in Name \ {t} : run'[u] = run[u]
        /\ run'[t].at = run[t].at /\ run'[t].todo = Advanced(t)
    BY <1>1, <1>2, <2>1, <2>2, NextIsLeft, Steps
  <2>4. /\ Moved(t, h) /\ Left(t) \subseteq {h} \cup Left(t)'
        /\ \A do, on : Heir(h, Op(do, on)) => Pending(t, do, on)'
    BY <1>1, <1>2, <1>3, <2>3, Goes
  <2>5. run'[t].index = Position(l, t)
    <3>1. run \in [Name -> Thread] /\ run[t] \in Thread
      BY <1>2 DEF Threads
    <3>. QED  BY <2>1, <3>1 DEF Thread
  <2>6. ~Pending(t, "refill", "zone")' /\ ~Pending(t, "clear", "zone")' /\ \A m : ~Pending(t, "name", m)'
    BY <1>1, <2>4, PendingAfter DEF Second
  <2>7. Pending(t, "drop", l)'
    BY <1>1, <2>4 DEF Heir
  <2>8. ASSUME NEW m \in List \ spoilt' PROVE Section(m)'
    <3>1. Section(m) /\ lists'[m] = lists[m]
      BY <1>3, <2>4 DEF IInv, Moved
    <3>2. CASE m # l
      BY <1>1, <1>2, <2>4, <3>1, <3>2, OtherSection
    <3>3. CASE m = l
      BY <1>1, <1>2, <2>1, <2>4, <2>5, <2>6, <3>1, <3>3, SectionStays
    <3>. QED  BY <3>2, <3>3
  <2>9. CleanedUp(t) => CleanedUp(t)'
    <3>1. SUFFICES ASSUME CleanedUp(t) PROVE CleanedUp(t)'
      OBVIOUS
    <3>2. spoilt \subseteq spoilt' /\ Held(l)' = Held(l)
      BY <1>3, <2>4 DEF Moved, Held
    <3>3. ASSUME NEW m \in List \ spoilt', t \in Held(m)'
          PROVE  Op("find", m) \in Left(t)' \/ Pending(t, "drop", m)'
      <4>1. t \in Held(m) /\ m \notin spoilt
        BY <1>3, <3>2, <3>3 DEF Held
      <4>2. Op("find", m) \in Left(t)
        BY <1>1, <3>1, <4>1 DEF CleanedUp
      <4>. QED  BY <1>4, <2>4, <2>7, <4>2
    <3>4. Member(t)' => Member(t)
      BY <1>3, <2>4, <2>6, SameZone
    <3>5. "zone" \notin spoilt' =>
            /\ t \in named' => Op("unset", "interface") \in Left(t)'
            /\ Member(t)' => Op("read", "zone") \in Left(t)'
      BY <1>1, <1>3, <1>5, <2>4, <3>1, <3>2, <3>4 DEF CleanedUp
    <3>. QED  BY <3>3, <3>5 DEF CleanedUp
  <2>. HIDE DEF h
  <2>10. TypeOK'
    BY <1>2, <1>3, <2>4, RanType DEF TypeOK
  <2>11. "zone" \notin spoilt' => Zone'
    <3>1. ~Pending(t, "refill", "zone") /\ spoilt \subseteq spoilt'
      BY <1>1, <2>4 DEF Moved
    <3>. QED  BY <1>2, <1>3, <2>4, <2>6, <3>1, ZoneStays DEF IInv
  <2>12. Entries(t)
    BY <1>3, <2>4, <2>6, SameZone DEF Entries, Held
  <2>. QED  BY <2>4, <2>8, <2>9, <2>10, <2>11, <2>12, MovedInv
<1>7. CASE t \notin Held(l)
  <2>1. run' = [run EXCEPT ![t] = Raised(t)]
    BY <1>7 DEF FindSection
  <2>2. /\ run' \in [Name -> Thread] /\ \A u \in Name \ {t} : run'[u] = run[u]
        /\ Onward(t, h) \/ Undone(t)
        /\ run'[t].at = run[t].at /\ run'[t].todo = Returned(t)
        /\ \A do \in Second : \A on : ~Pending(t, do, on)'
    BY <1>1, <1>2, <2>1, Raises
  <2>3. Moved(t, h)
    BY <1>1, <1>3, <2>2 DEF Moved, Ran
  <2>4. Left(t) \subseteq {h, Op("drop", l)} \cup Left(t)'
    BY <1>1, <1>2, <2>2, Ends
  <2>5. \A m \in List \ spoilt' : Section(m)'
    BY <1>1, <1>3, <2>2, <2>3, RaisedSections
  <2>6. CleanedUp(t) => CleanedUp(t)'
    <3>1. SUFFICES ASSUME CleanedUp(t) PROVE CleanedUp(t)'
      OBVIOUS
    <3>2. spoilt \subseteq spoilt'
      BY <2>3 DEF Moved
    <3>3. /\ \A m : Op("find", m) # Op("drop", l)
          /\ Op("unset", "interface") # Op("drop", l) /\ Op("read", "zone") # Op("drop", l)
      BY OpFields
    <3>4. ASSUME NEW m \in List \ spoilt', t \in Held(m)'
          PROVE  Op("find", m) \in Left(t)'
      <4>1. t \in Held(m) /\ m \notin spoilt /\ m # l
        BY <1>3, <1>7, <3>2, <3>4 DEF Held
      <4>2. Op("find", m) \in Left(t)
        BY <1>1, <3>1, <4>1 DEF CleanedUp
      <4>. QED  BY <1>4, <2>4, <3>3, <4>1, <4>2
    <3>5. Member(t)' => Member(t)
      BY <1>3, <2>2, <2>3, SameZone DEF Second
    <3>6. "zone" \notin spoilt' =>
            /\ t \in named' => Op("unset", "interface") \in Left(t)'
            /\ Member(t)' => Op("read", "zone") \in Left(t)'
      BY <1>1, <1>3, <1>5, <2>4, <3>1, <3>2, <3>3, <3>5 DEF CleanedUp
    <3>. QED  BY <3>4, <3>6 DEF CleanedUp
  <2>. HIDE DEF h
  <2>7. TypeOK'
    BY <1>2, <1>3, <2>3, RanType DEF TypeOK
  <2>8. "zone" \notin spoilt' => Zone'
    <3>1. ~Pending(t, "refill", "zone") /\ spoilt \subseteq spoilt'
      BY <1>1, <2>3 DEF Moved
    <3>. QED  BY <1>2, <1>3, <2>2, <2>3, <3>1, ZoneStays DEF IInv, Second
  <2>9. Entries(t)
    BY <1>3, <2>2, <2>3, SameZone DEF Entries, Held, Second
  <2>. QED  BY <2>3, <2>5, <2>6, <2>7, <2>8, <2>9, MovedInv
<1>. QED  BY <1>6, <1>7

LEMMA Removed ==
  ASSUME NEW S, NEW s \in Seq(S), NEW d \in Nat, d <= Len(s)
  PROVE  /\ RemoveAt(s, d) \in Seq(S)
         /\ d \in 1..Len(s) =>
              /\ Len(RemoveAt(s, d)) = Len(s) - 1
              /\ \A i \in 1..(Len(s) - 1) : RemoveAt(s, d)[i] = s[IF i < d THEN i ELSE i + 1]
<1>. DEFINE a == SubSeq(s, 1, d - 1)
            b == SubSeq(s, d + 1, Len(s))
            r == a \o b
<1>1. RemoveAt(s, d) = r
  BY DEF RemoveAt
<1>2. Len(s) \in Nat
  OBVIOUS
<1>3. a \in Seq(S) /\ b \in Seq(S)
  BY <1>2
<1>4. r \in Seq(S)
  BY <1>3
<1>5. ASSUME d \in 1..Len(s)
      PROVE  Len(r) = Len(s) - 1 /\ \A i \in 1..(Len(s) - 1) : r[i] = s[IF i < d THEN i ELSE i + 1]
  <2>1. Len(a) = d - 1 /\ \A i \in 1..(d - 1) : a[i] = s[i]
    BY <1>2, <1>5
  <2>2. Len(b) = Len(s) - d /\ \A i \in 1..(Len(s) - d) : b[i] = s[d + i]
    BY <1>2, <1>5
  <2>. HIDE DEF a, b
  <2>3. Len(r) = Len(a) + Len(b) /\ \A i \in 1..Len(r) : r[i] = IF i <= Len(a) THEN a[i] ELSE b[i - Len(a)]
    BY <1>3
  <2>. HIDE DEF r
  <2>4. Len(r) = Len(s) - 1
    BY <1>2, <1>5, <2>1, <2>2, <2>3
  <2>5. ASSUME NEW i \in 1..(Len(s) - 1) PROVE r[i] = s[IF i < d THEN i ELSE i + 1]
    <3>1. CASE i < d
      BY <1>2, <1>5, <2>1, <2>3, <2>4, <3>1
    <3>2. CASE ~(i < d)
      <4>1. r[i] = b[i - (d - 1)] /\ i - (d - 1) \in 1..(Len(s) - d)
        BY <1>2, <1>5, <2>1, <2>3, <2>4, <3>2
      <4>2. b[i - (d - 1)] = s[d + (i - (d - 1))] /\ d + (i - (d - 1)) = i + 1
        BY <2>2, <4>1
      <4>. QED  BY <3>2, <4>1, <4>2
    <3>. QED  BY <3>1, <3>2
  <2>. QED  BY <2>4, <2>5
<1>. QED  BY <1>1, <1>4, <1>5

LEMMA DropInv ==
  ASSUME IInv, NEW t \in Name, NEW l \in List, DropSection(t, l), Ran(t)
  PROVE  IInv'
<1>. DEFINE h == NextOp(t)
            s == lists[l]
            d == run[t].index
            s2 == IF d <= Len(s) THEN RemoveAt(s, d) ELSE s
<1>1. /\ Busy(t) /\ h.do = "drop" /\ h.on = l
      /\ Pending(t, "drop", l)
      /\ \A x, o : Pending(t, x, o) => x = "drop" /\ o = l
  BY OpIs DEF DropSection
<1>2. Threads /\ TypeOK /\ d \in Nat
  BY Where DEF IInv
<1>3. s \in Seq(Name \cup {None}) /\ Len(s) \in Nat
  BY ListType
<1>4. s2 \in Seq(Name \cup {None})
  BY <1>2, <1>3, Removed
<1>5. /\ lists' \in [List -> Seq(Name \cup {None})] /\ lists'[l] = s2 /\ Held(l)' = ToSet(s2)
      /\ \A m \in List \ {l} : lists'[m] = lists[m] /\ Held(m)' = Held(m)
  BY <1>2, <1>4, NewList DEF DropSection
<1>6. /\ run' \in [Name -> Thread] /\ \A u \in Name \ {t} : run'[u] = run[u]
      /\ run'[t].at = run[t].at /\ run'[t].todo = Advanced(t)
  <2>1. run' = [run EXCEPT ![t].todo = Advanced(t), ![t].index = 0]
    BY DEF DropSection
  <2>. QED  BY <1>1, <1>2, <2>1, NextIsLeft, Steps
<1>7. Moved(t, h) /\ Left(t) \subseteq {h} \cup Left(t)'
  BY <1>1, <1>2, <1>6, Goes DEF DropSection
<1>8. \A do \in Second : \A on : ~Pending(t, do, on)'
  BY <1>1, <1>7, PendingAfter DEF Second
<1>9. l \notin spoilt' => /\ d \in 1..Len(s) /\ s[d] = t /\ Len(s2) = Len(s) - 1
                          /\ \A i \in 1..Len(s2) : s2[i] = s[IF i < d THEN i ELSE i + 1]
  <2>1. l \notin spoilt' => Section(l)
    BY <1>7 DEF IInv, Moved
  <2>2. l \notin spoilt' => d \in 1..Len(s) /\ s[d] = t
    BY <1>1, <2>1 DEF Section
  <2>3. d \in 1..Len(s) => s2 = RemoveAt(s, d) /\ d <= Len(s)
    BY <1>2, <1>3
  <2>. HIDE DEF s, s2, d
  <2>4. ASSUME d \in 1..Len(s)
        PROVE  /\ Len(s2) = Len(s) - 1
               /\ \A i \in 1..Len(s2) : s2[i] = s[IF i < d THEN i ELSE i + 1]
    <3>1. d <= Len(s) /\ s2 = RemoveAt(s, d)
      BY <2>3, <2>4
    <3>2. /\ Len(RemoveAt(s, d)) = Len(s) - 1
          /\ \A i \in 1..(Len(s) - 1) : RemoveAt(s, d)[i] = s[IF i < d THEN i ELSE i + 1]
      BY <1>2, <1>3, <2>4, <3>1, Removed
    <3>. QED  BY <3>1, <3>2
  <2>. QED  BY <2>2, <2>4
<1>. HIDE DEF s2
<1>10. ASSUME l \notin spoilt'
       PROVE  /\ \A x : x \in Held(l)' => x \in Held(l)
              /\ \A x : x \in Held(l) => x \in Held(l)' \/ x = t
              /\ t \notin Held(l)'
  <2>1. \A x : x \in Held(l)' <=> \E i \in 1..Len(s2) : s2[i] = x
    BY <1>4, <1>5, InSet
  <2>2. \A x : x \in Held(l) <=> \E i \in 1..Len(s) : s[i] = x
    BY <1>3, InSet DEF Held
  <2>3. /\ d \in 1..Len(s) /\ s[d] = t /\ Len(s2) = Len(s) - 1
        /\ \A i \in 1..Len(s2) : s2[i] = s[IF i < d THEN i ELSE i + 1]
    BY <1>9, <1>10
  <2>4. \A i \in 1..Len(s2) : (IF i < d THEN i ELSE i + 1) \in 1..Len(s) \ {d}
    BY <1>3, <2>3
  <2>5. \A j \in 1..Len(s) : j # d => \E i \in 1..Len(s2) : s2[i] = s[j]
    <3>1. SUFFICES ASSUME NEW j \in 1..Len(s), j # d PROVE \E i \in 1..Len(s2) : s2[i] = s[j]
      OBVIOUS
    <3>2. CASE j < d
      BY <1>3, <2>3, <3>1, <3>2
    <3>3. CASE j > d
      <4>1. j - 1 \in 1..Len(s2) /\ ~(j - 1 < d) /\ (j - 1) + 1 = j
        BY <1>3, <2>3, <3>1, <3>3
      <4>. QED  BY <2>3, <4>1
    <3>. QED  BY <1>3, <2>3, <3>1, <3>2, <3>3
  <2>6. \A i \in 1..Len(s) : s[i] = t => i = d
    <3>1. Section(l) /\ t # None
      BY <1>7, <1>10, RouterAssumption DEF IInv, Moved
    <3>. QED  BY <2>3, <3>1 DEF Section
  <2>7. \A x : x \in Held(l)' => x \in Held(l) /\ x # t
    BY <2>1, <2>2, <2>3, <2>4, <2>6
  <2>8. \A x : x \in Held(l) => x \in Held(l)' \/ x = t
    BY <2>1, <2>2, <2>3, <2>5
  <2>. QED  BY <2>7, <2>8
<1>. HIDE DEF h
<1>11. TypeOK'
  BY <1>2, <1>5, <1>7, RanType DEF DropSection, TypeOK
<1>12. Entries(t)
  <2>1. \A m \in List \ spoilt' : Held(m)' \ {t, None} = Held(m) \ {t, None}
    BY <1>5, <1>10
  <2>. QED  BY <1>7, <1>8, <2>1, SameZone DEF Entries, DropSection, Second
<1>13. ASSUME NEW m \in List \ spoilt' PROVE Section(m)'
  <2>1. Section(m)
    BY <1>7 DEF IInv, Moved
  <2>2. CASE m # l
    BY <1>1, <1>2, <1>5, <1>7, <2>1, <2>2, OtherSection
  <2>3. CASE m = l
    <3>0. /\ d \in 1..Len(s) /\ s[d] = t /\ Len(s2) = Len(s) - 1
          /\ \A i \in 1..Len(s2) : s2[i] = s[IF i < d THEN i ELSE i + 1]
      BY <1>9, <2>3
    <3>1. \A u \in Name \ {t} : ~Pending(u, "name", l) /\ ~Pending(u, "drop", l)
      <4>1. \A u \in Name \ {t} : ~Upsets(h, u)
        BY <1>1, <1>2, <2>3, NoUpset DEF Ran, h
      <4>. QED  BY <1>1, <4>1 DEF Upsets
    <3>2. \A u \in Name : ~Pending(u, "name", l)' /\ ~Pending(u, "drop", l)'
      BY <1>7, <1>8, <3>1, Others DEF Second
    <3>3. \A u \in Name : MayAdd(u, l)' => u \notin Held(l)'
      BY <1>2, <1>7, <1>10, <2>1, <2>3, MovedMayAdd DEF Section
    <3>4. \A i \in 1..Len(s2) : (IF i < d THEN i ELSE i + 1) \in 1..Len(s)
      BY <1>3, <3>0
    <3>5. ASSUME failed' = {}, NEW i \in 1..Len(s2), s2[i] = None PROVE FALSE
      <4>1. failed = {}
        BY <3>5 DEF DropSection
      <4>2. PICK u \in Name : Pending(u, "name", l)
        BY <2>1, <2>3, <3>0, <3>4, <3>5, <4>1 DEF Section
      <4>. QED  BY <1>1, <3>1, <4>2
    <3>6. ASSUME NEW i \in 1..Len(s2), NEW j \in 1..Len(s2), s2[i] = s2[j], s2[i] # None PROVE i = j
      <4>1. (IF i < d THEN i ELSE i + 1) = (IF j < d THEN j ELSE j + 1)
        BY <2>1, <2>3, <3>0, <3>4, <3>6 DEF Section
      <4>. QED  BY <1>3, <3>0, <3>6, <4>1
    <3>. QED  BY <1>5, <2>3, <3>2, <3>3, <3>5, <3>6 DEF Section
  <2>. QED  BY <2>2, <2>3
<1>14. "zone" \notin spoilt' => Zone'
  <2>1. ~Pending(t, "refill", "zone")
    BY <1>1
  <2>2. spoilt \subseteq spoilt'
    BY <1>7 DEF Moved
  <2>. QED  BY <1>2, <1>7, <1>8, <2>1, <2>2, ZoneStays DEF IInv, DropSection, Second
<1>15. CleanedUp(t) => CleanedUp(t)'
  <2>1. SUFFICES ASSUME CleanedUp(t) PROVE CleanedUp(t)'
    OBVIOUS
  <2>2. spoilt \subseteq spoilt' /\ named' = named /\ zone' = zone
    BY <1>7 DEF Moved, DropSection
  <2>3. /\ \A m : Op("find", m) # h
        /\ Op("unset", "interface") # h /\ Op("read", "zone") # h
    BY <1>1, OpFields
  <2>4. ASSUME NEW m \in List \ spoilt', t \in Held(m)' PROVE Op("find", m) \in Left(t)'
    <3>1. t \in Held(m) /\ m # l
      BY <1>5, <1>10, <2>4
    <3>2. Op("find", m) \in Left(t)
      BY <1>1, <2>1, <2>2, <2>4, <3>1 DEF CleanedUp
    <3>. QED  BY <1>7, <2>3, <3>2
  <2>5. Member(t)' => Member(t)
    BY <1>7, <1>8, <2>2, SameZone DEF Second
  <2>6. "zone" \notin spoilt' =>
          /\ t \in named' => Op("unset", "interface") \in Left(t)'
          /\ Member(t)' => Op("read", "zone") \in Left(t)'
    BY <1>1, <1>7, <2>1, <2>2, <2>3, <2>5 DEF CleanedUp
  <2>. QED  BY <2>4, <2>6 DEF CleanedUp
<1>. QED  BY <1>7, <1>11, <1>12, <1>13, <1>14, <1>15, MovedInv

-----------------------------------------------------------------------------
(* The interface and the zone                                              *)

\* Commands on the interface or the zone leave all sections alone.
LEMMA NoSection ==
  ASSUME IInv, NEW t \in Name, NEW h, Moved(t, h), lists' = lists, h.on \notin List
  PROVE  \A l \in List \ spoilt' : Section(l)'
<1>1. ASSUME NEW l \in List \ spoilt' PROVE Section(l)'
  <2>1. Section(l) /\ Threads
    BY DEF IInv, Moved
  <2>. QED  BY <2>1, OtherSection
<1>. QED  BY <1>1

LEMMA Elsewhere == "interface" \notin List /\ "zone" \notin List
BY RouterAssumption

\* A thread goes on to clean up what it has to, for as long as it skips nothing.
LEMMA StillCleaning ==
  ASSUME NEW t \in Name, NEW h, Moved(t, h), h.do # "find", lists' = lists, CleanedUp(t),
         \A l : ~Pending(t, "drop", l), Left(t) \subseteq {h} \cup Left(t)'
  PROVE  \A l \in List \ spoilt' : t \in Held(l)' => Op("find", l) \in Left(t)'
<1>1. ASSUME NEW l \in List \ spoilt', t \in Held(l)' PROVE Op("find", l) \in Left(t)'
  <2>1. t \in Held(l) /\ l \notin spoilt
    BY <1>1 DEF Held, Moved
  <2>2. Op("find", l) \in Left(t) /\ Op("find", l) # h
    BY <2>1, OpFields DEF CleanedUp
  <2>. QED  BY <2>2
<1>. QED  BY <1>1

LEMMA SetInv ==
  ASSUME IInv, NEW t \in Name, SetInterface(t), Ran(t)
  PROVE  IInv'
<1>. DEFINE h == NextOp(t)
<1>1. PICK do \in {"set", "unset"} :
        /\ Pending(t, do, "interface")
        /\ named' = IF do = "set" THEN named \cup {t} ELSE named \ {t}
  BY DEF SetInterface
<1>2. /\ Busy(t) /\ h.do = do /\ h.on = "interface" /\ h.on \notin List
      /\ \A d, o : Pending(t, d, o) => d = do /\ o = "interface"
  BY <1>1, OpIs, Elsewhere
<1>3. Threads /\ TypeOK
  BY DEF IInv
<1>4. lists' = lists /\ zone' = zone /\ failed' = failed
  BY DEF SetInterface
<1>5. /\ run' \in [Name -> Thread] /\ \A u \in Name \ {t} : run'[u] = run[u]
      /\ run'[t].at = run[t].at /\ run'[t].todo = Advanced(t)
  BY <1>2, <1>3, NextIsLeft, Steps DEF SetInterface, Then
<1>6. Moved(t, h) /\ Left(t) \subseteq {h} \cup Left(t)'
  BY <1>2, <1>3, <1>4, <1>5, Goes
<1>7. \A x \in Second : \A on : ~Pending(t, x, on)'
  BY <1>2, <1>6, PendingAfter DEF Second
<1>. HIDE DEF h
<1>8. TypeOK'
  <2>1. named' \subseteq Name
    BY <1>1, <1>3 DEF TypeOK
  <2>. QED  BY <1>3, <1>4, <1>6, <2>1, RanType DEF TypeOK
<1>9. Entries(t)
  <2>1. \A k : Member(k)' => Member(k)
    BY <1>4, <1>6, <1>7, SameZone DEF Second
  <2>. QED  BY <1>1, <1>4, <2>1 DEF Entries, Held
<1>10. \A l \in List \ spoilt' : Section(l)'
  BY <1>2, <1>4, <1>6, NoSection
<1>11. "zone" \notin spoilt' => Zone'
  <2>1. ~Pending(t, "refill", "zone") /\ spoilt \subseteq spoilt'
    BY <1>2, <1>6 DEF Moved
  <2>. QED  BY <1>3, <1>4, <1>6, <1>7, <2>1, ZoneStays DEF IInv, Second
<1>12. ASSUME run[t].at \in {"cleanUp", "late"}, CleanedUp(t) PROVE CleanedUp(t)'
  <2>1. do = "unset"
    BY <1>2, <1>3, <1>12, NotCleaning DEF h
  <2>2. t \notin named'
    BY <1>1, <2>1
  <2>3. \A l \in List \ spoilt' : t \in Held(l)' => Op("find", l) \in Left(t)'
    BY <1>2, <1>4, <1>6, <1>12, StillCleaning
  <2>4. Member(t)' => Member(t)
    BY <1>4, <1>6, <1>7, SameZone DEF Second
  <2>5. "zone" \notin spoilt' /\ Member(t)' => Op("read", "zone") \in Left(t)'
    <3>1. Op("read", "zone") # h
      BY <1>2, OpFields
    <3>2. spoilt \subseteq spoilt'
      BY <1>6 DEF Moved
    <3>. QED  BY <1>2, <1>6, <1>12, <2>4, <3>1, <3>2 DEF CleanedUp
  <2>. QED  BY <2>2, <2>3, <2>5 DEF CleanedUp
<1>. QED  BY <1>6, <1>8, <1>9, <1>10, <1>11, <1>12, MovedInv

LEMMA JoinInv ==
  ASSUME IInv, NEW t \in Name, JoinZone(t), Ran(t)
  PROVE  IInv'
<1>. DEFINE h == NextOp(t)
<1>1. /\ Busy(t) /\ h.do = "join" /\ h.on = "zone" /\ h.on \notin List
      /\ \A d, o : Pending(t, d, o) => d = "join" /\ o = "zone"
  BY OpIs, Elsewhere DEF JoinZone
<1>2. Threads /\ TypeOK
  BY DEF IInv
<1>3. lists' = lists /\ named' = named /\ failed' = failed /\ zone' = zone \cup {t}
  BY DEF JoinZone
<1>4. /\ run' \in [Name -> Thread] /\ \A u \in Name \ {t} : run'[u] = run[u]
      /\ run'[t].at = run[t].at /\ run'[t].todo = Advanced(t)
  BY <1>1, <1>2, NextIsLeft, Steps DEF JoinZone, Then
<1>5. Moved(t, h)
  BY <1>1, <1>2, <1>3, <1>4, Goes
<1>6. \A x \in Second : \A on : ~Pending(t, x, on)'
  BY <1>1, <1>5, PendingAfter DEF Second
<1>7. ASSUME "zone" \notin spoilt'
      PROVE  \A u \in Name \ {t} : ~Pending(u, "clear", "zone") /\ ~Pending(u, "refill", "zone")
  <2>1. \A u \in Name \ {t} : ~Upsets(h, u)
    BY <1>1, <1>2, <1>7, NoUpset DEF Ran
  <2>. QED  BY <1>1, <2>1 DEF Upsets
<1>. HIDE DEF h
<1>8. TypeOK'
  BY <1>2, <1>3, <1>5, RanType DEF TypeOK
<1>9. Entries(t)
  <2>1. \A k \in Name \ {t} : Member(k)' => Member(k)
    BY <1>3, <1>5, <1>6, Others DEF Member, Second
  <2>. QED  BY <1>3, <2>1 DEF Entries, Held
<1>10. \A l \in List \ spoilt' : Section(l)'
  BY <1>1, <1>3, <1>5, NoSection
<1>11. ASSUME "zone" \notin spoilt' PROVE Zone'
  <2>1. \A u \in Name : ~Pending(u, "clear", "zone")' /\ ~Pending(u, "refill", "zone")'
    BY <1>5, <1>6, <1>7, <1>11, Others DEF Second
  <2>2. ~Pending(t, "refill", "zone") /\ "zone" \notin spoilt
    BY <1>1, <1>5, <1>11 DEF Moved
  <2>3. ~Rewriting
    BY <1>7, <1>11, <2>2 DEF Rewriting
  <2>4. {Lan} \cup Ready \subseteq zone'
    BY <1>3, <2>2, <2>3 DEF IInv, Zone
  <2>5. Ready' = Ready
    BY <1>2, <1>5, MovedReady
  <2>. QED  BY <2>1, <2>4, <2>5 DEF Zone
<1>12. run[t].at \notin {"cleanUp", "late"}
  BY <1>1, <1>2, NotCleaning DEF h
<1>. QED  BY <1>5, <1>8, <1>9, <1>10, <1>11, <1>12, MovedInv

LEMMA ReadInv ==
  ASSUME IInv, NEW t \in Name, ReadZone(t), Ran(t)
  PROVE  IInv'
<1>. DEFINE h == NextOp(t)
<1>1. /\ Busy(t) /\ h = Op("read", "zone") /\ h.do = "read" /\ h.on = "zone" /\ h.on \notin List
      /\ Pending(t, "read", "zone")
      /\ \A d, o : Pending(t, d, o) => d = "read" /\ o = "zone"
  BY OpIs, Elsewhere DEF ReadZone
<1>2. Threads /\ TypeOK /\ zone \in SUBSET (Name \cup {Lan})
  BY DEF IInv, TypeOK
<1>3. lists' = lists /\ named' = named /\ failed' = failed /\ zone' = zone
  BY DEF ReadZone, config
<1>4. Op("unset", "interface") # h
  BY <1>1, OpFields
<1>5. CASE t \in zone
  <2>1. run' = [run EXCEPT ![t].todo = Advanced(t), ![t].nets = zone]
    BY <1>5 DEF ReadZone
  <2>2. /\ run' \in [Name -> Thread] /\ \A u \in Name \ {t} : run'[u] = run[u]
        /\ run'[t].at = run[t].at /\ run'[t].todo = Advanced(t)
    BY <1>1, <1>2, <2>1, NextIsLeft, Steps
  <2>3. run'[t].nets = zone
    <3>1. run \in [Name -> Thread] /\ run[t] \in Thread
      BY <1>2 DEF Threads
    <3>. QED  BY <2>1, <3>1 DEF Thread
  <2>4. /\ Moved(t, h) /\ Left(t) \subseteq {h} \cup Left(t)'
        /\ \A do, on : Heir(h, Op(do, on)) => Pending(t, do, on)'
    BY <1>1, <1>2, <1>3, <2>2, Goes
  <2>5. ~Pending(t, "refill", "zone")'
    BY <1>1, <2>4, PendingAfter DEF Second
  <2>6. Pending(t, "clear", "zone")'
    BY <1>1, <2>4 DEF Heir
  <2>. HIDE DEF h
  <2>7. TypeOK'
    BY <1>2, <1>3, <2>4, RanType DEF TypeOK
  <2>8. Entries(t)
    BY <1>3, <2>4, <2>5, SameZone DEF Entries, Held
  <2>9. \A l \in List \ spoilt' : Section(l)'
    BY <1>1, <1>3, <2>4, NoSection
  <2>10. "zone" \notin spoilt' => Zone'
    <3>1. ~Pending(t, "refill", "zone") /\ spoilt \subseteq spoilt'
      BY <1>1, <2>4 DEF Moved
    <3>. QED  BY <1>2, <1>3, <2>3, <2>4, <2>5, <3>1, ZoneStays DEF IInv
  <2>11. ASSUME CleanedUp(t) PROVE CleanedUp(t)'
    <3>1. \A l \in List \ spoilt' : t \in Held(l)' => Op("find", l) \in Left(t)'
      BY <1>1, <1>3, <2>4, <2>11, StillCleaning
    <3>2. spoilt \subseteq spoilt'
      BY <2>4 DEF Moved
    <3>. QED  BY <1>3, <1>4, <2>4, <2>6, <2>11, <3>1, <3>2 DEF CleanedUp
  <2>. QED  BY <2>4, <2>7, <2>8, <2>9, <2>10, <2>11, MovedInv
<1>6. CASE t \notin zone
  <2>. DEFINE td == run[t].todo
              next == Groups(SubSeq(Head(td), 4, Len(Head(td))), Tail(td))
  <2>1. run' = [run EXCEPT ![t].todo = next]
    BY <1>6 DEF ReadZone
  <2>2. next \in Seq(Call)
    <3>1. Script(td) /\ td # <<>> /\ First(td).do = "read"
      BY <1>1, <1>2, NextIsLeft
    <3>. HIDE DEF td
    <3>. QED  BY <3>1, AfterSkip DEF Fresh, Script
  <2>3. /\ run' \in [Name -> Thread] /\ \A u \in Name \ {t} : run'[u] = run[u]
        /\ run'[t].at = run[t].at /\ run'[t].todo = next
    <3>. HIDE DEF next
    <3>. QED  BY <1>2, <2>1, <2>2, Steps
  <2>4. /\ Onward(t, h)
        /\ \A do \in Second : \A on : ~Pending(t, do, on)'
        /\ Left(t) \subseteq {Op("read", "zone"), Op("clear", "zone"), Op("refill", "zone")} \cup Left(t)'
    BY <1>1, <1>2, <2>3, Skips
  <2>5. Moved(t, h)
    BY <1>1, <1>3, <2>3, <2>4 DEF Moved, Ran
  <2>6. ASSUME "zone" \notin spoilt' PROVE \A u \in Name \ {t} : ~Pending(u, "refill", "zone")
    <3>1. \A u \in Name \ {t} : ~Upsets(h, u)
      BY <1>1, <1>2, <2>6, NoUpset DEF Ran
    <3>. QED  BY <1>1, <3>1 DEF Upsets
  <2>. HIDE DEF h, next
  <2>7. TypeOK'
    BY <1>2, <1>3, <2>5, RanType DEF TypeOK
  <2>8. Entries(t)
    BY <1>3, <2>4, <2>5, SameZone DEF Entries, Held, Second
  <2>9. \A l \in List \ spoilt' : Section(l)'
    BY <1>1, <1>3, <2>5, NoSection
  <2>10. "zone" \notin spoilt' => Zone'
    <3>1. ~Pending(t, "refill", "zone") /\ spoilt \subseteq spoilt'
      BY <1>1, <2>5 DEF Moved
    <3>. QED  BY <1>2, <1>3, <2>4, <2>5, <3>1, ZoneStays DEF IInv, Second
  <2>11. ASSUME CleanedUp(t) PROVE CleanedUp(t)'
    <3>0. spoilt \subseteq spoilt'
      BY <2>5 DEF Moved
    <3>1. ASSUME NEW l \in List \ spoilt', t \in Held(l)' PROVE Op("find", l) \in Left(t)'
      <4>1. t \in Held(l) /\ l \notin spoilt
        BY <1>3, <3>0, <3>1 DEF Held
      <4>2. Op("find", l) \in Left(t)
        BY <1>1, <2>11, <4>1 DEF CleanedUp
      <4>3. Op("find", l) \notin {Op("read", "zone"), Op("clear", "zone"), Op("refill", "zone")}
        BY OpFields
      <4>. QED  BY <2>4, <4>2, <4>3
    <3>2. ASSUME "zone" \notin spoilt' PROVE ~Member(t)'
      BY <1>3, <1>6, <2>4, <2>5, <2>6, <3>2, Others DEF Member, Second
    <3>3. Op("unset", "interface") \notin {Op("read", "zone"), Op("clear", "zone"), Op("refill", "zone")}
      BY OpFields
    <3>4. "zone" \notin spoilt' /\ t \in named' => Op("unset", "interface") \in Left(t)'
      BY <1>3, <2>4, <2>11, <3>0, <3>3 DEF CleanedUp
    <3>. QED  BY <3>1, <3>2, <3>4 DEF CleanedUp
  <2>. QED  BY <2>5, <2>7, <2>8, <2>9, <2>10, <2>11, MovedInv
<1>. QED  BY <1>5, <1>6

LEMMA ClearInv ==
  ASSUME IInv, NEW t \in Name, ClearZone(t), Ran(t)
  PROVE  IInv'
<1>. DEFINE h == NextOp(t)
<1>1. /\ Busy(t) /\ h = Op("clear", "zone") /\ h.do = "clear" /\ h.on = "zone" /\ h.on \notin List
      /\ Pending(t, "clear", "zone")
      /\ \A d, o : Pending(t, d, o) => d = "clear" /\ o = "zone"
  BY OpIs, Elsewhere DEF ClearZone
<1>2. Threads /\ TypeOK
  BY DEF IInv
<1>3. lists' = lists /\ named' = named /\ zone' = {}
  BY DEF ClearZone
<1>4. CASE zone = {}
  <2>1. /\ run' = [run EXCEPT ![t] = Raised(t)] /\ failed' = failed \cup {t}
    BY <1>4 DEF ClearZone
  <2>2. /\ run' \in [Name -> Thread] /\ \A u \in Name \ {t} : run'[u] = run[u]
        /\ Onward(t, h) \/ Undone(t)
        /\ \A do \in Second : \A on : ~Pending(t, do, on)'
    BY <1>1, <1>2, <2>1, Raises
  <2>3. Moved(t, h)
    BY <1>1, <2>1, <2>2 DEF Moved, Ran
  <2>. HIDE DEF h
  <2>4. TypeOK'
    BY <1>2, <1>3, <2>3, RanType DEF TypeOK
  <2>5. Entries(t)
    BY <1>3, <1>4, <2>2, <2>3, SameZone DEF Entries, Held, Second
  <2>6. \A l \in List \ spoilt' : Section(l)'
    BY <1>1, <1>3, <2>3, NoSection
  <2>7. "zone" \notin spoilt' => Zone'
    <3>1. ~Pending(t, "refill", "zone") /\ spoilt \subseteq spoilt'
      BY <1>1, <2>3 DEF Moved
    <3>. QED  BY <1>2, <1>3, <1>4, <2>2, <2>3, <3>1, ZoneStays DEF IInv, Second
  <2>. QED  BY <2>1, <2>3, <2>4, <2>5, <2>6, <2>7, MovedInv
<1>5. CASE zone # {}
  <2>1. Then(t) /\ failed' = failed
    BY <1>5 DEF ClearZone
  <2>2. /\ run' \in [Name -> Thread] /\ \A u \in Name \ {t} : run'[u] = run[u]
        /\ run'[t].at = run[t].at /\ run'[t].todo = Advanced(t)
    BY <1>1, <1>2, <2>1, NextIsLeft, Steps DEF Then
  <2>3. run'[t].nets = run[t].nets
    <3>1. run \in [Name -> Thread] /\ run[t] \in Thread
      BY <1>2 DEF Threads
    <3>. QED  BY <2>1, <3>1 DEF Thread, Then
  <2>4. /\ Moved(t, h) /\ Left(t) \subseteq {h} \cup Left(t)'
        /\ \A do, on : Heir(h, Op(do, on)) => Pending(t, do, on)'
    BY <1>1, <1>2, <2>1, <2>2, Goes
  <2>5. ~Pending(t, "clear", "zone")'
    BY <1>1, <2>4, PendingAfter DEF Second
  <2>6. Pending(t, "refill", "zone")'
    BY <1>1, <2>4 DEF Heir
  <2>7. ASSUME "zone" \notin spoilt'
        PROVE  \A u \in Name \ {t} : /\ ~Pending(u, "clear", "zone") /\ ~Pending(u, "refill", "zone")
                                     /\ ~Pending(u, "clear", "zone")' /\ ~Pending(u, "refill", "zone")'
    <3>1. \A u \in Name \ {t} : ~Upsets(h, u)
      BY <1>1, <1>2, <2>7, NoUpset DEF Ran
    <3>. QED  BY <1>1, <2>4, <3>1, Others DEF Upsets
  <2>8. "zone" \notin spoilt' => run[t].nets = zone
    BY <1>1, <2>4 DEF IInv, Zone, Moved
  <2>. HIDE DEF h
  <2>9. TypeOK'
    BY <1>2, <1>3, <2>4, RanType DEF TypeOK
  <2>10. ASSUME "zone" \notin spoilt', NEW k, Member(k)' PROVE Member(k)
    BY <1>3, <2>3, <2>7, <2>8, <2>10 DEF Member
  <2>11. Entries(t)
    BY <1>3, <2>10 DEF Entries, Held
  <2>12. \A l \in List \ spoilt' : Section(l)'
    BY <1>1, <1>3, <2>4, NoSection
  <2>13. ASSUME "zone" \notin spoilt' PROVE Zone'
    <3>1. ~Rewriting
      BY <1>1, <2>7, <2>13 DEF Rewriting
    <3>2. {Lan} \cup Ready \subseteq zone
      BY <2>4, <2>13, <3>1 DEF IInv, Zone, Moved
    <3>3. Ready' = Ready
      BY <1>2, <2>4, MovedReady
    <3>4. Rewriting'
      BY <2>6 DEF Rewriting
    <3>5. {Lan} \cup Ready' \subseteq run'[t].nets
      BY <2>3, <2>8, <2>13, <3>2, <3>3
    <3>. QED  BY <1>3, <2>5, <2>7, <2>13, <3>4, <3>5 DEF Zone
  <2>14. ASSUME CleanedUp(t) PROVE CleanedUp(t)'
    <3>1. \A l \in List \ spoilt' : t \in Held(l)' => Op("find", l) \in Left(t)'
      BY <1>1, <1>3, <2>4, <2>14, StillCleaning
    <3>2. spoilt \subseteq spoilt' /\ Op("unset", "interface") # h
      BY <1>1, <2>4, OpFields DEF Moved
    <3>. QED  BY <1>3, <2>4, <2>6, <2>14, <3>1, <3>2 DEF CleanedUp
  <2>. QED  BY <2>4, <2>9, <2>11, <2>12, <2>13, <2>14, MovedInv
<1>. QED  BY <1>4, <1>5

LEMMA RefillInv ==
  ASSUME IInv, NEW t \in Name, RefillZone(t), Ran(t)
  PROVE  IInv'
<1>. DEFINE h == NextOp(t)
<1>1. /\ Busy(t) /\ h = Op("refill", "zone") /\ h.do = "refill" /\ h.on = "zone" /\ h.on \notin List
      /\ Pending(t, "refill", "zone")
      /\ \A d, o : Pending(t, d, o) => d = "refill" /\ o = "zone"
  BY OpIs, Elsewhere DEF RefillZone
<1>2. Threads /\ TypeOK /\ run[t].nets \subseteq Name \cup {Lan}
  BY DEF IInv, TypeOK
<1>3. /\ lists' = lists /\ named' = named /\ failed' = failed /\ zone' = zone \cup (run[t].nets \ {t})
      /\ run' = [run EXCEPT ![t].todo = Advanced(t), ![t].nets = {}]
  BY DEF RefillZone
<1>4. /\ run' \in [Name -> Thread] /\ \A u \in Name \ {t} : run'[u] = run[u]
      /\ run'[t].at = run[t].at /\ run'[t].todo = Advanced(t)
  <2>1. {} \in SUBSET (Name \cup {Lan}) /\ 0 \in Nat /\ Advanced(t) \in Seq(Call)
    BY <1>1, <1>2, NextIsLeft
  <2>2. run' = [run EXCEPT ![t].todo = Advanced(t), ![t].nets = {}]
    BY <1>3
  <2>. QED  BY <1>2, <2>1, <2>2, Steps
<1>5. Moved(t, h) /\ Left(t) \subseteq {h} \cup Left(t)'
  BY <1>1, <1>2, <1>3, <1>4, Goes
<1>6. \A x \in Second : \A on : ~Pending(t, x, on)'
  BY <1>1, <1>5, PendingAfter DEF Second
<1>7. ASSUME "zone" \notin spoilt'
      PROVE  \A u \in Name : ~Pending(u, "clear", "zone")' /\ ~Pending(u, "refill", "zone")'
  <2>1. \A u \in Name \ {t} : ~Upsets(h, u)
    BY <1>1, <1>2, <1>7, NoUpset DEF Ran
  <2>2. \A u \in Name \ {t} : ~Pending(u, "clear", "zone") /\ ~Pending(u, "refill", "zone")
    BY <1>1, <2>1 DEF Upsets
  <2>. QED  BY <1>5, <1>6, <2>2, Others DEF Second
<1>8. ASSUME "zone" \notin spoilt' PROVE zone = {} /\ {Lan} \cup Ready \subseteq run[t].nets
  BY <1>1, <1>5, <1>8 DEF IInv, Zone, Moved
<1>. HIDE DEF h
<1>9. TypeOK'
  <2>1. zone' \subseteq Name \cup {Lan}
    BY <1>2, <1>3 DEF TypeOK
  <2>. QED  BY <1>2, <1>3, <1>5, <2>1, RanType DEF TypeOK
<1>10. Entries(t)
  <2>1. ASSUME "zone" \notin spoilt', NEW k \in Name \ {t}, Member(k)' PROVE Member(k)
    BY <1>1, <1>3, <1>7, <2>1 DEF Member
  <2>. QED  BY <1>3, <2>1 DEF Entries, Held
<1>11. \A l \in List \ spoilt' : Section(l)'
  BY <1>1, <1>3, <1>5, NoSection
<1>12. ASSUME "zone" \notin spoilt' PROVE Zone'
  <2>1. Ready' = Ready /\ ~Free(t, "ready")
    BY <1>2, <1>5, MovedReady
  <2>2. t \notin Ready /\ Lan # t
    BY <2>1, RouterAssumption DEF Ready
  <2>3. {Lan} \cup Ready' \subseteq zone'
    BY <1>3, <1>8, <1>12, <2>1, <2>2
  <2>. QED  BY <1>7, <1>12, <2>3 DEF Zone
<1>13. ASSUME CleanedUp(t) PROVE CleanedUp(t)'
  <2>1. \A l \in List \ spoilt' : t \in Held(l)' => Op("find", l) \in Left(t)'
    BY <1>1, <1>3, <1>5, <1>13, StillCleaning
  <2>2. spoilt \subseteq spoilt' /\ Op("unset", "interface") # h
    BY <1>1, <1>5, OpFields DEF Moved
  <2>3. ASSUME "zone" \notin spoilt' PROVE ~Member(t)'
    BY <1>3, <1>7, <1>8, <2>3 DEF Member
  <2>. QED  BY <1>3, <1>5, <1>13, <2>1, <2>2, <2>3 DEF CleanedUp
<1>. QED  BY <1>5, <1>9, <1>10, <1>11, <1>12, <1>13, MovedInv

LEMMA CommandInv ==
  ASSUME IInv, NEW t \in Name, Command(t)
  PROVE  IInv'
<1>1. Ran(t)
  BY DEF Command, Ran
<1>2. ASSUME NEW l \in List, AddSection(t, l) PROVE IInv'
  BY <1>1, <1>2, AddInv
<1>3. ASSUME NEW l \in List, NameSection(t, l) PROVE IInv'
  BY <1>1, <1>3, NameInv, NamelessInv
<1>4. ASSUME NEW l \in List, FindSection(t, l) PROVE IInv'
  BY <1>1, <1>4, FindInv
<1>5. ASSUME NEW l \in List, DropSection(t, l) PROVE IInv'
  BY <1>1, <1>5, DropInv
<1>6. ASSUME SetInterface(t) PROVE IInv'
  BY <1>1, <1>6, SetInv
<1>7. ASSUME JoinZone(t) PROVE IInv'
  BY <1>1, <1>7, JoinInv
<1>8. ASSUME ReadZone(t) PROVE IInv'
  BY <1>1, <1>8, ReadInv
<1>9. ASSUME ClearZone(t) PROVE IInv'
  BY <1>1, <1>9, ClearInv
<1>10. ASSUME RefillZone(t) PROVE IInv'
  BY <1>1, <1>10, RefillInv
<1>. QED  BY <1>2, <1>3, <1>4, <1>5, <1>6, <1>7, <1>8, <1>9, <1>10 DEF Command

LEMMA FailInv ==
  ASSUME IInv, NEW t \in Name, CommandFails(t)
  PROVE  IInv'
<1>. DEFINE h == NextOp(t)
<1>1. Threads /\ TypeOK /\ Busy(t)
  BY DEF IInv, CommandFails
<1>2. /\ lists' = lists /\ named' = named /\ zone' = zone /\ lock' = lock
      /\ failed' = failed \cup {t} /\ fails' = fails + 1 /\ fails < MaxFail
      /\ run' = [run EXCEPT ![t] = [Raised(t) EXCEPT !.index = 0, !.nets = {}]]
      /\ spoilt' = IF Pending(t, "refill", "zone") THEN spoilt \cup {"zone"} ELSE spoilt
  BY DEF CommandFails, config
<1>3. /\ run' \in [Name -> Thread] /\ \A u \in Name \ {t} : run'[u] = run[u]
      /\ Onward(t, h) \/ Undone(t)
      /\ \A do \in Second : \A on : ~Pending(t, do, on)'
  BY <1>1, <1>2, Raises
<1>4. Moved(t, h)
  BY <1>1, <1>2, <1>3 DEF Moved
<1>. HIDE DEF h
<1>5. TypeOK'
  <2>1. \A u \in Name : run'[u].at \in Stage /\ run'[u].index \in Nat
                        /\ run'[u].nets \subseteq Name \cup {Lan}
    BY <1>3 DEF Thread
  <2>2. fails' \in 0..MaxFail
    BY <1>1, <1>2, RouterAssumption DEF TypeOK
  <2>. QED  BY <1>1, <1>2, <2>1, <2>2 DEF TypeOK
<1>6. Entries(t)
  BY <1>2, <1>3, <1>4, SameZone DEF Entries, Held, Second
<1>7. \A l \in List \ spoilt' : Section(l)'
  BY <1>2, <1>3, <1>4, RaisedSections
<1>8. "zone" \notin spoilt' => Zone'
  <2>1. SUFFICES ASSUME "zone" \notin spoilt' PROVE Zone'
    OBVIOUS
  <2>2. ~Pending(t, "refill", "zone") /\ "zone" \notin spoilt
    BY <1>2, <2>1
  <2>. QED  BY <1>1, <1>2, <1>3, <1>4, <2>2, ZoneStays DEF IInv, Second
<1>. QED  BY <1>2, <1>4, <1>5, <1>6, <1>7, <1>8, MovedInv

-----------------------------------------------------------------------------
(* Threads that turn to something else                                     *)

\* Between two plans t has nothing under way; it takes up a new plan, or none.
Turn(t) ==
  /\ ~Busy(t) /\ Fresh(run'[t].todo)
  /\ run' \in [Name -> Thread] /\ \A u \in Name \ {t} : run'[u] = run[u]
  /\ lists' = lists /\ named' = named /\ zone' = zone
  /\ fails' = fails /\ spoilt' = spoilt /\ failed' = failed
  /\ lock' \in Cluster \cup {None} /\ \A u \in Name \ {t} : lock' = u <=> lock = u
  /\ WorkOf(t)' /\ WhoOf(t)'
  /\ \A l \in List : MayAdd(t, l)' => MayAdd(t, l)
  /\ Free(t, "ready")' => Free(t, "ready") \/ Reachable(t)
  /\ t \in Cluster \ failed /\ run'[t].at \in {"cleanUp", "late", "gone"} => CleanedUp(t)'

LEMMA TurnInv ==
  ASSUME IInv, NEW t \in Name, Turn(t)
  PROVE  IInv'
<1>1. ASSUME NEW u \in Name \ {t}
      PROVE  /\ run'[u] = run[u] /\ Left(u)' = Left(u) /\ (Busy(u)' <=> Busy(u))
             /\ \A do, on : Pending(u, do, on)' <=> Pending(u, do, on)
             /\ \A s : Free(u, s)' <=> Free(u, s)
  <2>1. run'[u] = run[u]
    BY DEF Turn
  <2>2. NextOp(u)' = NextOp(u)
    BY <2>1 DEF NextOp
  <2>. QED  BY <2>1, <2>2 DEF Left, Busy, Pending, Free
<1>2. /\ \A do, on : ~Pending(t, do, on)
      /\ \A do \in Second : \A on : ~Pending(t, do, on)'
  BY FreshPending DEF Turn, Pending
<1>3. /\ lists' = lists /\ named' = named /\ zone' = zone
      /\ spoilt' = spoilt /\ failed' = failed
      /\ \A l : Held(l)' = Held(l)
  BY DEF Turn, Held
<1>4. ASSUME NEW u \in Name, NEW do \in Second, NEW on
      PROVE  Pending(u, do, on)' <=> Pending(u, do, on)
  <2>1. CASE u = t
    BY <1>2, <2>1
  <2>2. CASE u # t
    BY <1>1, <2>2
  <2>. QED  BY <2>1, <2>2
<1>5. TypeOK'
  <2>1. \A u \in Name : run'[u].at \in Stage /\ run'[u].index \in Nat
                        /\ run'[u].nets \subseteq Name \cup {Lan}
    BY DEF Turn, Thread
  <2>. QED  BY <1>3, <2>1 DEF TypeOK, Turn, IInv
<1>6. Threads'
  <2>1. ASSUME NEW u \in Name, u # t
        PROVE  Script(run'[u].todo) /\ WorkOf(u)' /\ WhoOf(u)'
    <3>1. /\ run'[u] = run[u] /\ Left(u)' = Left(u)
          /\ \A l : Pending(u, "name", l)' <=> Pending(u, "name", l)
      BY <1>1, <2>1
    <3>2. Script(run[u].todo) /\ WorkOf(u) /\ WhoOf(u)
      BY DEF IInv, Threads
    <3>3. lock' = u <=> lock = u
      BY <2>1 DEF Turn
    <3>4. WorkOf(u)'
      BY <3>1, <3>2 DEF WorkOf
    <3>. QED  BY <3>1, <3>2, <3>3, <3>4 DEF WhoOf
  <2>. QED  BY <2>1 DEF Threads, Turn, Fresh
<1>7. ASSUME NEW l \in List \ spoilt' PROVE Section(l)'
  <2>1. Section(l)
    BY <1>3 DEF IInv
  <2>2. \A u \in Name : MayAdd(u, l)' => u \notin Held(l)'
    <3>1. \A u \in Name : MayAdd(u, l)' => MayAdd(u, l)
      BY <1>1 DEF Turn, MayAdd
    <3>. QED  BY <1>3, <2>1, <3>1 DEF Section
  <2>3. \A u \in Name : /\ Pending(u, "name", l)' <=> Pending(u, "name", l)
                        /\ Pending(u, "drop", l)' <=> Pending(u, "drop", l)
    BY <1>4 DEF Second
  <2>4. \A u \in Name : Pending(u, "drop", l) => run'[u].index = run[u].index
    BY <1>1, <1>2
  <2>. QED  BY <1>3, <2>1, <2>2, <2>3, <2>4 DEF Section
<1>8. ASSUME NEW k \in Cluster, Free(k, "ready")' PROVE Free(k, "ready") \/ Reachable(k)
  <2>1. k \in Name
    BY DEF Name
  <2>. QED  BY <1>1, <1>8, <2>1 DEF Turn
<1>9. ASSUME "zone" \notin spoilt' PROVE Zone'
  <2>1. Zone
    BY <1>3, <1>9 DEF IInv
  <2>2. \A u \in Name : /\ Pending(u, "clear", "zone")' <=> Pending(u, "clear", "zone")
                        /\ Pending(u, "refill", "zone")' <=> Pending(u, "refill", "zone")
    BY <1>4 DEF Second
  <2>3. \A u \in Name : Pending(u, "clear", "zone") \/ Pending(u, "refill", "zone") => run'[u] = run[u]
    BY <1>1, <1>2
  <2>4. Rewriting' <=> Rewriting
    BY <2>2 DEF Rewriting
  <2>5. \A k \in Ready' : k \in Ready \/ k \in zone
    BY <1>8 DEF Ready, Reachable
  <2>. QED  BY <1>3, <2>1, <2>2, <2>3, <2>4, <2>5 DEF Zone
<1>10. ASSUME NEW k \in Cluster PROVE Kept(k)'
  BY <1>3, <1>8 DEF Kept, Reachable, IInv
<1>11. ASSUME NEW k \in Cluster \ failed', run'[k].at \in {"cleanUp", "late", "gone"}
       PROVE  CleanedUp(k)'
  <2>1. CASE k = t
    BY <1>3, <1>11, <2>1 DEF Turn
  <2>2. CASE k # t
    <3>1. k \in Name \ {t} /\ k \in Cluster \ failed
      BY <1>3, <2>2 DEF Name
    <3>2. /\ run'[k] = run[k] /\ Left(k)' = Left(k)
          /\ \A do, on : Pending(k, do, on)' <=> Pending(k, do, on)
      BY <1>1, <3>1
    <3>3. CleanedUp(k)
      BY <1>11, <3>1, <3>2 DEF IInv
    <3>4. Member(k)' => Member(k)
      BY <1>1, <1>2, <1>3 DEF Member, Second
    <3>. QED  BY <1>3, <3>2, <3>3, <3>4 DEF CleanedUp
  <2>. QED  BY <2>1, <2>2
<1>. QED  BY <1>5, <1>6, <1>7, <1>9, <1>10, <1>11 DEF IInv

LEMMA GoesTo ==
  ASSUME Threads, NEW t \in Name, ~Busy(t), NEW s \in Stage, Goto(t, s)
  PROVE  /\ run' \in [Name -> Thread] /\ \A u \in Name \ {t} : run'[u] = run[u]
         /\ run'[t].at = s /\ run'[t].todo = <<>> /\ run[t].todo = <<>>
         /\ Fresh(run'[t].todo) /\ Left(t)' = {} /\ Left(t) = {}
         /\ \A do, on : ~Pending(t, do, on)' /\ ~Pending(t, do, on)
<1>1. run \in [Name -> Thread] /\ run[t] \in Thread /\ run[t].todo = <<>>
  BY DEF Threads, Busy
<1>2. /\ run' \in [Name -> Thread] /\ \A u \in Name \ {t} : run'[u] = run[u]
      /\ run'[t].at = s /\ run'[t].todo = <<>>
  BY <1>1 DEF Goto, Thread
<1>. QED  BY <1>1, <1>2, NoScript DEF Left, Pending, Busy

LEMMA BeginsAt ==
  ASSUME Threads, NEW t \in Name, ~Busy(t), NEW s \in Stage, NEW td, Fresh(td), Begin(t, s, td)
  PROVE  /\ run' \in [Name -> Thread] /\ \A u \in Name \ {t} : run'[u] = run[u]
         /\ run'[t].at = s /\ run'[t].todo = td /\ run[t].todo = <<>>
         /\ Left(t)' = Ops(td) /\ Left(t) = {}
         /\ \A do \in Second : \A on : ~Pending(t, do, on)'
<1>1. run \in [Name -> Thread] /\ run[t] \in Thread /\ run[t].todo = <<>> /\ td \in Seq(Call)
  BY DEF Threads, Busy, Fresh, Script
<1>2. /\ run' \in [Name -> Thread] /\ \A u \in Name \ {t} : run'[u] = run[u]
      /\ run'[t].at = s /\ run'[t].todo = td
  BY <1>1 DEF Begin, Thread
<1>. QED  BY <1>1, <1>2, NoScript, FreshPending DEF Left

LEMMA EndInv ==
  ASSUME IInv, NEW t \in Name, EndPlan(t)
  PROVE  IInv'
<1>. DEFINE s == Done[run[t].at]
<1>1. /\ Threads /\ TypeOK /\ WorkOf(t) /\ WhoOf(t) /\ ~Busy(t) /\ run[t].at \in DOMAIN Done
      /\ Goto(t, s) /\ lock' = IF lock = t THEN None ELSE lock
  BY DEF IInv, Threads, EndPlan
<1>2. /\ run[t].at = "setUp" => s = "cloning"
      /\ run[t].at = "forward" => s = "ssh"
      /\ run[t].at \in {"cleanUp", "late", "visit"} => s = "gone"
      /\ run[t].at \in {"setUp", "forward", "cleanUp", "late", "visit"}
  BY <1>1 DEF Done
<1>. HIDE DEF s
<1>3. s \in {"cloning", "ssh", "gone"} /\ s \in Stage
  BY <1>2 DEF Stage
<1>4. /\ run' \in [Name -> Thread] /\ \A u \in Name \ {t} : run'[u] = run[u]
      /\ run'[t].at = s /\ run'[t].todo = <<>> /\ run[t].todo = <<>>
      /\ Fresh(run'[t].todo) /\ Left(t)' = {} /\ Left(t) = {}
      /\ \A do, on : ~Pending(t, do, on)' /\ ~Pending(t, do, on)
  BY <1>1, <1>3, GoesTo
<1>5. /\ lists' = lists /\ named' = named /\ zone' = zone
      /\ fails' = fails /\ spoilt' = spoilt /\ failed' = failed
  BY DEF EndPlan, config, history
<1>6. /\ lock' \in Cluster \cup {None} /\ \A u \in Name \ {t} : lock' = u <=> lock = u
      /\ lock' # t
  BY <1>1, RouterAssumption DEF TypeOK
<1>7. WorkOf(t)' /\ WhoOf(t)'
  <2>1. s \notin Locked
    BY <1>3 DEF Locked
  <2>2. t \notin Cluster => s = "gone"
    BY <1>1, <1>2 DEF WhoOf
  <2>3. WorkOf(t)'
    BY <1>3, <1>4 DEF WorkOf
  <2>. QED  BY <1>3, <1>4, <1>6, <2>1, <2>2, <2>3 DEF WhoOf
<1>8. \A l \in List : MayAdd(t, l)' => MayAdd(t, l)
  BY <1>2, <1>3, <1>4 DEF MayAdd
<1>9. ~Free(t, "ready")'
  BY <1>3, <1>4 DEF Free
<1>10. ASSUME t \in Cluster \ failed, s = "gone" PROVE CleanedUp(t)'
  <2>1. run[t].at \in {"cleanUp", "late"}
    BY <1>1, <1>2, <1>10 DEF WhoOf
  <2>2. CleanedUp(t)
    BY <1>10, <2>1 DEF IInv
  <2>3. Member(t)' => Member(t)
    <3>1. \A u \in Name \ {t} : Pending(u, "refill", "zone")' => Pending(u, "refill", "zone")
      BY <1>4 DEF Pending, Busy, NextOp
    <3>. QED  BY <1>4, <1>5, <3>1 DEF Member
  <2>. QED  BY <1>4, <1>5, <2>2, <2>3 DEF CleanedUp, Held
<1>11. Turn(t)
  <2>1. t \in Cluster \ failed /\ run'[t].at \in {"cleanUp", "late", "gone"} => CleanedUp(t)'
    BY <1>3, <1>4, <1>10
  <2>. QED  BY <1>1, <1>4, <1>5, <1>6, <1>7, <1>8, <1>9, <2>1 DEF Turn
<1>. QED  BY <1>11, TurnInv

\* Whoever begins a clean-up has to remove everything.
LEMMA CleanUpBegins ==
  ASSUME NEW t \in Name, Left(t)' = Ops(CleanUp)
  PROVE  CleanedUp(t)'
<1>1. /\ \A l \in List : Op("find", l) \in Ops(CleanUp)
      /\ Op("read", "zone") \in Ops(CleanUp) /\ Op("unset", "interface") \in Ops(CleanUp)
  BY CleanUpScript DEF Swept
<1>. QED  BY <1>1 DEF CleanedUp

LEMMA AskInv ==
  ASSUME IInv, NEW k \in Cluster, AskLock(k)
  PROVE  IInv'
<1>1. /\ Threads /\ TypeOK /\ k \in Name /\ k # None
      /\ lists' = lists /\ named' = named /\ zone' = zone
      /\ fails' = fails /\ spoilt' = spoilt /\ failed' = failed
  BY RouterAssumption DEF IInv, AskLock, config, history, Name
<1>2. PICK s \in DOMAIN LockedPlan :
        /\ Free(k, s)
        /\ \/ Acquire(k) /\ Begin(k, LockedPlan[s][1], LockedPlan[s][2])
           \/ lock \notin {None, k} /\ Goto(k, GivenUp[s]) /\ lock' = lock
  BY DEF AskLock
<1>3. s \in {"new", "cloning", "ready"} /\ ~Busy(k) /\ run[k].at = s
  BY <1>2 DEF LockedPlan, Free
<1>4. CASE Acquire(k) /\ Begin(k, LockedPlan[s][1], LockedPlan[s][2])
  <2>. DEFINE at == LockedPlan[s][1]
              td == LockedPlan[s][2]
  <2>1. /\ s = "new" => at = "setUp" /\ td = SetUp
        /\ s = "cloning" => at = "forward" /\ td = Forward
        /\ s = "ready" => at = "cleanUp" /\ td = CleanUp
    BY DEF LockedPlan
  <2>2. Begin(k, at, td)
    BY <1>4
  <2>. HIDE DEF at, td
  <2>3. Fresh(td) /\ at \in Stage /\ at \in Locked /\ at \notin Still
    BY <1>3, <2>1, SetUpScript, ForwardScript, CleanUpScript DEF Stage, Locked, Still
  <2>4. /\ run' \in [Name -> Thread] /\ \A u \in Name \ {k} : run'[u] = run[u]
        /\ run'[k].at = at /\ run'[k].todo = td /\ run[k].todo = <<>>
        /\ Left(k)' = Ops(td) /\ Left(k) = {}
        /\ \A do \in Second : \A on : ~Pending(k, do, on)'
    BY <1>1, <1>3, <2>2, <2>3, BeginsAt
  <2>5. lock = None /\ lock' = k
    BY <1>4 DEF Acquire
  <2>6. WorkOf(k)'
    <3>1. CASE s = "new"
      BY <2>1, <2>3, <2>4, <3>1, SetUpScript DEF WorkOf, Second
    <3>2. CASE s = "cloning"
      BY <2>1, <2>3, <2>4, <3>2, ForwardScript DEF WorkOf, Second
    <3>3. CASE s = "ready"
      BY <2>1, <2>3, <2>4, <3>3, CleanUpScript DEF WorkOf, Second
    <3>. QED  BY <1>3, <3>1, <3>2, <3>3
  <2>7. WhoOf(k)'
    BY <1>3, <2>1, <2>3, <2>4, <2>5 DEF WhoOf
  <2>8. ASSUME NEW l \in List, MayAdd(k, l)' PROVE MayAdd(k, l)
    <3>1. CASE s = "new"
      BY <1>3, <3>1 DEF MayAdd
    <3>2. CASE s = "cloning"
      <4>1. Op("add", l) \in Ops(Forward)
        BY <2>1, <2>4, <2>8, <3>2 DEF MayAdd, Second
      <4>2. l # "device"
        BY <4>1, ForwardScript, OpFields
      <4>. QED  BY <1>3, <3>2, <4>2 DEF MayAdd
    <3>3. CASE s = "ready"
      <4>1. Op("add", l) \in Ops(CleanUp)
        BY <2>1, <2>4, <2>8, <3>3 DEF MayAdd, Second
      <4>. QED  BY <4>1, CleanUpScript, OpFields
    <3>. QED  BY <1>3, <3>1, <3>2, <3>3
  <2>9. ~Free(k, "ready")'
    BY <1>3, <2>1, <2>4 DEF Free
  <2>10. run'[k].at \in {"cleanUp", "late", "gone"} => CleanedUp(k)'
    BY <1>1, <1>3, <2>1, <2>4, CleanUpBegins
  <2>11. Turn(k)
    BY <1>1, <1>3, <2>3, <2>4, <2>5, <2>6, <2>7, <2>8, <2>9, <2>10, RouterAssumption DEF Turn
  <2>. QED  BY <1>1, <2>11, TurnInv
<1>5. CASE lock \notin {None, k} /\ Goto(k, GivenUp[s]) /\ lock' = lock
  <2>. DEFINE at == GivenUp[s]
  <2>1. /\ s = "new" => at = "failed"
        /\ s = "cloning" => at = "ssh"
        /\ s = "ready" => at = "ready"
    BY DEF GivenUp
  <2>2. Goto(k, at)
    BY <1>5
  <2>. HIDE DEF at
  <2>3. at \in {"failed", "ssh", "ready"} /\ at \in Stage /\ at \notin Locked
    BY <1>3, <2>1 DEF Stage, Locked
  <2>4. /\ run' \in [Name -> Thread] /\ \A u \in Name \ {k} : run'[u] = run[u]
        /\ run'[k].at = at /\ run'[k].todo = <<>> /\ run[k].todo = <<>>
        /\ Fresh(run'[k].todo) /\ Left(k)' = {} /\ Left(k) = {}
        /\ \A do, on : ~Pending(k, do, on)' /\ ~Pending(k, do, on)
    BY <1>1, <1>3, <2>2, <2>3, GoesTo
  <2>5. WorkOf(k)' /\ WhoOf(k)'
    <3>1. WorkOf(k)'
      BY <2>3, <2>4 DEF WorkOf
    <3>. QED  BY <1>5, <2>3, <2>4, <3>1 DEF WhoOf
  <2>6. \A l \in List : ~MayAdd(k, l)'
    BY <2>3, <2>4 DEF MayAdd
  <2>7. Free(k, "ready")' => Free(k, "ready")
    BY <1>3, <2>1, <2>4 DEF Free
  <2>8. Turn(k)
    BY <1>1, <1>3, <1>5, <2>3, <2>4, <2>5, <2>6, <2>7 DEF Turn, TypeOK
  <2>. QED  BY <1>1, <2>8, TurnInv
<1>. QED  BY <1>2, <1>4, <1>5

LEMMA ReachInv ==
  ASSUME IInv, NEW k \in Cluster, ReachClient(k)
  PROVE  IInv'
<1>1. /\ Threads /\ TypeOK /\ k \in Name /\ WhoOf(k)
      /\ lists' = lists /\ named' = named /\ zone' = zone /\ lock' = lock
      /\ fails' = fails /\ spoilt' = spoilt /\ failed' = failed
      /\ ~Busy(k) /\ run[k].at = "ssh" /\ Reachable(k) /\ Goto(k, "ready")
  BY DEF IInv, Threads, ReachClient, config, history, Name, Free
<1>2. "ready" \in Stage /\ "ready" \notin Locked /\ "ssh" \notin Locked
  BY DEF Stage, Locked
<1>3. /\ run' \in [Name -> Thread] /\ \A u \in Name \ {k} : run'[u] = run[u]
      /\ run'[k].at = "ready" /\ run'[k].todo = <<>>
      /\ Fresh(run'[k].todo) /\ Left(k)' = {}
      /\ \A do, on : ~Pending(k, do, on)' /\ ~Pending(k, do, on)
  BY <1>1, <1>2, GoesTo
<1>4. WorkOf(k)' /\ WhoOf(k)'
  <2>1. WorkOf(k)'
    BY <1>3 DEF WorkOf
  <2>. QED  BY <1>1, <1>2, <1>3, <2>1 DEF WhoOf
<1>5. \A l \in List : ~MayAdd(k, l)'
  BY <1>3 DEF MayAdd
<1>6. Turn(k)
  BY <1>1, <1>3, <1>4, <1>5 DEF Turn, TypeOK
<1>. QED  BY <1>1, <1>6, TurnInv

LEMMA RollInv ==
  ASSUME IInv, NEW k \in Cluster, RollBack(k)
  PROVE  IInv'
<1>1. /\ Threads /\ TypeOK /\ k \in Name /\ WhoOf(k)
      /\ lists' = lists /\ named' = named /\ zone' = zone /\ lock' = lock
      /\ fails' = fails /\ spoilt' = spoilt /\ failed' = failed
      /\ ~Busy(k) /\ run[k].at \in {"cloning", "ssh"} /\ Begin(k, "late", CleanUp)
  BY DEF IInv, Threads, RollBack, config, history, Name, Free
<1>2. "late" \in Stage /\ "late" \notin Locked /\ run[k].at \notin Locked /\ "late" \notin Still
  BY <1>1 DEF Stage, Locked, Still
<1>3. /\ run' \in [Name -> Thread] /\ \A u \in Name \ {k} : run'[u] = run[u]
      /\ run'[k].at = "late" /\ run'[k].todo = CleanUp
      /\ Left(k)' = Ops(CleanUp)
      /\ \A do \in Second : \A on : ~Pending(k, do, on)'
  BY <1>1, <1>2, CleanUpScript, BeginsAt
<1>4. WorkOf(k)' /\ WhoOf(k)'
  <2>1. WorkOf(k)'
    BY <1>2, <1>3, CleanUpScript DEF WorkOf, Second
  <2>. QED  BY <1>1, <1>2, <1>3, <2>1 DEF WhoOf
<1>5. ASSUME NEW l \in List, MayAdd(k, l)' PROVE FALSE
  <2>1. Op("add", l) \in Ops(CleanUp)
    BY <1>3, <1>5 DEF MayAdd, Second
  <2>. QED  BY <2>1, CleanUpScript, OpFields
<1>6. ~Free(k, "ready")' /\ CleanedUp(k)'
  BY <1>1, <1>3, CleanUpBegins DEF Free
<1>7. Turn(k)
  BY <1>1, <1>3, <1>4, <1>5, <1>6, CleanUpScript DEF Turn, TypeOK
<1>. QED  BY <1>1, <1>7, TurnInv

LEMMA VisitInv ==
  ASSUME IInv, NEW t \in Visitor, NEW plan \in Visits, Visit(t, plan)
  PROVE  IInv'
<1>1. /\ Threads /\ TypeOK /\ t \in Name /\ WhoOf(t) /\ t \notin Cluster
      /\ lists' = lists /\ named' = named /\ zone' = zone /\ lock' = lock
      /\ fails' = fails /\ spoilt' = spoilt /\ failed' = failed
      /\ ~Busy(t) /\ run[t].at = "new" /\ Begin(t, "visit", plan)
  BY RouterAssumption DEF IInv, Threads, Visit, config, history, Name, Free
<1>2. "visit" \in Stage /\ "visit" \notin Locked /\ "new" \notin Locked /\ "visit" \notin Still
  BY DEF Stage, Locked, Still
<1>3. Fresh(plan) /\ \A c \in Ops(plan) : c.on \notin List
  BY VisitScript
<1>4. /\ run' \in [Name -> Thread] /\ \A u \in Name \ {t} : run'[u] = run[u]
      /\ run'[t].at = "visit" /\ run'[t].todo = plan
      /\ Left(t)' = Ops(plan)
      /\ \A do \in Second : \A on : ~Pending(t, do, on)'
  BY <1>1, <1>2, <1>3, BeginsAt
<1>5. WorkOf(t)' /\ WhoOf(t)'
  <2>1. WorkOf(t)'
    BY <1>2, <1>3, <1>4 DEF WorkOf, Second
  <2>. QED  BY <1>1, <1>2, <1>4, <2>1 DEF WhoOf
<1>6. \A l \in List : MayAdd(t, l)
  BY <1>1 DEF MayAdd
<1>7. ~Free(t, "ready")'
  BY <1>4 DEF Free
<1>8. Turn(t)
  BY <1>1, <1>3, <1>4, <1>5, <1>6, <1>7 DEF Turn, TypeOK
<1>. QED  BY <1>1, <1>8, TurnInv

-----------------------------------------------------------------------------
(* The theorems                                                            *)

LEMMA InitInv == Init => IInv
<1>. SUFFICES ASSUME Init PROVE IInv
  OBVIOUS
<1>1. PICK vs \in SUBSET Visitor : named = vs /\ zone = {Lan} \cup vs
  BY DEF Init
<1>2. /\ lists = [l \in List |-> <<>>] /\ lock = None
      /\ run = [t \in Name |-> [at |-> "new", todo |-> <<>>, index |-> 0, nets |-> {}]]
      /\ fails = 0 /\ spoilt = {} /\ failed = {}
  BY DEF Init
<1>3. "new" \in Stage /\ "new" \in Still /\ "new" \notin Locked
  BY DEF Stage, Still, Locked
<1>4. <<>> \in Seq(Call) /\ <<>> \in Seq(Name \cup {None}) /\ Len(<<>>) = 0
  OBVIOUS
<1>5. run \in [Name -> Thread]
  BY <1>2, <1>3, <1>4 DEF Thread
<1>6. \A t \in Name : run[t].at = "new" /\ run[t].todo = <<>> /\ run[t].index = 0 /\ run[t].nets = {}
  BY <1>2
<1>7. \A t \in Name : ~Busy(t) /\ \A do, on : ~Pending(t, do, on)
  BY <1>6 DEF Busy, Pending
<1>8. TypeOK
  <2>1. lists \in [List -> Seq(Name \cup {None})]
    BY <1>2, <1>4
  <2>2. named \subseteq Name /\ zone \subseteq Name \cup {Lan}
    BY <1>1 DEF Name
  <2>. QED  BY <1>2, <1>3, <1>6, <2>1, <2>2, RouterAssumption DEF TypeOK
<1>9. Threads
  <2>1. ASSUME NEW t \in Name PROVE Script(run[t].todo) /\ WorkOf(t) /\ WhoOf(t)
    <3>1. Script(run[t].todo)
      BY <1>6, NoScript DEF Fresh
    <3>2. WorkOf(t)
      BY <1>6, <1>7 DEF WorkOf
    <3>3. WhoOf(t)
      BY <1>2, <1>3, <1>6, RouterAssumption DEF WhoOf
    <3>. QED  BY <3>1, <3>2, <3>3
  <2>. QED  BY <1>5, <2>1 DEF Threads
<1>10. \A l \in List : Section(l)
  <2>1. ASSUME NEW l \in List PROVE Section(l)
    <3>1. lists[l] = <<>> /\ Len(lists[l]) = 0
      BY <1>2, <1>4
    <3>2. Held(l) = {} /\ 1..Len(lists[l]) = {}
      <4>1. DOMAIN lists[l] = 1..Len(lists[l])
        BY <3>1
      <4>. QED  BY <3>1, <4>1 DEF Held, ToSet
    <3>. QED  BY <1>7, <3>2 DEF Section
  <2>. QED  BY <2>1
<1>11. \A k \in Cluster : ~Free(k, "ready")
  BY <1>6 DEF Free, Name
<1>12. Zone
  BY <1>1, <1>7, <1>11 DEF Zone, Ready
<1>13. \A k \in Cluster : run[k].at \notin {"cleanUp", "late", "gone"}
  BY <1>6 DEF Name
<1>. QED  BY <1>8, <1>9, <1>10, <1>11, <1>12, <1>13 DEF IInv, Kept

LEMMA NextInv == IInv /\ [Next]_vars => IInv'
<1>. SUFFICES ASSUME IInv, [Next]_vars PROVE IInv'
  OBVIOUS
<1>1. ASSUME NEW t \in Name, Command(t) PROVE IInv'
  BY <1>1, CommandInv
<1>2. ASSUME NEW t \in Name, CommandFails(t) PROVE IInv'
  BY <1>2, FailInv
<1>3. ASSUME NEW t \in Name, EndPlan(t) PROVE IInv'
  BY <1>3, EndInv
<1>4. ASSUME NEW k \in Cluster, AskLock(k) PROVE IInv'
  BY <1>4, AskInv
<1>5. ASSUME NEW k \in Cluster, ReachClient(k) PROVE IInv'
  BY <1>5, ReachInv
<1>6. ASSUME NEW k \in Cluster, RollBack(k) PROVE IInv'
  BY <1>6, RollInv
<1>7. ASSUME NEW t \in Visitor, NEW plan \in Visits, Visit(t, plan) PROVE IInv'
  BY <1>7, VisitInv
<1>8. ASSUME UNCHANGED vars PROVE IInv'
  BY <1>8 DEF vars, config, history, IInv, TypeOK, Threads, WorkOf, WhoOf, Left, Pending, Busy, NextOp,
       Section, MayAdd, Held, Zone, Ready, Rewriting, Free, Kept, CleanedUp, Member
<1>. QED  BY <1>1, <1>2, <1>3, <1>4, <1>5, <1>6, <1>7, <1>8 DEF Next

\* In every state the entries on the router are in order as far as they are not
\* spoilt, however many clusters, requests and failing calls there are.
THEOREM RouterInductive == Spec => []IInv
BY InitInv, NextInv, PTL DEF Spec

\* The variables of the router's model keep to their types.
THEOREM RouterType == Spec => []TypeOK
<1>1. IInv => TypeOK
  BY DEF IInv
<1>. QED  BY <1>1, RouterInductive, PTL

\* A cluster that was made keeps its entries, and the LAN its place in the zone,
\* while delete_cluster, _rollback_openwrt and others work on the same lists.
THEOREM BystandersIntact == Spec => []BystandersAreIntact
<1>1. IInv => BystandersAreIntact
  BY DEF IInv, Kept, Zone, Ready, BystandersAreIntact
<1>. QED  BY <1>1, RouterInductive, PTL

\* _rollback_openwrt and the clean-up of delete_cluster leave nothing of their
\* cluster if no call failed, and no section that lost its name.
THEOREM CleanUpsLeaveNothing == Spec => []NothingIsLeft
<1>1. IInv => NothingIsLeft
  <2>. SUFFICES ASSUME IInv PROVE NothingIsLeft
    OBVIOUS
  <2>1. ASSUME NEW k \in Cluster \ failed, Free(k, "gone")
        PROVE  /\ \A l \in List \ spoilt : k \notin Held(l)
               /\ "zone" \notin spoilt => k \notin zone \cup named
    <3>1. k \in Name /\ ~Busy(k) /\ run[k].at = "gone" /\ run[k].todo = <<>>
      BY <2>1 DEF Name, Free, Busy
    <3>2. CleanedUp(k)
      BY <2>1, <3>1 DEF IInv
    <3>3. Left(k) = {} /\ \A do, on : ~Pending(k, do, on)
      BY <3>1, NoScript DEF Left, Pending
    <3>. QED  BY <3>2, <3>3 DEF CleanedUp, Member
  <2>2. ASSUME failed = {}, NEW l \in List \ spoilt, None \in Held(l)
        PROVE  \E t \in Name : Pending(t, "name", l)
    <3>1. lists[l] \in Seq(Name \cup {None})
      BY ListType
    <3>2. PICK i \in 1..Len(lists[l]) : lists[l][i] = None
      BY <2>2, <3>1, InSet DEF Held
    <3>. QED  BY <2>2, <3>2 DEF IInv, Section
  <2>. QED  BY <2>1, <2>2 DEF NothingIsLeft
<1>. QED  BY <1>1, RouterInductive, PTL

===============================================================================
