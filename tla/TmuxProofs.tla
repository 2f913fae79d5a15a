----------------------------- MODULE TmuxProofs -----------------------------
(***************************************************************************)
(* Proofs about what Lector keeps about tmux: its copy of the topology     *)
(* (TmuxTopology), for any sessions, windows and panes and any number of   *)
(* changes, the keys played over a connection (TmuxKeys), for any panes,   *)
(* keys, pieces of input and limit of replies, and the tree of connections *)
(* (TmuxConnections), for any identifiers, panes and number of starts.     *)
(***************************************************************************)
EXTENDS Tmux, FiniteSums, SequenceTheorems, TLAPS

-----------------------------------------------------------------------------
(* The topology: types, the replies of an inventory, and what the notices  *)
(* on their way will do.                                                   *)

Topologies == [sess : SUBSET Sessions, att : Sessions \cup {0}, win : SUBSET Windows,
               link : [Windows -> Sessions \cup {0}], act : [Sessions -> Windows \cup {0}],
               pane : [Panes -> Windows \cup {0}], ap : [Windows -> Panes \cup {0}]]
LayerNames == {"S", "W", "P", "A"}
NoticeNames == {"sessions-changed", "session-changed", "session-window-changed",
                "window-pane-changed", "window-add", "window-close", "unlinked-window-close",
                "layout-change", "pane-exited"}
Replies == [name : {"reply"}, layer : LayerNames, ok : BOOLEAN, data : Topologies]
Notices == [name : NoticeNames, s : Sessions \cup {0}, w : Windows \cup {0}, p : Panes \cup {0}]
Records == Replies \cup Notices

\* tmux's own topology refers only to what it has.
Consistent(t) ==
    /\ t.att \in t.sess
    /\ \A w \in t.win : t.link[w] \in t.sess
    /\ \A p \in Panes : t.pane[p] # 0 => t.pane[p] \in t.win

Place(layer) == CASE layer = "S" -> 1 [] layer = "W" -> 2 [] layer = "P" -> 3 [] layer = "A" -> 4
IsAnswer(q, i) == q[i].name = "reply"

TopoTypes ==
    /\ server \in Topologies /\ Consistent(server)
    /\ stream \in Seq(Records)
    /\ remaining \in 0 .. 4
    /\ queries \in Seq(LayerNames) /\ Len(queries) <= remaining
    /\ \A i \in 1 .. Len(queries) : Place(queries[i]) = 4 - Len(queries) + i
    /\ failed \in BOOLEAN /\ retried \in BOOLEAN /\ gaveUp \in BOOLEAN /\ raced \in BOOLEAN

\* The replies on their way are those of the commands executed, in their order.
TopoReplies ==
    /\ \A i \in 1 .. Len(stream) :
          IsAnswer(stream, i) => Place(stream[i].layer) \in 5 - remaining .. 4 - Len(queries)
    /\ \A k \in 5 - remaining .. 4 - Len(queries) :
          \E i \in 1 .. Len(stream) : IsAnswer(stream, i) /\ Place(stream[i].layer) = k
    /\ \A i, j \in 1 .. Len(stream) :
          i < j /\ IsAnswer(stream, i) /\ IsAnswer(stream, j)
            => Place(stream[i].layer) < Place(stream[j].layer)

\* The records of q after the first k are notices, and one who hears them knowing t
\* ends up with goal or asks for an inventory: h is what he knows, m where he stops.
Hears(t, n) == Topo!Reconcile(t, n)
Follows(h, m, t, q, k, goal) ==
    /\ m \in k .. Len(q) /\ h[k] = t
    /\ \A i \in k + 1 .. m : ~Hears(h[i - 1], q[i]).resync /\ Hears(h[i - 1], q[i]).t = h[i]
    /\ IF m = Len(q) THEN h[m] = goal ELSE Hears(h[m], q[m + 1]).resync
Chain(t, q, k, goal) ==
    /\ \A i \in k + 1 .. Len(q) : ~IsAnswer(q, i)
    /\ \E h, m : Follows(h, m, t, q, k, goal)

\* What is collected of the topology b when n layers have been read.
Collected(b, n) ==
    [sess |-> IF n >= 1 THEN b.sess ELSE Topo!Empty.sess,
     att  |-> IF n >= 4 THEN b.att ELSE Topo!Empty.att,
     win  |-> IF n >= 2 THEN b.win ELSE Topo!Empty.win,
     link |-> IF n >= 2 THEN b.link ELSE Topo!Empty.link,
     act  |-> IF n >= 2 THEN b.act ELSE Topo!Empty.act,
     pane |-> IF n >= 3 THEN b.pane ELSE Topo!Empty.pane,
     ap   |-> IF n >= 3 THEN b.ap ELSE Topo!Empty.ap]

\* The replies of an inventory under way are of one topology b; the last one on its
\* way is the r-th record, and the notices after it are heard from b on.
Consonant(b, r) ==
    /\ b \in Topologies /\ r \in 0 .. Len(stream)
    /\ \A i \in 1 .. r : IsAnswer(stream, i) => stream[i].data = b
    /\ r # 0 => IsAnswer(stream, r)
    /\ Chain(b, stream, r, server)
    /\ queries # <<>> => r = Len(stream) /\ b = server
    /\ ~failed => got = Collected(b, 4 - remaining)

\* Until its first command is executed nothing binds an inventory to a topology, and
\* nothing of it is collected.
TopoFresh == Len(queries) = 4 => got = Topo!Empty
TopoSound ==
    ~raced => IF remaining = 0 THEN gaveUp \/ Chain(topology, stream, 0, server)
              ELSE Len(queries) = 4 \/ \E b, r : Consonant(b, r)

TopoInv == TopoTypes /\ TopoReplies /\ TopoFresh /\ TopoSound

-----------------------------------------------------------------------------
(* Chains.                                                                 *)

\* Nothing is left to hear.
LEMMA ChainEnds ==
    ASSUME NEW t, NEW q \in Seq(Records)
    PROVE  Chain(t, q, Len(q), t)
  <1> DEFINE h == [i \in Nat |-> t]
  <1>1. Len(q) \in Nat
    OBVIOUS
  <1>2. Follows(h, Len(q), t, q, Len(q), t)
    BY <1>1 DEF Follows
  <1> QED
    BY <1>1, <1>2 DEF Chain

\* More notices come.
LEMMA ChainGrows ==
    ASSUME NEW t, NEW q \in Seq(Records), NEW k \in 0 .. Len(q), NEW goal, NEW ns \in Seq(Records),
           NEW last, Chain(t, q, k, goal), Chain(goal, ns, 0, last)
    PROVE  Chain(t, q \o ns, k, last)
  <1>1. /\ q \o ns \in Seq(Records) /\ Len(q \o ns) = Len(q) + Len(ns)
        /\ \A i \in 1 .. Len(q) : (q \o ns)[i] = q[i]
        /\ \A i \in 1 .. Len(ns) : (q \o ns)[Len(q) + i] = ns[i]
    OBVIOUS
  <1> DEFINE qs == q \o ns
             n == Len(q)
             l == Len(ns)
  <1>2. n \in Nat /\ l \in Nat /\ k \in Nat /\ k <= n /\ Len(qs) = n + l
    BY <1>1
  <1>3. \A i \in 1 .. n : qs[i] = q[i]
    BY <1>1
  <1>4. \A i \in 1 .. l : qs[n + i] = ns[i]
    BY <1>1
  <1>5. \A i \in k + 1 .. n + l : ~IsAnswer(qs, i)
    <2> HIDE DEF qs
    <2>1. \A i \in k + 1 .. n : ~IsAnswer(qs, i)
      BY <1>2, <1>3 DEF Chain, IsAnswer
    <2>2. \A i \in n + 1 .. n + l : ~IsAnswer(qs, i)
      <3>1. TAKE i \in n + 1 .. n + l
      <3>2. i - n \in 1 .. l /\ n + (i - n) = i
        BY <1>2
      <3>3. ~IsAnswer(ns, i - n)
        BY <3>2 DEF Chain
      <3>4. qs[i] = ns[i - n]
        BY <1>4, <3>2
      <3> QED
        BY <3>3, <3>4 DEF IsAnswer
    <2> QED
      BY <1>2, <2>1, <2>2
  <1>6. PICK h, m : Follows(h, m, t, q, k, goal)
    BY DEF Chain
  <1>7. PICK g, o : Follows(g, o, goal, ns, 0, last)
    BY DEF Chain
  <1>8. CASE m # n
    <2>1. Follows(h, m, t, qs, k, last)
      <3> HIDE DEF qs
      <3>1. m \in k .. n - 1 /\ m + 1 \in 1 .. n /\ m # Len(qs) /\ m \in k .. Len(qs)
        BY <1>2, <1>6, <1>8, n = Len(q) DEF Follows
      <3>2. h[k] = t /\ Hears(h[m], qs[m + 1]).resync
        BY <1>3, <1>6, <1>8, <3>1 DEF Follows
      <3>3. \A i \in k + 1 .. m : i \in 1 .. n
        BY <1>2, <3>1
      <3>4. \A i \in k + 1 .. m : ~Hears(h[i - 1], qs[i]).resync /\ Hears(h[i - 1], qs[i]).t = h[i]
        BY <1>3, <1>6, <3>3 DEF Follows
      <3> QED
        BY <3>1, <3>2, <3>4 DEF Follows
    <2> QED
      BY <1>2, <1>5, <2>1 DEF Chain
  <1>9. CASE m = n
    <2> DEFINE f == [i \in Nat |-> IF i <= n THEN h[i] ELSE g[i - n]]
    <2>1. h[n] = goal /\ h[k] = t /\ g[0] = goal /\ o \in 0 .. l
      BY <1>6, <1>7, <1>9 DEF Follows
    <2>2. \A i \in k + 1 .. n : ~Hears(h[i - 1], q[i]).resync /\ Hears(h[i - 1], q[i]).t = h[i]
      BY <1>6, <1>9 DEF Follows
    <2>3. \A i \in 1 .. o : ~Hears(g[i - 1], ns[i]).resync /\ Hears(g[i - 1], ns[i]).t = g[i]
      BY <1>7 DEF Follows
    <2>4. IF o = l THEN g[o] = last ELSE Hears(g[o], ns[o + 1]).resync
      BY <1>7 DEF Follows
    <2>5. \A i \in 0 .. n : f[i] = h[i]
      BY <1>2
    <2>6. \A i \in 0 .. l : f[n + i] = g[i]
      <3>1. TAKE i \in 0 .. l
      <3>2. CASE i = 0
        BY <1>2, <2>1, <3>2
      <3>3. CASE i # 0
        <4>1. n + i \in Nat /\ ~(n + i <= n) /\ (n + i) - n = i
          BY <1>2, <3>3
        <4> QED
          BY <4>1
      <3> QED
        BY <3>2, <3>3
    <2> HIDE DEF f, qs, n, l
    <2>7. n + o \in k .. n + l
      BY <1>2, <2>1
    <2>8. f[k] = t
      BY <1>2, <2>1, <2>5
    <2>9. \A i \in k + 1 .. n + o : ~Hears(f[i - 1], qs[i]).resync /\ Hears(f[i - 1], qs[i]).t = f[i]
      <3>1. TAKE i \in k + 1 .. n + o
      <3>2. CASE i <= n
        <4>1. i \in k + 1 .. n /\ i \in 1 .. n /\ i - 1 \in 0 .. n /\ i \in 0 .. n
          BY <1>2, <2>1, <3>2
        <4> QED
          BY <1>3, <2>2, <2>5, <4>1
      <3>3. CASE ~(i <= n)
        <4> DEFINE j == i - n
        <4>1. j \in 1 .. o /\ j \in 1 .. l /\ j \in 0 .. l /\ j - 1 \in 0 .. l
              /\ n + j = i /\ n + (j - 1) = i - 1
          BY <1>2, <2>1, <3>3
        <4> HIDE DEF j
        <4>2. f[i] = g[j] /\ f[i - 1] = g[j - 1] /\ qs[i] = ns[j]
          BY <1>4, <2>6, <4>1
        <4> QED
          BY <2>3, <4>1, <4>2
      <3> QED
        BY <3>2, <3>3
    <2>10. IF n + o = n + l THEN f[n + o] = last ELSE Hears(f[n + o], qs[n + o + 1]).resync
      <3>1. f[n + o] = g[o]
        BY <2>1, <2>6
      <3>2. CASE o = l
        BY <2>4, <3>1, <3>2
      <3>3. CASE o # l
        <4>1. o + 1 \in 1 .. l /\ n + (o + 1) = n + o + 1 /\ n + o # n + l
          BY <1>2, <2>1, <3>3
        <4>2. qs[n + o + 1] = ns[o + 1]
          BY <1>4, <4>1
        <4> QED
          BY <2>4, <3>1, <3>3, <4>1, <4>2
      <3> QED
        BY <3>2, <3>3
    <2>11. Follows(f, n + o, t, qs, k, last)
      BY <1>2, <2>7, <2>8, <2>9, <2>10 DEF Follows
    <2> QED
      BY <1>2, <1>5, <2>11 DEF Chain, qs
  <1> QED
    BY <1>8, <1>9

\* What holds of a sequence without its first record.
LEMMA TailMoves ==
    ASSUME NEW q \in Seq(Records), q # <<>>
    PROVE  /\ Tail(q) \in Seq(Records) /\ Len(q) \in Nat \ {0} /\ Len(Tail(q)) = Len(q) - 1
           /\ \A i \in 1 .. Len(q) - 1 : Tail(q)[i] = q[i + 1]
           /\ Head(q) = q[1] /\ q[1] \in Records
  OBVIOUS

\* The first record was before the chain.
LEMMA ChainMoves ==
    ASSUME NEW t, NEW q \in Seq(Records), q # <<>>, NEW k \in 0 .. Len(q) - 1, NEW goal,
           Chain(t, q, k + 1, goal)
    PROVE  Chain(t, Tail(q), k, goal)
  <1> DEFINE s == Tail(q)
             n == Len(q)
  <1>1. n \in Nat \ {0} /\ Len(s) = n - 1 /\ \A i \in 1 .. n - 1 : s[i] = q[i + 1]
    BY TailMoves
  <1>2. PICK h, m : Follows(h, m, t, q, k + 1, goal)
    BY DEF Chain
  <1> DEFINE f == [i \in Nat |-> h[i + 1]]
  <1>3. \A i \in Nat : f[i] = h[i + 1]
    OBVIOUS
  <1>4. \A i \in k + 2 .. n : ~IsAnswer(q, i)
    BY DEF Chain
  <1>5. /\ m \in k + 1 .. n /\ h[k + 1] = t
        /\ \A i \in k + 2 .. m : ~Hears(h[i - 1], q[i]).resync /\ Hears(h[i - 1], q[i]).t = h[i]
        /\ IF m = n THEN h[m] = goal ELSE Hears(h[m], q[m + 1]).resync
    BY <1>2 DEF Follows
  <1> HIDE DEF f, s, n
  <1>6. \A i \in k + 1 .. Len(s) : ~IsAnswer(s, i)
    <2>1. TAKE i \in k + 1 .. Len(s)
    <2>2. i \in 1 .. n - 1 /\ i + 1 \in k + 2 .. n
      BY <1>1
    <2>3. ~IsAnswer(q, i + 1)
      BY <1>4, <2>2
    <2> QED
      BY <1>1, <2>2, <2>3 DEF IsAnswer
  <1>7. Follows(f, m - 1, t, s, k, goal)
    <2>1. m - 1 \in k .. Len(s) /\ m - 1 \in Nat /\ (m - 1) + 1 = m /\ k \in Nat
      BY <1>1, <1>5
    <2>2. f[k] = t /\ f[m - 1] = h[m]
      BY <1>3, <1>5, <2>1
    <2>3. \A i \in k + 1 .. m - 1 : ~Hears(f[i - 1], s[i]).resync /\ Hears(f[i - 1], s[i]).t = f[i]
      <3>1. TAKE i \in k + 1 .. m - 1
      <3>2. i \in Nat /\ i - 1 \in Nat /\ i + 1 \in k + 2 .. m /\ i \in 1 .. n - 1
            /\ (i + 1) - 1 = i /\ (i - 1) + 1 = i
        BY <1>1, <1>5, <2>1
      <3>3. f[i] = h[i + 1] /\ f[i - 1] = h[i] /\ s[i] = q[i + 1]
        BY <1>1, <1>3, <3>2
      <3>4. ~Hears(h[i], q[i + 1]).resync /\ Hears(h[i], q[i + 1]).t = h[i + 1]
        BY <1>5, <3>2
      <3> QED
        BY <3>3, <3>4
    <2>4. IF m - 1 = Len(s) THEN f[m - 1] = goal ELSE Hears(f[m - 1], s[(m - 1) + 1]).resync
      <3>1. CASE m = n
        BY <1>1, <1>5, <2>2, <3>1
      <3>2. CASE m # n
        <4>1. m \in 1 .. n - 1 /\ m - 1 # Len(s)
          BY <1>1, <1>5, <2>1, <3>2
        <4>2. s[m] = q[m + 1]
          BY <1>1, <4>1
        <4> QED
          BY <1>5, <2>1, <2>2, <3>2, <4>1, <4>2
      <3> QED
        BY <3>1, <3>2
    <2> QED
      BY <2>1, <2>2, <2>3, <2>4 DEF Follows
  <1> QED
    BY <1>6, <1>7 DEF Chain, s

\* The first notice is heard, and no inventory asked for.
LEMMA ChainHeard ==
    ASSUME NEW t, NEW q \in Seq(Records), q # <<>>, NEW goal, Chain(t, q, 0, goal),
           ~Hears(t, q[1]).resync
    PROVE  Chain(Hears(t, q[1]).t, q, 1, goal)
  <1>1. PICK h, m : Follows(h, m, t, q, 0, goal)
    BY DEF Chain
  <1>2. Len(q) \in Nat \ {0}
    BY TailMoves
  <1>3. m \in 1 .. Len(q)
    <2>1. m \in 0 .. Len(q) /\ h[0] = t
      BY <1>1 DEF Follows
    <2>2. m # 0
      <3>1. SUFFICES ASSUME m = 0 PROVE FALSE
        OBVIOUS
      <3>2. Hears(h[0], q[0 + 1]).resync
        BY <1>1, <1>2, <3>1 DEF Follows
      <3> QED
        BY <2>1, <3>2
    <2> QED
      BY <1>2, <2>1, <2>2
  <1>4. h[1] = Hears(t, q[1]).t
    BY <1>1, <1>3 DEF Follows
  <1>5. Follows(h, m, Hears(t, q[1]).t, q, 1, goal)
    BY <1>1, <1>2, <1>3, <1>4 DEF Follows
  <1> QED
    BY <1>2, <1>5 DEF Chain

\* A first notice that asks for an inventory; one that is heard; one before others.
LEMMA ChainAsks ==
    ASSUME NEW t, NEW q \in Seq(Notices), q # <<>>, NEW goal, Hears(t, q[1]).resync
    PROVE  Chain(t, q, 0, goal)
  <1> DEFINE h == [i \in Nat |-> t]
  <1>1. Len(q) \in Nat \ {0} /\ h[0] = t /\ 0 \in 0 .. Len(q)
    OBVIOUS
  <1>2. \A i \in 1 .. Len(q) : q[i].name \in NoticeNames
    <2>1. \A i \in 1 .. Len(q) : q[i] \in Notices
      OBVIOUS
    <2> QED
      BY <2>1 DEF Notices
  <1>3. \A i \in 1 .. Len(q) : ~IsAnswer(q, i)
    BY <1>2 DEF IsAnswer, NoticeNames
  <1>4. Follows(h, 0, t, q, 0, goal)
    BY <1>1 DEF Follows
  <1> QED
    BY <1>3, <1>4 DEF Chain

LEMMA ChainAsksFirst ==
    ASSUME NEW t, NEW a \in Notices, NEW b \in Notices, NEW goal, Hears(t, a).resync
    PROVE  Chain(t, <<a, b>>, 0, goal)
  <1> DEFINE q == <<a, b>>
  <1>1. q \in Seq(Notices) /\ q # <<>> /\ q[1] = a
    OBVIOUS
  <1> HIDE DEF q
  <1>2. Hears(t, q[1]).resync
    BY <1>1
  <1>3. Chain(t, q, 0, goal)
    BY <1>1, <1>2, ChainAsks
  <1> QED
    BY <1>3 DEF q

LEMMA ChainOne ==
    ASSUME NEW t, NEW n \in Notices, ~Hears(t, n).resync
    PROVE  Chain(t, <<n>>, 0, Hears(t, n).t)
  <1> DEFINE h == [i \in Nat |-> IF i = 0 THEN t ELSE Hears(t, n).t]
             q == <<n>>
  <1>1. Len(q) = 1 /\ q[1] = n /\ h[0] = t /\ h[1] = Hears(t, n).t
    OBVIOUS
  <1>2. n.name # "reply"
    BY DEF Notices, NoticeNames
  <1> HIDE DEF h, q
  <1>3. Follows(h, 1, t, q, 0, Hears(t, n).t)
    BY <1>1 DEF Follows
  <1>4. \A i \in 1 .. Len(q) : ~IsAnswer(q, i)
    BY <1>1, <1>2 DEF IsAnswer
  <1> QED
    BY <1>3, <1>4 DEF Chain, q

LEMMA ChainNext ==
    ASSUME NEW t, NEW n \in Notices, ~Hears(t, n).resync, NEW q \in Seq(Notices), NEW goal,
           Chain(Hears(t, n).t, q, 0, goal)
    PROVE  Chain(t, <<n>> \o q, 0, goal)
  <1>1. <<n>> \in Seq(Records) /\ q \in Seq(Records) /\ 0 \in 0 .. Len(<<n>>)
    BY DEF Records
  <1>2. Chain(t, <<n>>, 0, Hears(t, n).t)
    BY ChainOne
  <1> QED
    BY <1>1, <1>2, ChainGrows

-----------------------------------------------------------------------------
(* What tmux does, and what its notices say of it.                         *)

\* A change of tmux's topology is consistent, and its notices are heard or ask.
Heard ==
    /\ server' \in Topologies /\ Consistent(server')
    /\ \E ns \in Seq(Notices) :
          /\ ns # <<>> /\ stream' = stream \o ns
          /\ Chain(server, ns, 0, server')
    /\ UNCHANGED <<topology, queries, remaining, got, failed, retried, gaveUp>>
    /\ raced' = (raced \/ Len(queries) \in 1 .. 3)

\* tmux's own steps, as the proofs meet them.
LEMMA ChangeHeard ==
    ASSUME NEW next \in Topologies, Consistent(next), NEW ns \in Seq(Notices), ns # <<>>,
           Topo!Change(next, ns), Chain(server, ns, 0, next)
    PROVE  Heard
  <1>1. Len(Topo!Layers) = 4
    BY DEF Topo!Layers
  <1>2. Len(Topo!Layers) - 1 = 3
    BY <1>1
  <1>3. raced' = (raced \/ Len(queries) \in 1 .. 3)
    BY <1>2 DEF Topo!Change
  <1> QED
    BY <1>3 DEF Topo!Change, Topo!Idle, Heard

LEMMA NoticeIs ==
    ASSUME NEW name \in NoticeNames, NEW s \in Sessions \cup {0}, NEW w \in Windows \cup {0},
           NEW p \in Panes \cup {0}
    PROVE  /\ Topo!Note(name, s, w, p) \in Notices
           /\ Topo!Note(name, s, w, p).name = name
           /\ Topo!Note(name, s, w, p).s = s
           /\ Topo!Note(name, s, w, p).w = w
           /\ Topo!Note(name, s, w, p).p = p
  BY DEF Topo!Note, Notices

\* A notice of something uncertain always asks.
LEMMA Asks ==
    ASSUME NEW t, NEW n, n.name \in {"sessions-changed", "window-add", "layout-change"}
    PROVE  Hears(t, n).resync
  BY DEF Hears, Topo!Reconcile, Topo!Uncertain

LEMMA NewWindowHeard ==
    ASSUME TopoTypes, NEW s \in Sessions, NEW w \in Windows, NEW p \in Panes,
           Topo!NewWindow(s, w, p) \/ Topo!NewSession(s, w, p)
    PROVE  Heard
  <1> DEFINE a == Topo!Note("window-add", s, w, p)
             b == Topo!Note("session-window-changed", s, w, p)
             c == Topo!Note("sessions-changed", s, w, p)
             grown == [server EXCEPT !.win = @ \cup {w}, !.link[w] = s, !.act[s] = w,
                                     !.pane[p] = w, !.ap[w] = p]
             born == [server EXCEPT !.sess = @ \cup {s}, !.win = @ \cup {w}, !.link[w] = s,
                                    !.act[s] = w, !.pane[p] = w, !.ap[w] = p]
  <1>1. a \in Notices /\ b \in Notices /\ c \in Notices
        /\ a.name = "window-add" /\ c.name = "sessions-changed"
    BY NoticeIs DEF NoticeNames
  <1>2. server \in Topologies /\ Consistent(server)
    BY DEF TopoTypes
  <1> HIDE DEF a, b, c
  <1>3. CASE Topo!NewWindow(s, w, p)
    <2>1. grown \in Topologies
      BY <1>2 DEF Topologies
    <2>2. Consistent(grown)
      BY <1>2, <1>3 DEF Topologies, Consistent, Topo!NewWindow
    <2>3. <<a, b>> \in Seq(Notices) /\ <<a, b>> # <<>> /\ <<a, b>>[1] = a
      BY <1>1
    <2>4. Chain(server, <<a, b>>, 0, grown)
      BY <1>1, <2>3, Asks, ChainAsksFirst
    <2>5. Topo!Change(grown, <<a, b>>)
      BY <1>3 DEF Topo!NewWindow, a, b
    <2> QED
      BY <2>1, <2>2, <2>3, <2>4, <2>5, ChangeHeard
  <1>4. CASE Topo!NewSession(s, w, p)
    <2>1. born \in Topologies
      BY <1>2 DEF Topologies
    <2>2. Consistent(born)
      BY <1>2, <1>4 DEF Topologies, Consistent, Topo!NewSession
    <2>3. <<c, a>> \in Seq(Notices) /\ <<c, a>> # <<>> /\ <<c, a>>[1] = c
      BY <1>1
    <2>4. Chain(server, <<c, a>>, 0, born)
      BY <1>1, <2>3, Asks, ChainAsksFirst
    <2>5. Topo!Change(born, <<c, a>>)
      BY <1>4 DEF Topo!NewSession, a, c
    <2> QED
      BY <2>1, <2>2, <2>3, <2>4, <2>5, ChangeHeard
  <1> QED
    BY <1>3, <1>4

LEMMA SplitHeard ==
    ASSUME TopoTypes, NEW w \in Windows, NEW p \in Panes, Topo!SplitWindow(w, p)
    PROVE  Heard
  <1> DEFINE a == Topo!Note("layout-change", 0, w, p)
             b == Topo!Note("window-pane-changed", 0, w, p)
             split == [server EXCEPT !.pane[p] = w, !.ap[w] = p]
  <1>1. a \in Notices /\ b \in Notices /\ a.name = "layout-change"
    BY NoticeIs DEF NoticeNames
  <1>2. server \in Topologies /\ Consistent(server)
    BY DEF TopoTypes
  <1> HIDE DEF a, b
  <1>3. split \in Topologies
    BY <1>2 DEF Topologies
  <1>4. Consistent(split)
    BY <1>2 DEF Topologies, Consistent, Topo!SplitWindow
  <1>5. <<a, b>> \in Seq(Notices) /\ <<a, b>> # <<>> /\ <<a, b>>[1] = a
    BY <1>1
  <1>6. Chain(server, <<a, b>>, 0, split)
    BY <1>1, <1>5, Asks, ChainAsksFirst
  <1>7. Topo!Change(split, <<a, b>>)
    BY DEF Topo!SplitWindow, a, b
  <1> QED
    BY <1>3, <1>4, <1>5, <1>6, <1>7, ChangeHeard

\* remove_window, of a topology that refers only to what it has.
LEMMA Removed ==
    ASSUME NEW t \in Topologies, NEW w \in Windows
    PROVE  /\ Topo!RemoveWindow(t, w) \in Topologies
           /\ Topo!RemoveWindow(t, w).sess = t.sess /\ Topo!RemoveWindow(t, w).att = t.att
           /\ Topo!RemoveWindow(t, w).win = t.win \ {w}
           /\ \A u \in Windows : Topo!RemoveWindow(t, w).link[u] = IF u = w THEN 0 ELSE t.link[u]
           /\ \A p \in Panes :
                 Topo!RemoveWindow(t, w).pane[p] = IF t.pane[p] = w THEN 0 ELSE t.pane[p]
           /\ \A s \in Sessions :
                 Topo!RemoveWindow(t, w).act[s] = IF t.act[s] = w THEN 0 ELSE t.act[s]
  BY DEF Topologies, Topo!RemoveWindow

\* A notice of a window or a pane that is known is applied as it stands.
LEMMA WindowHeard ==
    ASSUME NEW t \in Topologies, NEW s \in t.sess, NEW w \in t.win
    PROVE  LET n == Topo!Note("session-window-changed", s, w, 0)
           IN ~Hears(t, n).resync /\ Hears(t, n).t = [t EXCEPT !.act[s] = w]
  <1> DEFINE n == Topo!Note("session-window-changed", s, w, 0)
             u == [t EXCEPT !.sess = @ \cup {s}, !.act[s] = w, !.win = @ \cup {w}]
  <1>1. n.name = "session-window-changed" /\ n.s = s /\ n.w = w
    BY DEF Topo!Note
  <1> HIDE DEF n
  <1>2. Hears(t, n) = Topo!Known(u, s \in t.sess /\ w \in t.win)
    BY <1>1 DEF Hears, Topo!Reconcile
  <1>3. u = [t EXCEPT !.act[s] = w]
    <2>1. t.sess \cup {s} = t.sess /\ t.win \cup {w} = t.win
      OBVIOUS
    <2> QED
      BY <2>1 DEF Topologies
  <1> HIDE DEF u
  <1>4. ~Hears(t, n).resync /\ Hears(t, n).t = u
    <2>1. Hears(t, n) = [t |-> u, resync |-> ~(s \in t.sess /\ w \in t.win)]
      BY <1>2 DEF Topo!Known
    <2>2. Hears(t, n).resync = ~(s \in t.sess /\ w \in t.win)
      BY <2>1
    <2>3. Hears(t, n).t = u
      BY <2>1
    <2> QED
      BY <2>2, <2>3
  <1> QED
    BY <1>3, <1>4 DEF n

LEMMA PaneHeard ==
    ASSUME NEW t \in Topologies, NEW w \in t.win, NEW p \in Panes, t.pane[p] # 0
    PROVE  LET n == Topo!Note("window-pane-changed", 0, w, p)
           IN ~Hears(t, n).resync /\ Hears(t, n).t = [t EXCEPT !.ap[w] = p]
  <1> DEFINE n == Topo!Note("window-pane-changed", 0, w, p)
             u == [t EXCEPT !.win = @ \cup {w}, !.ap[w] = p, !.pane[p] = IF @ = 0 THEN w ELSE @]
  <1>1. n.name = "window-pane-changed" /\ n.p = p /\ n.w = w
    BY DEF Topo!Note
  <1> HIDE DEF n
  <1>2. Hears(t, n) = Topo!Known(u, w \in t.win /\ t.pane[p] # 0)
    BY <1>1 DEF Hears, Topo!Reconcile
  <1>3. u = [t EXCEPT !.ap[w] = p]
    <2>1. t.win \cup {w} = t.win /\ [t.pane EXCEPT ![p] = IF @ = 0 THEN w ELSE @] = t.pane
      BY DEF Topologies
    <2> QED
      BY <2>1 DEF Topologies
  <1> HIDE DEF u
  <1>4. ~Hears(t, n).resync /\ Hears(t, n).t = u
    <2>1. Hears(t, n) = [t |-> u, resync |-> ~(w \in t.win /\ t.pane[p] # 0)]
      BY <1>2 DEF Topo!Known
    <2>2. Hears(t, n).resync = ~(w \in t.win /\ t.pane[p] # 0)
      BY <2>1
    <2>3. Hears(t, n).t = u
      BY <2>1
    <2> QED
      BY <2>2, <2>3
  <1> QED
    BY <1>3, <1>4 DEF n

LEMMA SessionHeard ==
    ASSUME NEW t \in Topologies, NEW s \in t.sess
    PROVE  LET n == Topo!Note("session-changed", s, 0, 0)
           IN ~Hears(t, n).resync /\ Hears(t, n).t = [t EXCEPT !.att = s]
  <1> DEFINE n == Topo!Note("session-changed", s, 0, 0)
             u == [t EXCEPT !.sess = @ \cup {s}, !.att = s]
  <1>1. n.name = "session-changed" /\ n.s = s
    BY DEF Topo!Note
  <1> HIDE DEF n
  <1>2. Hears(t, n) = Topo!Known(u, s \in t.sess)
    BY <1>1 DEF Hears, Topo!Reconcile
  <1>3. u = [t EXCEPT !.att = s]
    <2>1. t.sess \cup {s} = t.sess
      OBVIOUS
    <2> QED
      BY <2>1 DEF Topologies
  <1> HIDE DEF u
  <1>4. ~Hears(t, n).resync /\ Hears(t, n).t = u
    <2>1. Hears(t, n) = [t |-> u, resync |-> ~(s \in t.sess)]
      BY <1>2 DEF Topo!Known
    <2>2. Hears(t, n).resync = ~(s \in t.sess)
      BY <2>1
    <2>3. Hears(t, n).t = u
      BY <2>1
    <2> QED
      BY <2>2, <2>3
  <1> QED
    BY <1>3, <1>4 DEF n

\* The window of the attached session, or of another, is closed.
LEMMA CloseHeard ==
    ASSUME NEW t \in Topologies, NEW w \in Windows, t.link[w] \in Sessions, t.att \in Sessions
    PROVE  /\ LET n == Topo!Note("window-close", t.link[w], w, 0)
              IN t.link[w] = t.att =>
                    ~Hears(t, n).resync /\ Hears(t, n).t = Topo!RemoveWindow(t, w)
           /\ Hears(t, Topo!Note("unlinked-window-close", t.link[w], w, 0)).resync
  <1> DEFINE n == Topo!Note("window-close", t.link[w], w, 0)
             o == Topo!Note("unlinked-window-close", t.link[w], w, 0)
  <1>1. n.name = "window-close" /\ n.w = w /\ o.name = "unlinked-window-close" /\ o.w = w
    BY DEF Topo!Note
  <1>2. t.att # 0 /\ t.link[w] # 0
    BY TopologyAssumption
  <1> HIDE DEF n, o
  <1>3. t.link[w] = t.att => Hears(t, n) = Topo!Applied(Topo!RemoveWindow(t, w))
    BY <1>1, <1>2 DEF Hears, Topo!Reconcile
  <1>4. Hears(t, o) = Topo!Uncertain(t)
    BY <1>1, <1>2 DEF Hears, Topo!Reconcile
  <1> QED
    BY <1>3, <1>4 DEF Topo!Applied, Topo!Uncertain, n, o

LEMMA KillWindowHeard ==
    ASSUME TopoTypes, NEW w \in Windows, NEW v \in Windows, Topo!KillWindow(w, v)
    PROVE  Heard
  <1> DEFINE s == server.link[w]
             r == Topo!RemoveWindow(server, w)
             moved == server.act[s] = w
             killed == [r EXCEPT !.act[s] = IF moved THEN v ELSE server.act[s]]
             name == IF s = server.att THEN "window-close" ELSE "unlinked-window-close"
             a == Topo!Note(name, s, w, 0)
             b == Topo!Note("session-window-changed", s, v, 0)
             ns == <<a>> \o IF moved THEN <<b>> ELSE <<>>
  <1>1. server \in Topologies /\ Consistent(server)
    BY DEF TopoTypes
  <1>2. /\ w \in server.win /\ v \in server.win /\ v # w /\ server.link[v] = s
        /\ Topo!Change(killed, ns)
    BY DEF Topo!KillWindow
  <1>3. /\ s \in server.sess /\ s \in Sessions /\ server.att \in Sessions
        /\ server.act \in [Sessions -> Windows \cup {0}]
    BY <1>1, <1>2 DEF Topologies, Consistent
  <1>4. a \in Notices /\ b \in Notices
    BY <1>3, NoticeIs DEF NoticeNames
  <1>5. /\ r \in Topologies /\ r.sess = server.sess /\ r.att = server.att
        /\ r.win = server.win \ {w}
        /\ \A u \in Windows : r.link[u] = IF u = w THEN 0 ELSE server.link[u]
        /\ \A p \in Panes : r.pane[p] = IF server.pane[p] = w THEN 0 ELSE server.pane[p]
        /\ \A x \in Sessions : r.act[x] = IF server.act[x] = w THEN 0 ELSE server.act[x]
    BY <1>1, Removed
  <1>6. r.act \in [Sessions -> Windows \cup {0}]
    BY <1>5 DEF Topologies
  <1>7. ns \in Seq(Notices) /\ ns # <<>> /\ ns[1] = a
    <2> HIDE DEF a, b
    <2> QED
      BY <1>4
  <1> HIDE DEF a, b, r, ns
  <1>8. killed \in Topologies
    BY <1>3, <1>5 DEF Topologies
  <1>9. Consistent(killed)
    <2>1. killed.att = server.att /\ killed.sess = server.sess /\ killed.win = server.win \ {w}
          /\ killed.link = r.link /\ killed.pane = r.pane
      BY <1>5 DEF Topologies
    <2>2. server.win \subseteq Windows
      BY <1>1 DEF Topologies
    <2> QED
      BY <1>1, <1>5, <2>1, <2>2 DEF Consistent
  <1>10. ~moved => killed = r
    <2>1. SUFFICES ASSUME ~moved PROVE killed = r
      OBVIOUS
    <2>2. r.act[s] = server.act[s]
      BY <1>3, <1>5, <2>1
    <2>3. [r.act EXCEPT ![s] = server.act[s]] = r.act
      BY <1>6, <2>2
    <2> QED
      BY <1>5, <2>1, <2>3 DEF Topologies
  <1>11. moved => killed = [r EXCEPT !.act[s] = v]
    OBVIOUS
  <1> HIDE DEF killed, moved
  <1>12. Chain(server, ns, 0, killed)
    <2>1. CASE s # server.att
      <3>1. Hears(server, a).resync
        BY <1>1, <1>3, <2>1, CloseHeard DEF a
      <3> QED
        BY <1>7, <3>1, ChainAsks
    <2>2. CASE s = server.att /\ ~moved
      <3>1. ~Hears(server, a).resync /\ Hears(server, a).t = r
        BY <1>1, <1>3, <2>2, CloseHeard DEF a, r
      <3>2. ns = <<a>>
        BY <2>2 DEF ns
      <3> QED
        BY <1>4, <1>10, <2>2, <3>1, <3>2, ChainOne
    <2>3. CASE s = server.att /\ moved
      <3>1. ~Hears(server, a).resync /\ Hears(server, a).t = r
        BY <1>1, <1>3, <2>3, CloseHeard DEF a, r
      <3>2. ns = <<a>> \o <<b>>
        BY <2>3 DEF ns
      <3>3. ~Hears(r, b).resync /\ Hears(r, b).t = killed
        BY <1>2, <1>3, <1>5, <1>11, <2>3, WindowHeard DEF b
      <3>4. Chain(r, <<b>>, 0, killed)
        BY <1>4, <3>3, ChainOne
      <3>5. <<b>> \in Seq(Notices)
        BY <1>4
      <3> QED
        BY <1>4, <3>1, <3>2, <3>4, <3>5, ChainNext
    <2> QED
      BY <2>1, <2>2, <2>3
  <1> QED
    BY <1>2, <1>7, <1>8, <1>9, <1>12, ChangeHeard

LEMMA KillPaneHeard ==
    ASSUME TopoTypes, NEW p \in Panes, NEW q \in Panes, NEW told \in BOOLEAN,
           Topo!KillPane(p, q, told)
    PROVE  Heard
  <1> DEFINE w == server.pane[p]
             moved == server.ap[w] = p
             killed == [server EXCEPT !.pane[p] = 0, !.ap[w] = IF moved THEN q ELSE @]
             a == Topo!Note("pane-exited", 0, w, p)
             b == Topo!Note("layout-change", 0, w, 0)
             c == Topo!Note("window-pane-changed", 0, w, q)
             rest == <<b>> \o IF moved THEN <<c>> ELSE <<>>
             ns == (IF told THEN <<a>> ELSE <<>>) \o <<b>> \o IF moved THEN <<c>> ELSE <<>>
  <1>1. server \in Topologies /\ Consistent(server)
    BY DEF TopoTypes
  <1>2. w # 0 /\ q # p /\ server.pane[q] = w /\ Topo!Change(killed, ns)
    BY DEF Topo!KillPane
  <1>3. w \in Windows /\ w \in server.win
    BY <1>1, <1>2 DEF Topologies, Consistent
  <1>4. a \in Notices /\ b \in Notices /\ c \in Notices
        /\ a.name = "pane-exited" /\ b.name = "layout-change"
    BY <1>3, NoticeIs DEF NoticeNames
  <1>5. killed \in Topologies
    BY <1>1, <1>3 DEF Topologies
  <1>6. Consistent(killed)
    BY <1>1, <1>3 DEF Topologies, Consistent
  <1> HIDE DEF a, b, c, moved
  <1>7. rest \in Seq(Notices) /\ rest # <<>> /\ rest[1] = b
    BY <1>4
  <1>8. ns = IF told THEN <<a>> \o rest ELSE rest
    BY <1>4
  <1>9. ns \in Seq(Notices) /\ ns # <<>>
    <2> HIDE DEF rest
    <2>1. <<a>> \o rest \in Seq(Notices) /\ <<a>> \o rest # <<>>
      BY <1>4, <1>7
    <2> HIDE DEF ns
    <2> QED
      BY <1>7, <1>8, <2>1
  <1> HIDE DEF rest, ns, killed
  <1>10. \A t : Chain(t, rest, 0, killed)
    <2>1. TAKE t
    <2>2. Hears(t, rest[1]).resync
      BY <1>4, <1>7, Asks
    <2> QED
      BY <1>7, <2>2, ChainAsks
  <1>11. ~Hears(server, a).resync
    BY <1>4 DEF Hears, Topo!Reconcile, Topo!Applied
  <1>12. Chain(server, <<a>> \o rest, 0, killed)
    BY <1>4, <1>7, <1>10, <1>11, ChainNext
  <1>13. Chain(server, ns, 0, killed)
    BY <1>8, <1>10, <1>12
  <1> QED
    BY <1>2, <1>5, <1>6, <1>9, <1>13, ChangeHeard DEF killed

LEMMA SelectHeard ==
    ASSUME TopoTypes, Topo!Select
    PROVE  Heard
  <1>1. server \in Topologies /\ Consistent(server)
    BY DEF TopoTypes
  <1>2. CASE \E w \in server.win : LET s == server.link[w] IN
              /\ server.act[s] # w
              /\ Topo!Change([server EXCEPT !.act[s] = w],
                             <<Topo!Note("session-window-changed", s, w, 0)>>)
    <2>1. PICK w \in server.win :
              Topo!Change([server EXCEPT !.act[server.link[w]] = w],
                          <<Topo!Note("session-window-changed", server.link[w], w, 0)>>)
      BY <1>2
    <2> DEFINE s == server.link[w]
               n == Topo!Note("session-window-changed", s, w, 0)
               chosen == [server EXCEPT !.act[s] = w]
    <2>2. s \in server.sess /\ s \in Sessions /\ w \in Windows
      BY <1>1 DEF Topologies, Consistent
    <2>3. n \in Notices
      BY <2>2, NoticeIs DEF NoticeNames
    <2>4. chosen \in Topologies /\ Consistent(chosen)
      BY <1>1, <2>2 DEF Topologies, Consistent
    <2>5. ~Hears(server, n).resync /\ Hears(server, n).t = chosen
      BY <1>1, <2>2, WindowHeard
    <2>6. Topo!Change(chosen, <<n>>)
      BY <2>1
    <2> HIDE DEF n, chosen
    <2>7. Chain(server, <<n>>, 0, chosen)
      BY <2>3, <2>5, ChainOne
    <2>8. <<n>> \in Seq(Notices) /\ <<n>> # <<>>
      BY <2>3
    <2> QED
      BY <2>4, <2>6, <2>7, <2>8, ChangeHeard
  <1>3. CASE \E p \in Panes : LET w == server.pane[p] IN
              /\ w # 0 /\ server.ap[w] # p
              /\ Topo!Change([server EXCEPT !.ap[w] = p],
                             <<Topo!Note("window-pane-changed", 0, w, p)>>)
    <2>1. PICK p \in Panes :
              /\ server.pane[p] # 0
              /\ Topo!Change([server EXCEPT !.ap[server.pane[p]] = p],
                             <<Topo!Note("window-pane-changed", 0, server.pane[p], p)>>)
      BY <1>3
    <2> DEFINE w == server.pane[p]
               n == Topo!Note("window-pane-changed", 0, w, p)
               chosen == [server EXCEPT !.ap[w] = p]
    <2>2. w \in server.win /\ w \in Windows
      BY <1>1, <2>1 DEF Topologies, Consistent
    <2>3. n \in Notices
      BY <2>2, NoticeIs DEF NoticeNames
    <2>4. chosen \in Topologies /\ Consistent(chosen)
      BY <1>1, <2>2 DEF Topologies, Consistent
    <2>5. ~Hears(server, n).resync /\ Hears(server, n).t = chosen
      BY <1>1, <2>1, <2>2, PaneHeard
    <2>6. Topo!Change(chosen, <<n>>)
      BY <2>1
    <2> HIDE DEF n, chosen
    <2>7. Chain(server, <<n>>, 0, chosen)
      BY <2>3, <2>5, ChainOne
    <2>8. <<n>> \in Seq(Notices) /\ <<n>> # <<>>
      BY <2>3
    <2> QED
      BY <2>4, <2>6, <2>7, <2>8, ChangeHeard
  <1>4. CASE \E s \in server.sess \ {server.att} :
              Topo!Change([server EXCEPT !.att = s], <<Topo!Note("session-changed", s, 0, 0)>>)
    <2>1. PICK s \in server.sess :
              Topo!Change([server EXCEPT !.att = s], <<Topo!Note("session-changed", s, 0, 0)>>)
      BY <1>4
    <2> DEFINE n == Topo!Note("session-changed", s, 0, 0)
               chosen == [server EXCEPT !.att = s]
    <2>2. s \in Sessions
      BY <1>1 DEF Topologies
    <2>3. n \in Notices
      BY <2>2, NoticeIs DEF NoticeNames
    <2>4. chosen \in Topologies /\ Consistent(chosen)
      BY <1>1, <2>2 DEF Topologies, Consistent
    <2>5. ~Hears(server, n).resync /\ Hears(server, n).t = chosen
      BY <1>1, <2>2, SessionHeard
    <2>6. Topo!Change(chosen, <<n>>)
      BY <2>1
    <2> HIDE DEF n, chosen
    <2>7. Chain(server, <<n>>, 0, chosen)
      BY <2>3, <2>5, ChainOne
    <2>8. <<n>> \in Seq(Notices) /\ <<n>> # <<>>
      BY <2>3
    <2> QED
      BY <2>4, <2>6, <2>7, <2>8, ChangeHeard
  <1> QED
    BY <1>2, <1>3, <1>4 DEF Topo!Select

-----------------------------------------------------------------------------
(* Every step keeps the invariant.                                         *)

\* Records appended to the stream.
LEMMA StreamGrows ==
    ASSUME NEW q \in Seq(Records), NEW ns \in Seq(Records)
    PROVE  /\ q \o ns \in Seq(Records) /\ Len(q) \in Nat /\ Len(ns) \in Nat
           /\ Len(q \o ns) = Len(q) + Len(ns)
           /\ \A i \in 1 .. Len(q) : (q \o ns)[i] = q[i]
           /\ \A i \in 1 .. Len(ns) : (q \o ns)[Len(q) + i] = ns[i]
  OBVIOUS

LEMMA NoticesAreNoAnswers ==
    ASSUME NEW ns \in Seq(Notices)
    PROVE  ns \in Seq(Records) /\ \A i \in 1 .. Len(ns) : ~IsAnswer(ns, i)
  <1>1. \A i \in 1 .. Len(ns) : ns[i] \in Notices
    OBVIOUS
  <1>2. \A n \in Notices : n.name # "reply"
    BY DEF Notices, NoticeNames
  <1>3. ns \in Seq(Records)
    BY DEF Records
  <1> QED
    BY <1>1, <1>2, <1>3 DEF IsAnswer

LEMMA HeardKeeps ==
    ASSUME TopoInv, Heard
    PROVE  TopoInv'
  <1>1. PICK ns \in Seq(Notices) :
            ns # <<>> /\ stream' = stream \o ns /\ Chain(server, ns, 0, server')
    BY DEF Heard
  <1> DEFINE n == Len(stream)
             l == Len(ns)
  <1>2. ns \in Seq(Records) /\ stream \in Seq(Records)
    BY NoticesAreNoAnswers DEF TopoInv, TopoTypes
  <1>3. /\ stream' \in Seq(Records) /\ n \in Nat /\ l \in Nat \ {0} /\ Len(stream') = n + l
        /\ \A i \in 1 .. n : stream'[i] = stream[i]
        /\ \A i \in 1 .. l : stream'[n + i] = ns[i]
    BY <1>1, <1>2, StreamGrows
  <1>4. \A i \in 1 .. l : ~IsAnswer(ns, i)
    BY NoticesAreNoAnswers
  <1>5. \A i \in n + 1 .. n + l : ~IsAnswer(stream', i)
    <2>1. TAKE i \in n + 1 .. n + l
    <2>2. i - n \in 1 .. l /\ n + (i - n) = i
      BY <1>3
    <2>3. stream'[i] = ns[i - n] /\ ~IsAnswer(ns, i - n)
      BY <1>3, <1>4, <2>2
    <2> QED
      BY <2>3 DEF IsAnswer
  <1>6. \A i \in 1 .. n : IsAnswer(stream', i) <=> IsAnswer(stream, i)
    BY <1>3 DEF IsAnswer
  <1>7. /\ topology' = topology /\ queries' = queries /\ remaining' = remaining /\ got' = got
        /\ failed' = failed /\ retried' = retried /\ gaveUp' = gaveUp
        /\ raced' = (raced \/ Len(queries) \in 1 .. 3)
        /\ server' \in Topologies /\ Consistent(server)'
    BY DEF Heard, Consistent
  <1> HIDE DEF n, l
  <1>8. \A i \in 1 .. Len(stream') : IsAnswer(stream', i) => i \in 1 .. n
    BY <1>3, <1>5
  <1>9. TopoTypes'
    BY <1>3, <1>7 DEF TopoInv, TopoTypes
  <1>10. TopoReplies'
    <2>1. \A i \in 1 .. Len(stream') :
              IsAnswer(stream', i) => Place(stream'[i].layer) \in 5 - remaining .. 4 - Len(queries)
      BY <1>3, <1>6, <1>8 DEF TopoInv, TopoReplies, n
    <2>2. \A k \in 5 - remaining .. 4 - Len(queries) :
              \E i \in 1 .. Len(stream') : IsAnswer(stream', i) /\ Place(stream'[i].layer) = k
      <3>1. TAKE k \in 5 - remaining .. 4 - Len(queries)
      <3>2. PICK i \in 1 .. n : IsAnswer(stream, i) /\ Place(stream[i].layer) = k
        BY DEF TopoInv, TopoReplies, n
      <3>3. i \in 1 .. Len(stream')
        BY <1>3
      <3> QED
        BY <1>3, <1>6, <3>2, <3>3
    <2>3. \A i, j \in 1 .. Len(stream') :
              i < j /\ IsAnswer(stream', i) /\ IsAnswer(stream', j)
                => Place(stream'[i].layer) < Place(stream'[j].layer)
      <3>1. TAKE i, j \in 1 .. Len(stream')
      <3>2. HAVE i < j /\ IsAnswer(stream', i) /\ IsAnswer(stream', j)
      <3>3. i \in 1 .. n /\ j \in 1 .. n
        BY <1>8, <3>2
      <3>4. IsAnswer(stream, i) /\ IsAnswer(stream, j) /\ stream'[i] = stream[i] /\ stream'[j] = stream[j]
        BY <1>3, <1>6, <3>2, <3>3
      <3> QED
        BY <3>2, <3>3, <3>4 DEF TopoInv, TopoReplies, n
    <2> QED
      BY <1>7, <2>1, <2>2, <2>3 DEF TopoReplies
  <1>11. \A t, k : k \in 0 .. n /\ Chain(t, stream, k, server) => Chain(t, stream', k, server')
    BY <1>1, <1>2, ChainGrows DEF n
  <1>12. TopoFresh'
    BY <1>7 DEF TopoInv, TopoFresh, Topo!Empty
  <1>13. queries = <<>> => \A b, r : Consonant(b, r) => Consonant(b, r)'
    <2>1. SUFFICES ASSUME queries = <<>>, NEW b, NEW r, Consonant(b, r) PROVE Consonant(b, r)'
      OBVIOUS
    <2>2. r \in 0 .. n /\ r \in 0 .. Len(stream')
      BY <1>3, <2>1 DEF Consonant, n
    <2>3. \A i \in 1 .. r : IsAnswer(stream', i) => stream'[i].data = b
      <3>1. \A i \in 1 .. r : i \in 1 .. n
        BY <1>3, <2>2
      <3> QED
        BY <1>3, <1>6, <2>1, <3>1 DEF Consonant
    <2>4. r # 0 => IsAnswer(stream', r)
      <3>1. r # 0 => r \in 1 .. n
        BY <1>3, <2>2
      <3> QED
        BY <1>6, <2>1, <3>1 DEF Consonant
    <2>5. Chain(b, stream', r, server')
      BY <1>11, <2>1, <2>2 DEF Consonant
    <2>6. b \in Topologies /\ (~failed' => got' = Collected(b, 4 - remaining'))
      BY <1>7, <2>1 DEF Consonant
    <2> QED
      BY <1>7, <2>1, <2>2, <2>3, <2>4, <2>5, <2>6 DEF Consonant, Collected, Chain, IsAnswer
  <1>14. TopoSound'
    <2>1. SUFFICES ASSUME ~raced'
                   PROVE  IF remaining = 0 THEN gaveUp \/ Chain(topology, stream', 0, server')
                          ELSE Len(queries) = 4 \/ (\E b, r : Consonant(b, r))'
      BY <1>7 DEF TopoSound
    <2>2. ~raced /\ Len(queries) \notin 1 .. 3
      BY <1>7, <2>1
    <2>3. CASE remaining = 0
      <3>1. 0 \in 0 .. n
        BY <1>3
      <3> QED
        BY <1>11, <2>2, <2>3, <3>1 DEF TopoInv, TopoSound
    <2>4. CASE remaining # 0 /\ Len(queries) # 4
      <3>1. queries \in Seq(LayerNames) /\ Len(queries) <= remaining /\ remaining \in 0 .. 4
        BY DEF TopoInv, TopoTypes
      <3>2. \A z \in Nat : z <= remaining /\ z \notin 1 .. 3 /\ z # 4 => z = 0
        BY <3>1
      <3>3. Len(queries) \in Nat
        BY <3>1
      <3>4. Len(queries) = 0
        BY <2>2, <2>4, <3>1, <3>2, <3>3
      <3>5. queries = <<>>
        BY <3>1, <3>4
      <3>6. PICK b, r : Consonant(b, r)
        BY <2>2, <2>4 DEF TopoInv, TopoSound
      <3> QED
        BY <1>13, <2>4, <3>5, <3>6
    <2> QED
      BY <2>3, <2>4
  <1> QED
    BY <1>9, <1>10, <1>12, <1>14 DEF TopoInv

\* tmux executes a command of an inventory.
LEMMA ExecuteKeeps ==
    ASSUME TopoInv, NEW ok \in BOOLEAN, Topo!Execute(ok)
    PROVE  TopoInv'
  <1> DEFINE rec == [name |-> "reply", layer |-> Head(queries), ok |-> ok, data |-> server]
             n == Len(stream)
             m == Len(queries)
  <1>1. /\ server \in Topologies /\ Consistent(server) /\ stream \in Seq(Records)
        /\ queries \in Seq(LayerNames) /\ m <= remaining /\ remaining \in 0 .. 4
        /\ \A i \in 1 .. m : Place(queries[i]) = 4 - m + i
    BY DEF TopoInv, TopoTypes
  <1>2. /\ queries # <<>> /\ queries' = Tail(queries) /\ stream' = Append(stream, rec)
        /\ server' = server /\ topology' = topology /\ remaining' = remaining /\ got' = got
        /\ failed' = failed /\ retried' = retried /\ gaveUp' = gaveUp
    BY DEF Topo!Execute, Topo!Idle
  <1>3. /\ m \in Nat \ {0} /\ Head(queries) = queries[1] /\ Head(queries) \in LayerNames
        /\ Tail(queries) \in Seq(LayerNames) /\ Len(Tail(queries)) = m - 1
        /\ \A i \in 1 .. m - 1 : Tail(queries)[i] = queries[i + 1]
    BY <1>1, <1>2
  <1>4. Place(rec.layer) = 5 - m
    BY <1>1, <1>3
  <1>5. rec \in Records /\ rec.name = "reply" /\ rec.data = server
    BY <1>1, <1>3 DEF Records, Replies
  <1> HIDE DEF rec
  <1>6. /\ stream' \in Seq(Records) /\ n \in Nat /\ Len(stream') = n + 1
        /\ stream'[n + 1] = rec /\ \A i \in 1 .. n : stream'[i] = stream[i]
    BY <1>1, <1>2, <1>5
  <1>7. /\ \A i \in 1 .. n : IsAnswer(stream', i) <=> IsAnswer(stream, i)
        /\ IsAnswer(stream', n + 1)
    BY <1>5, <1>6 DEF IsAnswer
  <1>8. Len(queries') = m - 1 /\ \A i \in 1 .. m - 1 : Place(queries'[i]) = 4 - (m - 1) + i
    <2>1. \A i \in 1 .. m - 1 : i + 1 \in 1 .. m /\ 4 - m + (i + 1) = 4 - (m - 1) + i
      BY <1>3
    <2> QED
      BY <1>1, <1>2, <1>3, <2>1
  <1>9. /\ \A i \in 1 .. n : IsAnswer(stream, i) => Place(stream[i].layer) \in 5 - remaining .. 4 - m
        /\ \A k \in 5 - remaining .. 4 - m :
              \E i \in 1 .. n : IsAnswer(stream, i) /\ Place(stream[i].layer) = k
        /\ \A i, j \in 1 .. n : i < j /\ IsAnswer(stream, i) /\ IsAnswer(stream, j)
              => Place(stream[i].layer) < Place(stream[j].layer)
    BY DEF TopoInv, TopoReplies
  <1> HIDE DEF n, m
  <1>10. TopoTypes' /\ (~raced' => ~raced \/ m = 4)
    <2>1. Len(queries') <= remaining'
      BY <1>1, <1>2, <1>3, <1>8
    <2>2. /\ server' \in Topologies /\ Consistent(server)' /\ queries' \in Seq(LayerNames)
          /\ remaining' \in 0 .. 4
      BY <1>1, <1>2, <1>3 DEF Consistent
    <2>3. \A i \in 1 .. Len(queries') : Place(queries'[i]) = 4 - Len(queries') + i
      BY <1>8
    <2>4. queries = Topo!Layers => m = 4
      BY DEF Topo!Layers, m
    <2>5. raced' = IF queries = Topo!Layers THEN FALSE ELSE raced
      BY DEF Topo!Execute
    <2>6. raced' \in BOOLEAN
      BY <2>5 DEF TopoInv, TopoTypes
    <2> QED
      BY <1>2, <1>6, <2>1, <2>2, <2>3, <2>4, <2>5, <2>6 DEF TopoInv, TopoTypes
  <1>11. TopoReplies'
    <2>1. \A i \in 1 .. n + 1 :
              IsAnswer(stream', i) => Place(stream'[i].layer) \in 5 - remaining .. 4 - (m - 1)
      <3>1. TAKE i \in 1 .. n + 1
      <3>2. HAVE IsAnswer(stream', i)
      <3>3. CASE i = n + 1
        <4>1. Place(stream'[i].layer) = 5 - m
          BY <1>4, <1>6, <3>3
        <4> QED
          BY <1>1, <1>3, <4>1
      <3>4. CASE i # n + 1
        <4>1. i \in 1 .. n
          BY <1>6, <3>4
        <4>2. Place(stream'[i].layer) \in 5 - remaining .. 4 - m
          BY <1>6, <1>7, <1>9, <3>2, <4>1
        <4> QED
          BY <1>1, <1>3, <4>2
      <3> QED
        BY <3>3, <3>4
    <2>2. \A k \in 5 - remaining .. 4 - (m - 1) :
              \E i \in 1 .. n + 1 : IsAnswer(stream', i) /\ Place(stream'[i].layer) = k
      <3>1. TAKE k \in 5 - remaining .. 4 - (m - 1)
      <3>2. CASE k = 5 - m
        <4>1. n + 1 \in 1 .. n + 1
          BY <1>6
        <4> QED
          BY <1>4, <1>6, <1>7, <3>2, <4>1
      <3>3. CASE k # 5 - m
        <4>1. k \in 5 - remaining .. 4 - m
          BY <1>1, <1>3, <3>3
        <4>2. PICK i \in 1 .. n : IsAnswer(stream, i) /\ Place(stream[i].layer) = k
          BY <1>9, <4>1
        <4>3. i \in 1 .. n + 1
          BY <1>6
        <4> QED
          BY <1>6, <1>7, <4>2, <4>3
      <3> QED
        BY <3>2, <3>3
    <2>3. \A i, j \in 1 .. n + 1 :
              i < j /\ IsAnswer(stream', i) /\ IsAnswer(stream', j)
                => Place(stream'[i].layer) < Place(stream'[j].layer)
      <3>1. TAKE i, j \in 1 .. n + 1
      <3>2. HAVE i < j /\ IsAnswer(stream', i) /\ IsAnswer(stream', j)
      <3>3. i \in 1 .. n
        BY <1>6, <3>2
      <3>4. IsAnswer(stream, i) /\ stream'[i] = stream[i]
        BY <1>6, <1>7, <3>2, <3>3
      <3>5. CASE j = n + 1
        <4>1. Place(stream[i].layer) \in 5 - remaining .. 4 - m /\ Place(stream'[j].layer) = 5 - m
          BY <1>4, <1>6, <1>9, <3>3, <3>4, <3>5
        <4> QED
          BY <1>1, <1>3, <3>4, <4>1
      <3>6. CASE j # n + 1
        <4>1. j \in 1 .. n
          BY <1>6, <3>6
        <4>2. IsAnswer(stream, j) /\ stream'[j] = stream[j]
          BY <1>6, <1>7, <3>2, <4>1
        <4> QED
          BY <1>9, <3>2, <3>3, <3>4, <4>1, <4>2
      <3> QED
        BY <3>5, <3>6
    <2> QED
      BY <1>2, <1>6, <1>8, <2>1, <2>2, <2>3 DEF TopoReplies
  <1>12. remaining # 0
    BY <1>1, <1>3
  <1>13. TopoFresh'
    <2>1. m - 1 # 4
      BY <1>1, <1>3
    <2> QED
      BY <1>8, <2>1 DEF TopoFresh
  <1>14. m = 4 \/ (\E b, r : Consonant(b, r)) => \E b, r : Consonant(b, r)'
    <2>1. SUFFICES ASSUME m = 4 \/ \E b, r : Consonant(b, r) PROVE \E b, r : Consonant(b, r)'
      OBVIOUS
    <2> PICK c, k : c = server /\ k = n + 1
      OBVIOUS
    <2>2. /\ \A i \in 1 .. n : IsAnswer(stream, i) => stream[i].data = server
          /\ ~failed => got = Collected(server, 4 - remaining)
      <3>1. CASE m = 4
        <4>1. remaining = 4
          BY <1>1, <3>1
        <4>2. 5 - remaining .. 4 - m = {}
          BY <3>1, <4>1
        <4>3. got = Topo!Empty
          BY <3>1 DEF TopoInv, TopoFresh, m
        <4>4. Collected(server, 4 - remaining) = Topo!Empty
          BY <4>1 DEF Collected, Topo!Empty
        <4> QED
          BY <1>9, <4>2, <4>3, <4>4
      <3>2. CASE \E b, r : Consonant(b, r)
        <4>1. PICK b, r : Consonant(b, r)
          BY <3>2
        <4>2. r = n /\ b = server
          BY <1>2, <4>1 DEF Consonant, n
        <4> QED
          BY <4>1, <4>2 DEF Consonant
      <3> QED
        BY <2>1, <3>1, <3>2
    <2>3. n + 1 \in 0 .. Len(stream') /\ n + 1 = Len(stream')
      BY <1>6
    <2>4. \A i \in 1 .. n + 1 : IsAnswer(stream', i) => stream'[i].data = server
      <3>1. TAKE i \in 1 .. n + 1
      <3>2. HAVE IsAnswer(stream', i)
      <3>3. CASE i = n + 1
        BY <1>5, <1>6, <3>3
      <3>4. CASE i # n + 1
        <4>1. i \in 1 .. n
          BY <1>6, <3>4
        <4> QED
          BY <1>6, <1>7, <2>2, <3>2, <4>1
      <3> QED
        BY <3>3, <3>4
    <2>5. Chain(server, stream', n + 1, server')
      BY <1>2, <1>6, <2>3, ChainEnds
    <2>6. Consonant(c, k)'
      BY <1>1, <1>2, <1>7, <2>2, <2>3, <2>4, <2>5 DEF Consonant, Collected, Chain, IsAnswer
    <2> QED
      BY <2>6
  <1>15. TopoSound'
    <2>1. SUFFICES ASSUME ~raced' PROVE (\E b, r : Consonant(b, r))'
      BY <1>2, <1>12 DEF TopoSound
    <2>2. m = 4 \/ \E b, r : Consonant(b, r)
      BY <1>10, <1>12, <2>1 DEF TopoInv, TopoSound, m
    <2> QED
      BY <1>14, <2>2
  <1> QED
    BY <1>10, <1>11, <1>13, <1>15 DEF TopoInv

\* An inventory is sent when none is under way.
LEMMA RequestSent ==
    ASSUME server' \in Topologies, Consistent(server)', stream' \in Seq(Records),
           \A i \in 1 .. Len(stream') : ~IsAnswer(stream', i),
           queries = <<>>, Topo!Request, retried' \in BOOLEAN, gaveUp' \in BOOLEAN, raced' \in BOOLEAN
    PROVE  TopoInv'
  <1> DEFINE L == <<"S", "W", "P", "A">>
  <1>1. /\ queries' = L /\ remaining' = 4 /\ got' = Topo!Empty /\ failed' = FALSE
        /\ L \in Seq(LayerNames) /\ Len(L) = 4 /\ queries' # <<>>
    BY DEF Topo!Request, Topo!Layers, LayerNames
  <1>2. \A i \in 1 .. 4 : Place(L[i]) = 4 - 4 + i
    BY DEF Place
  <1> HIDE DEF L
  <1>3. TopoTypes'
    <2>1. /\ queries' \in Seq(LayerNames) /\ Len(queries') <= remaining' /\ remaining' \in 0 .. 4
      BY <1>1
    <2>2. failed' \in BOOLEAN
      BY <1>1
    <2>3. \A i \in 1 .. Len(queries') : Place(queries'[i]) = 4 - Len(queries') + i
      BY <1>1, <1>2
    <2> QED
      BY <2>1, <2>2, <2>3 DEF TopoTypes, Consistent
  <1>4. TopoReplies'
    BY <1>1 DEF TopoReplies
  <1>5. TopoFresh'
    BY <1>1 DEF TopoFresh, Topo!Empty
  <1>6. TopoSound'
    BY <1>1 DEF TopoSound
  <1> QED
    BY <1>3, <1>4, <1>5, <1>6 DEF TopoInv

\* Lector reads a notice.
LEMMA NoticeKeeps ==
    ASSUME TopoInv, Topo!ProcessControl, Head(stream).name # "reply"
    PROVE  TopoInv'
  <1> DEFINE s == Tail(stream)
             n == Len(stream)
             a == Head(stream)
  <1>1. /\ server \in Topologies /\ Consistent(server) /\ stream \in Seq(Records)
        /\ remaining \in 0 .. 4 /\ queries \in Seq(LayerNames) /\ Len(queries) <= remaining
        /\ failed \in BOOLEAN /\ retried \in BOOLEAN /\ gaveUp \in BOOLEAN /\ raced \in BOOLEAN
    BY DEF TopoInv, TopoTypes
  <1>2. /\ stream # <<>> /\ stream' = s /\ server' = server
        /\ topology' = Hears(topology, a).t
        /\ \/ Hears(topology, a).resync /\ remaining = 0 /\ Topo!Request /\ retried' = FALSE
           \/ /\ ~(Hears(topology, a).resync /\ remaining = 0)
              /\ UNCHANGED <<queries, remaining, got, failed, retried>>
        /\ gaveUp' = gaveUp /\ raced' = raced
    BY DEF Topo!ProcessControl, Topo!Notified, Hears
  <1>3. /\ s \in Seq(Records) /\ n \in Nat \ {0} /\ Len(s) = n - 1
        /\ \A i \in 1 .. n - 1 : s[i] = stream[i + 1]
        /\ a = stream[1]
    BY <1>1, <1>2, TailMoves
  <1>4. \A i \in 1 .. n - 1 : i + 1 \in 1 .. n /\ (IsAnswer(s, i) <=> IsAnswer(stream, i + 1))
    BY <1>3 DEF IsAnswer
  <1>5. /\ \A i \in 1 .. n : IsAnswer(stream, i)
              => Place(stream[i].layer) \in 5 - remaining .. 4 - Len(queries)
        /\ \A k \in 5 - remaining .. 4 - Len(queries) :
              \E i \in 1 .. n : IsAnswer(stream, i) /\ Place(stream[i].layer) = k
        /\ \A i, j \in 1 .. n : i < j /\ IsAnswer(stream, i) /\ IsAnswer(stream, j)
              => Place(stream[i].layer) < Place(stream[j].layer)
    BY DEF TopoInv, TopoReplies
  <1>6. ~IsAnswer(stream, 1)
    BY <1>3 DEF IsAnswer
  <1> HIDE DEF s, n
  <1>7. Len(queries) \in Nat
    BY <1>1
  <1>8. CASE Hears(topology, a).resync /\ remaining = 0
    <2>1. Topo!Request /\ retried' \in BOOLEAN /\ gaveUp' \in BOOLEAN /\ raced' \in BOOLEAN
      BY <1>1, <1>2, <1>8
    <2>2. Len(queries) = 0 /\ queries = <<>>
      BY <1>1, <1>7, <1>8
    <2>3. \A i \in 1 .. Len(stream') : ~IsAnswer(stream', i)
      <3>1. \A i \in 1 .. n : ~IsAnswer(stream, i)
        BY <1>5, <1>8, <2>2
      <3> QED
        BY <1>2, <1>3, <1>4, <3>1
    <2>4. server' \in Topologies /\ Consistent(server)' /\ stream' \in Seq(Records)
      BY <1>1, <1>2, <1>3 DEF Consistent
    <2> QED
      BY <2>1, <2>2, <2>3, <2>4, RequestSent
  <1>9. CASE ~(Hears(topology, a).resync /\ remaining = 0)
    <2>1. /\ queries' = queries /\ remaining' = remaining
          /\ got' = got /\ failed' = failed /\ retried' = retried
      BY <1>2, <1>9
    <2>2. TopoFresh'
      BY <2>1 DEF TopoInv, TopoFresh, Topo!Empty
    <2>3. TopoTypes'
      BY <1>1, <1>2, <1>3, <2>1 DEF TopoInv, TopoTypes, Consistent
    <2>4. TopoReplies'
      <3>1. \A i \in 1 .. n - 1 :
                IsAnswer(s, i) => Place(s[i].layer) \in 5 - remaining .. 4 - Len(queries)
        BY <1>3, <1>4, <1>5
      <3>2. \A k \in 5 - remaining .. 4 - Len(queries) :
                \E i \in 1 .. n - 1 : IsAnswer(s, i) /\ Place(s[i].layer) = k
        <4>1. TAKE k \in 5 - remaining .. 4 - Len(queries)
        <4>2. PICK i \in 1 .. n : IsAnswer(stream, i) /\ Place(stream[i].layer) = k
          BY <1>5
        <4>3. i # 1
          BY <1>6, <4>2
        <4>4. i - 1 \in 1 .. n - 1 /\ (i - 1) + 1 = i
          BY <1>3, <4>2, <4>3
        <4>5. s[i - 1] = stream[i] /\ IsAnswer(s, i - 1)
          BY <1>3, <1>4, <4>2, <4>4
        <4> QED
          BY <4>2, <4>4, <4>5
      <3>3. \A i, j \in 1 .. n - 1 : i < j /\ IsAnswer(s, i) /\ IsAnswer(s, j)
                => Place(s[i].layer) < Place(s[j].layer)
        <4>1. TAKE i, j \in 1 .. n - 1
        <4>2. HAVE i < j /\ IsAnswer(s, i) /\ IsAnswer(s, j)
        <4>3. IsAnswer(stream, i + 1) /\ IsAnswer(stream, j + 1) /\ i + 1 < j + 1
              /\ i + 1 \in 1 .. n /\ j + 1 \in 1 .. n
          BY <1>4, <4>2
        <4>4. Place(stream[i + 1].layer) < Place(stream[j + 1].layer)
          BY <1>5, <4>3
        <4> QED
          BY <1>3, <4>4
      <3> QED
        BY <1>2, <1>3, <2>1, <3>1, <3>2, <3>3 DEF TopoReplies
    <2>5. remaining = 0 => TopoSound'
      <3>1. SUFFICES ASSUME remaining = 0, ~raced'
                     PROVE  gaveUp' \/ Chain(topology, stream, 0, server)'
        BY <2>1 DEF TopoSound
      <3>2. CASE gaveUp
        BY <1>2, <2>1, <3>1, <3>2
      <3>3. CASE ~gaveUp
        <4>1. Chain(topology, stream, 0, server) /\ ~Hears(topology, stream[1]).resync
          BY <1>2, <1>3, <1>9, <3>1, <3>3 DEF TopoInv, TopoSound
        <4>2. Chain(topology', stream, 1, server)
          BY <1>1, <1>2, <1>3, <4>1, ChainHeard
        <4>3. 0 \in 0 .. Len(stream) - 1 /\ 0 + 1 = 1
          BY <1>3 DEF n
        <4>4. Chain(topology', s, 0, server)
          BY <1>1, <1>2, <4>2, <4>3, ChainMoves DEF s
        <4>5. Chain(topology', stream', 0, server')
          BY <1>2, <4>4
        <4> QED
          BY <2>1, <3>1, <4>5 DEF Chain, IsAnswer
      <3> QED
        BY <3>2, <3>3
    <2>6. remaining # 0 => TopoSound'
      <3>1. SUFFICES ASSUME remaining # 0, ~raced', Len(queries) # 4
                     PROVE  (\E b, r : Consonant(b, r))'
        <4>1. remaining' = remaining /\ queries' = queries
          BY <2>1
        <4> QED
          BY <4>1 DEF TopoSound
      <3>2. PICK b, r : Consonant(b, r)
        BY <1>2, <3>1 DEF TopoInv, TopoSound
      <3>3. r \in 1 .. n
        <4>1. r \in 0 .. n /\ \A i \in r + 1 .. n : ~IsAnswer(stream, i)
          BY <3>2 DEF Consonant, Chain, n
        <4>2. CASE queries # <<>>
          <5>1. r = n
            BY <3>2, <4>2 DEF Consonant, n
          <5> QED
            BY <1>3, <5>1
        <4>3. CASE queries = <<>>
          <5>1. Len(queries) = 0
            BY <4>3
          <5>2. 4 \in 5 - remaining .. 4 - Len(queries)
            BY <1>1, <3>1, <5>1
          <5>3. PICK i \in 1 .. n : IsAnswer(stream, i)
            BY <1>5, <5>2
          <5>4. r # 0
            BY <4>1, <5>3
          <5> QED
            BY <1>3, <4>1, <5>4
        <4> QED
          BY <4>2, <4>3
      <3>4. IsAnswer(stream, r) /\ r # 1
        BY <1>6, <3>2, <3>3 DEF Consonant
      <3> PICK k : k = r - 1
        OBVIOUS
      <3>5. k \in 1 .. n - 1 /\ k + 1 = r /\ k \in 0 .. Len(stream') /\ (r = n => k = Len(stream'))
        BY <1>2, <1>3, <3>3, <3>4
      <3>6. \A i \in 1 .. k : IsAnswer(stream', i) => stream'[i].data = b
        <4>1. TAKE i \in 1 .. k
        <4>2. i \in 1 .. n - 1 /\ i + 1 \in 1 .. r
          BY <1>3, <3>3, <3>5
        <4> QED
          BY <1>2, <1>3, <1>4, <3>2, <4>2 DEF Consonant
      <3>7. IsAnswer(stream', k)
        BY <1>2, <1>4, <3>4, <3>5
      <3>8. Chain(b, stream', k, server')
        <4>1. Chain(b, stream, k + 1, server) /\ k \in 0 .. n - 1
          BY <1>3, <3>2, <3>5 DEF Consonant
        <4> HIDE DEF Chain
        <4> QED
          BY <1>1, <1>2, <4>1, ChainMoves DEF n, s
      <3>9. queries' # <<>> => k = Len(stream') /\ b = server'
        BY <1>2, <2>1, <3>2, <3>5 DEF Consonant, n
      <3>10. b \in Topologies /\ (~failed' => got' = Collected(b, 4 - remaining'))
        BY <2>1, <3>2 DEF Consonant
      <3>11. Consonant(b, k)'
        BY <3>5, <3>6, <3>7, <3>8, <3>9, <3>10 DEF Consonant, Collected, Chain, IsAnswer
      <3> QED
        BY <3>11
    <2> QED
      BY <2>2, <2>3, <2>4, <2>5, <2>6 DEF TopoInv
  <1> QED
    BY <1>8, <1>9

\* The layers of one topology make up that topology.
LEMMA CollectedIs ==
    ASSUME NEW b \in Topologies, NEW k \in 0 .. 4
    PROVE  Collected(b, k) \in Topologies
  <1>1. Topo!Empty \in Topologies
    BY DEF Topo!Empty, Topologies
  <1> QED
    BY <1>1 DEF Collected, Topologies

LEMMA CollectedMerges ==
    ASSUME NEW b \in Topologies, NEW k \in 0 .. 3, NEW r \in Replies, r.data = b,
           Place(r.layer) = k + 1
    PROVE  Topo!Merge(Collected(b, k), r) = Collected(b, k + 1)
  <1> DEFINE x == Collected(b, k)
             y == Topo!Merge(x, r)
             z == Collected(b, k + 1)
  <1>1. r.layer \in LayerNames
    BY DEF Replies
  <1>2. x \in Topologies /\ z \in Topologies
    BY CollectedIs
  <1>3. CASE k = 0
    <2>1. r.layer = "S"
      BY <1>1, <1>3 DEF Place, LayerNames
    <2>2. y = [x EXCEPT !.sess = b.sess]
      BY <2>1 DEF Topo!Merge
    <2>3. z.sess = b.sess /\ z.att = x.att /\ z.win = x.win /\ z.link = x.link /\ z.act = x.act
          /\ z.pane = x.pane /\ z.ap = x.ap
      BY <1>3 DEF Collected
    <2> HIDE DEF x, y, z
    <2>4. y = z
      BY <1>2, <2>2, <2>3 DEF Topologies
    <2> QED
      BY <2>4 DEF x, y, z
  <1>4. CASE k = 1
    <2>1. r.layer = "W"
      BY <1>1, <1>4 DEF Place, LayerNames
    <2>2. y = [x EXCEPT !.win = b.win, !.link = b.link, !.act = b.act]
      BY <2>1 DEF Topo!Merge
    <2>3. z.sess = x.sess /\ z.att = x.att /\ z.win = b.win /\ z.link = b.link /\ z.act = b.act
          /\ z.pane = x.pane /\ z.ap = x.ap
      BY <1>4 DEF Collected
    <2> HIDE DEF x, y, z
    <2>4. y = z
      BY <1>2, <2>2, <2>3 DEF Topologies
    <2> QED
      BY <2>4 DEF x, y, z
  <1>5. CASE k = 2
    <2>1. r.layer = "P"
      BY <1>1, <1>5 DEF Place, LayerNames
    <2>2. y = [x EXCEPT !.pane = b.pane, !.ap = b.ap]
      BY <2>1 DEF Topo!Merge
    <2>3. z.sess = x.sess /\ z.att = x.att /\ z.win = x.win /\ z.link = x.link /\ z.act = x.act
          /\ z.pane = b.pane /\ z.ap = b.ap
      BY <1>5 DEF Collected
    <2> HIDE DEF x, y, z
    <2>4. y = z
      BY <1>2, <2>2, <2>3 DEF Topologies
    <2> QED
      BY <2>4 DEF x, y, z
  <1>6. CASE k = 3
    <2>1. r.layer = "A"
      BY <1>1, <1>6 DEF Place, LayerNames
    <2>2. y = [x EXCEPT !.att = b.att]
      BY <2>1 DEF Topo!Merge
    <2>3. z.sess = x.sess /\ z.att = b.att /\ z.win = x.win /\ z.link = x.link /\ z.act = x.act
          /\ z.pane = x.pane /\ z.ap = x.ap
      BY <1>6 DEF Collected
    <2> HIDE DEF x, y, z
    <2>4. y = z
      BY <1>2, <2>2, <2>3 DEF Topologies
    <2> QED
      BY <2>4 DEF x, y, z
  <1> QED
    BY <1>3, <1>4, <1>5, <1>6

LEMMA CollectedAll ==
    ASSUME NEW b \in Topologies
    PROVE  Collected(b, 4) = b
  BY DEF Collected, Topologies

\* Lector reads a reply, of the layer it waits for.
LEMMA AnswerKeeps ==
    ASSUME TopoInv, Topo!ProcessControl, Head(stream).name = "reply"
    PROVE  TopoInv'
  <1> DEFINE s == Tail(stream)
             n == Len(stream)
             m == Len(queries)
             a == Head(stream)
             bad == failed \/ ~a.ok
             g == IF bad THEN Topo!Empty ELSE Topo!Merge(got, a)
  <1>1. /\ server \in Topologies /\ Consistent(server) /\ stream \in Seq(Records)
        /\ remaining \in 0 .. 4 /\ queries \in Seq(LayerNames) /\ m <= remaining /\ m \in Nat
        /\ failed \in BOOLEAN /\ retried \in BOOLEAN /\ gaveUp \in BOOLEAN /\ raced \in BOOLEAN
        /\ \A i \in 1 .. m : Place(queries[i]) = 4 - m + i
    BY DEF TopoInv, TopoTypes
  <1>2. /\ stream # <<>> /\ stream' = s /\ server' = server /\ Topo!Replied(a, remaining - 1)
        /\ raced' = raced
    BY DEF Topo!ProcessControl, Topo!InventoryReply
  <1>3. /\ s \in Seq(Records) /\ n \in Nat \ {0} /\ Len(s) = n - 1
        /\ \A i \in 1 .. n - 1 : s[i] = stream[i + 1]
        /\ a = stream[1] /\ a \in Records
    BY <1>1, <1>2, TailMoves
  <1>4. \A i \in 1 .. n - 1 : i + 1 \in 1 .. n /\ (IsAnswer(s, i) <=> IsAnswer(stream, i + 1))
    BY <1>3 DEF IsAnswer
  <1>5. /\ \A i \in 1 .. n : IsAnswer(stream, i) => Place(stream[i].layer) \in 5 - remaining .. 4 - m
        /\ \A k \in 5 - remaining .. 4 - m :
              \E i \in 1 .. n : IsAnswer(stream, i) /\ Place(stream[i].layer) = k
        /\ \A i, j \in 1 .. n : i < j /\ IsAnswer(stream, i) /\ IsAnswer(stream, j)
              => Place(stream[i].layer) < Place(stream[j].layer)
    BY DEF TopoInv, TopoReplies
  <1>6. IsAnswer(stream, 1) /\ 1 \in 1 .. n
    BY <1>3 DEF IsAnswer
  <1>7. a \in Replies /\ a.ok \in BOOLEAN
    <2>1. a \notin Notices
      BY DEF Notices, NoticeNames
    <2> QED
      BY <1>3, <2>1 DEF Records, Replies
  <1> HIDE DEF s, n, m, a, bad, g
  <1>8. /\ Place(a.layer) = 5 - remaining /\ remaining # 0 /\ m <= remaining - 1
        /\ \A i \in 1 .. n : i # 1 /\ IsAnswer(stream, i) => Place(stream[i].layer) > 5 - remaining
    <2> DEFINE p == Place(a.layer)
    <2>1. p \in 5 - remaining .. 4 - m /\ Place(stream[1].layer) = p
      BY <1>3, <1>5, <1>6
    <2> HIDE DEF p
    <2>2. 5 - remaining \in 5 - remaining .. 4 - m
      BY <1>1, <2>1
    <2>3. PICK i \in 1 .. n : IsAnswer(stream, i) /\ Place(stream[i].layer) = 5 - remaining
      BY <1>5, <2>2
    <2>4. i = 1
      <3>1. SUFFICES ASSUME i # 1 PROVE FALSE
        OBVIOUS
      <3>2. 1 < i
        BY <1>3, <2>3, <3>1
      <3>3. p < 5 - remaining
        BY <1>5, <1>6, <2>1, <2>3, <3>2
      <3> QED
        BY <1>1, <2>1, <3>3
    <2>5. p = 5 - remaining
      BY <2>1, <2>3, <2>4
    <2>6. \A j \in 1 .. n : j # 1 /\ IsAnswer(stream, j) => Place(stream[j].layer) > 5 - remaining
      <3>1. TAKE j \in 1 .. n
      <3>2. HAVE j # 1 /\ IsAnswer(stream, j)
      <3>3. 1 < j
        BY <1>3, <3>2
      <3>4. p < Place(stream[j].layer) /\ Place(stream[j].layer) \in Int
        BY <1>1, <1>5, <1>6, <2>1, <3>2, <3>3
      <3> QED
        BY <1>1, <2>1, <2>5, <3>4
    <2>7. remaining # 0 /\ m <= remaining - 1
      BY <1>1, <2>1, <2>5
    <2> QED
      BY <2>5, <2>6, <2>7 DEF p
  <1>9. \A b, r : Consonant(b, r) => /\ r \in 1 .. n /\ a.data = b /\ b \in Topologies
                                     /\ Chain(b, s, r - 1, server)
                                     /\ (~bad => g = Collected(b, 5 - remaining))
    <2>1. TAKE b, r
    <2>2. HAVE Consonant(b, r)
    <2>3. r \in 0 .. n /\ \A i \in r + 1 .. n : ~IsAnswer(stream, i)
      BY <2>2 DEF Consonant, Chain, n
    <2>4. r \in 1 .. n
      <3>1. r # 0
        BY <1>6, <2>3
      <3> QED
        BY <1>3, <2>3, <3>1
    <2>5. a.data = b
      <3>1. 1 \in 1 .. r
        BY <2>4
      <3>2. stream[1].data = b
        BY <1>6, <2>2, <3>1 DEF Consonant
      <3> QED
        BY <1>3, <3>2
    <2>6. Chain(b, s, r - 1, server)
      <3>1. r - 1 \in 0 .. n - 1 /\ (r - 1) + 1 = r
        BY <1>3, <2>4
      <3>2. Chain(b, stream, (r - 1) + 1, server)
        BY <2>2, <3>1 DEF Consonant
      <3> HIDE DEF Chain
      <3> QED
        BY <1>1, <1>2, <3>1, <3>2, ChainMoves DEF n, s
    <2>7. ~bad => g = Collected(b, 5 - remaining)
      <3>1. SUFFICES ASSUME ~bad PROVE g = Collected(b, 5 - remaining)
        OBVIOUS
      <3>2. ~failed /\ g = Topo!Merge(got, a)
        BY <3>1 DEF bad, g
      <3>3. got = Collected(b, 4 - remaining) /\ b \in Topologies
        BY <2>2, <3>2 DEF Consonant
      <3>4. 4 - remaining \in 0 .. 3 /\ (4 - remaining) + 1 = 5 - remaining
        BY <1>1, <1>8
      <3>5. Topo!Merge(Collected(b, 4 - remaining), a) = Collected(b, (4 - remaining) + 1)
        BY <1>7, <1>8, <2>5, <3>3, <3>4, CollectedMerges
      <3> QED
        BY <3>2, <3>3, <3>4, <3>5
    <2> QED
      BY <2>2, <2>4, <2>5, <2>6, <2>7 DEF Consonant
  <1>10. server' \in Topologies /\ Consistent(server)' /\ stream' \in Seq(Records)
    BY <1>1, <1>2, <1>3 DEF Consistent
  <1>11. CASE remaining - 1 > 0
    <2>1. /\ remaining' = remaining - 1 /\ got' = g /\ failed' = bad
          /\ topology' = topology /\ queries' = queries /\ retried' = retried
          /\ gaveUp' = gaveUp /\ raced' = raced
      BY <1>2, <1>11 DEF Topo!Replied, bad, g
    <2>2. failed' \in BOOLEAN
      BY <2>1 DEF bad
    <2>3. remaining' \in 0 .. 4 /\ remaining' # 0 /\ Len(queries') <= remaining'
      BY <1>1, <1>8, <1>11, <2>1 DEF m
    <2>4. TopoTypes'
      BY <1>1, <1>10, <2>1, <2>2, <2>3 DEF TopoTypes, m
    <2>5. TopoReplies'
      <3>1. \A i \in 1 .. n - 1 :
                IsAnswer(s, i) => Place(s[i].layer) \in 5 - remaining' .. 4 - m
        <4>1. TAKE i \in 1 .. n - 1
        <4>2. HAVE IsAnswer(s, i)
        <4>3. i + 1 \in 1 .. n /\ IsAnswer(stream, i + 1) /\ s[i] = stream[i + 1] /\ i + 1 # 1
          BY <1>3, <1>4, <4>2
        <4>4. Place(s[i].layer) > 5 - remaining /\ Place(s[i].layer) \in 5 - remaining .. 4 - m
          BY <1>5, <1>8, <4>3
        <4> QED
          BY <1>1, <2>1, <4>4
      <3>2. \A k \in 5 - remaining' .. 4 - m :
                \E i \in 1 .. n - 1 : IsAnswer(s, i) /\ Place(s[i].layer) = k
        <4>1. TAKE k \in 5 - remaining' .. 4 - m
        <4>2. k \in 5 - remaining .. 4 - m /\ k # 5 - remaining
          BY <1>1, <2>1
        <4>3. PICK i \in 1 .. n : IsAnswer(stream, i) /\ Place(stream[i].layer) = k
          BY <1>5, <4>2
        <4>4. i # 1
          BY <1>3, <1>8, <4>2, <4>3
        <4>5. i - 1 \in 1 .. n - 1 /\ (i - 1) + 1 = i
          BY <1>3, <4>3, <4>4
        <4>6. s[i - 1] = stream[i] /\ IsAnswer(s, i - 1)
          BY <1>3, <1>4, <4>3, <4>5
        <4> QED
          BY <4>3, <4>5, <4>6
      <3>3. \A i, j \in 1 .. n - 1 : i < j /\ IsAnswer(s, i) /\ IsAnswer(s, j)
                => Place(s[i].layer) < Place(s[j].layer)
        <4>1. TAKE i, j \in 1 .. n - 1
        <4>2. HAVE i < j /\ IsAnswer(s, i) /\ IsAnswer(s, j)
        <4>3. IsAnswer(stream, i + 1) /\ IsAnswer(stream, j + 1) /\ i + 1 < j + 1
              /\ i + 1 \in 1 .. n /\ j + 1 \in 1 .. n
          BY <1>4, <4>2
        <4>4. Place(stream[i + 1].layer) < Place(stream[j + 1].layer)
          BY <1>5, <4>3
        <4> QED
          BY <1>3, <4>4
      <3> QED
        BY <1>2, <1>3, <2>1, <3>1, <3>2, <3>3 DEF TopoReplies, m
    <2>6. m # 4 /\ TopoFresh'
      <3>1. m # 4
        BY <1>1, <1>8
      <3>2. Len(queries') # 4
        BY <2>1, <3>1 DEF m
      <3> QED
        BY <3>1, <3>2 DEF TopoFresh
    <2>7. \A b, r : Consonant(b, r) => \E k : Consonant(b, k)'
      <3>1. TAKE b, r
      <3>2. HAVE Consonant(b, r)
      <3> PICK k : k = r - 1
        OBVIOUS
      <3>3. /\ r \in 1 .. n /\ b \in Topologies /\ Chain(b, s, r - 1, server)
            /\ ~bad => g = Collected(b, 5 - remaining)
        BY <1>9, <3>2
      <3>4. k \in 0 .. Len(stream') /\ (r = n => k = Len(stream'))
        BY <1>2, <1>3, <3>3
      <3>5. /\ \A i \in 1 .. k : IsAnswer(stream', i) => stream'[i].data = b
            /\ k # 0 => IsAnswer(stream', k)
        <4>1. \A i \in 1 .. k : /\ i \in 1 .. n - 1 /\ i + 1 \in 1 .. r
                                /\ IsAnswer(stream', i) <=> IsAnswer(stream, i + 1)
                                /\ stream'[i] = stream[i + 1]
          BY <1>2, <1>3, <1>4, <3>3
        <4>2. k # 0 => k \in 1 .. k /\ k + 1 = r /\ r # 0
          BY <3>3
        <4> QED
          BY <3>2, <4>1, <4>2 DEF Consonant
      <3>6. Chain(b, stream', k, server')
        BY <1>2, <3>3
      <3>7. ~failed' => got' = Collected(b, 4 - remaining')
        <4>1. 4 - remaining' = 5 - remaining
          BY <1>1, <2>1
        <4>2. failed' = bad /\ got' = g
          BY <2>1
        <4> QED
          BY <3>3, <4>1, <4>2
      <3>8. queries' # <<>> => k = Len(stream') /\ b = server'
        BY <1>2, <2>1, <3>2, <3>4 DEF Consonant, n
      <3>9. Consonant(b, k)'
        BY <3>3, <3>4, <3>5, <3>6, <3>7, <3>8 DEF Consonant, Collected, Chain, IsAnswer
      <3> QED
        BY <3>9
    <2>8. TopoSound'
      BY <1>2, <1>8, <2>1, <2>3, <2>6, <2>7 DEF TopoInv, TopoSound, m
    <2> QED
      BY <2>4, <2>5, <2>6, <2>8 DEF TopoInv
  <1>12. CASE ~(remaining - 1 > 0)
    <2>1. remaining = 1 /\ m = 0 /\ queries = <<>>
      <3>1. remaining = 1 /\ m = 0
        BY <1>1, <1>8, <1>12
      <3> QED
        BY <1>1, <3>1 DEF m
    <2>2. \A i \in 1 .. n : i # 1 => ~IsAnswer(stream, i)
      <3>1. TAKE i \in 1 .. n
      <3>2. HAVE i # 1
      <3>3. SUFFICES ASSUME IsAnswer(stream, i) PROVE FALSE
        OBVIOUS
      <3>4. Place(stream[i].layer) > 4 /\ Place(stream[i].layer) \in 4 .. 4
        BY <1>5, <1>8, <2>1, <3>2, <3>3
      <3> QED
        BY <3>4
    <2>3. \A i \in 1 .. Len(stream') : ~IsAnswer(stream', i)
      <3>1. \A i \in 1 .. n - 1 : ~IsAnswer(s, i)
        <4>1. TAKE i \in 1 .. n - 1
        <4>2. i + 1 \in 1 .. n /\ i + 1 # 1
          BY <1>3
        <4> QED
          BY <1>4, <2>2, <4>2
      <3> QED
        BY <1>2, <1>3, <3>1
    <2>4. CASE ~bad /\ Topo!Valid(g)
      <3>1. /\ topology' = g /\ remaining' = 0 /\ retried' = FALSE /\ gaveUp' = FALSE
            /\ failed' = FALSE /\ queries' = queries /\ raced' = raced
        BY <1>2, <1>12, <2>4 DEF Topo!Replied, bad, g
      <3>2. TopoTypes'
        <4>1. failed' \in BOOLEAN /\ retried' \in BOOLEAN /\ gaveUp' \in BOOLEAN /\ raced' \in BOOLEAN
          BY <1>1, <3>1
        <4>2. remaining' \in 0 .. 4 /\ queries' \in Seq(LayerNames) /\ Len(queries') = 0
              /\ Len(queries') <= remaining'
          BY <1>1, <2>1, <3>1
        <4>3. \A i \in 1 .. Len(queries') : Place(queries'[i]) = 4 - Len(queries') + i
          BY <4>2
        <4> QED
          BY <1>10, <4>1, <4>2, <4>3 DEF TopoTypes
      <3>3. TopoReplies'
        <4>1. 5 - remaining' .. 4 - Len(queries') = {}
          BY <2>1, <3>1
        <4> QED
          BY <2>3, <4>1 DEF TopoReplies
      <3>4. TopoSound'
        <4>1. SUFFICES ASSUME ~raced PROVE Chain(topology, stream, 0, server)'
          BY <3>1 DEF TopoSound
        <4>2. Len(queries) # 4
          BY <2>1
        <4>3. PICK b, r : Consonant(b, r)
          BY <1>8, <4>1, <4>2 DEF TopoInv, TopoSound
        <4>4. r \in 1 .. n /\ b \in Topologies /\ Chain(b, s, r - 1, server)
              /\ g = Collected(b, 5 - remaining)
          BY <1>9, <2>4, <4>3
        <4>5. r = 1
          <5>1. IsAnswer(stream, r)
            BY <4>3, <4>4 DEF Consonant
          <5> QED
            BY <2>2, <4>4, <5>1
        <4>6. g = b
          <5>1. 5 - remaining = 4
            BY <2>1
          <5> QED
            BY <4>4, <5>1, CollectedAll
        <4>7. Chain(g, s, 0, server)
          <5>1. r - 1 = 0
            BY <4>5
          <5> QED
            BY <4>4, <4>6, <5>1
        <4>8. Chain(topology', stream', 0, server')
          BY <1>2, <3>1, <4>7
        <4> QED
          BY <4>8 DEF Chain, IsAnswer
      <3>5. TopoFresh'
        BY <2>1, <3>1 DEF TopoFresh
      <3> QED
        BY <3>2, <3>3, <3>4, <3>5 DEF TopoInv
    <2>5. CASE ~(~bad /\ Topo!Valid(g)) /\ ~retried
      <3>1. Topo!Request /\ retried' = TRUE /\ gaveUp' = gaveUp
        BY <1>2, <1>12, <2>5 DEF Topo!Replied, bad, g
      <3>2. retried' \in BOOLEAN /\ gaveUp' \in BOOLEAN /\ raced' \in BOOLEAN
        BY <1>1, <1>2, <3>1
      <3> QED
        BY <1>10, <2>1, <2>3, <3>1, <3>2, RequestSent
    <2>6. CASE ~(~bad /\ Topo!Valid(g)) /\ retried
      <3>1. /\ remaining' = 0 /\ gaveUp' = TRUE /\ failed' = FALSE
            /\ queries' = queries /\ retried' = retried /\ raced' = raced
        BY <1>2, <1>12, <2>6 DEF Topo!Replied, bad, g
      <3>2. TopoTypes'
        <4>1. failed' \in BOOLEAN /\ retried' \in BOOLEAN /\ gaveUp' \in BOOLEAN /\ raced' \in BOOLEAN
          BY <1>1, <3>1
        <4>2. remaining' \in 0 .. 4 /\ queries' \in Seq(LayerNames) /\ Len(queries') = 0
              /\ Len(queries') <= remaining'
          BY <1>1, <2>1, <3>1
        <4>3. \A i \in 1 .. Len(queries') : Place(queries'[i]) = 4 - Len(queries') + i
          BY <4>2
        <4> QED
          BY <1>10, <4>1, <4>2, <4>3 DEF TopoTypes
      <3>3. TopoReplies'
        <4>1. 5 - remaining' .. 4 - Len(queries') = {}
          BY <2>1, <3>1
        <4> QED
          BY <2>3, <4>1 DEF TopoReplies
      <3>4. TopoSound'
        BY <3>1 DEF TopoSound
      <3>5. TopoFresh'
        BY <2>1, <3>1 DEF TopoFresh
      <3> QED
        BY <3>2, <3>3, <3>4, <3>5 DEF TopoInv
    <2> QED
      BY <2>4, <2>5, <2>6
  <1> QED
    BY <1>11, <1>12

LEMMA TopoInitial ==
    ASSUME Topo!Init
    PROVE  TopoInv
  <1> DEFINE L == <<"S", "W", "P", "A">>
  <1>1. server \in Topologies /\ Consistent(server)
    <2> DEFINE e == Topo!Empty
    <2>1. server = [e EXCEPT !.sess = {1}, !.att = 1, !.win = {1}, !.link[1] = 1, !.act[1] = 1,
                             !.pane[1] = 1, !.ap[1] = 1]
      BY DEF Topo!Init
    <2>2. e \in Topologies /\ \A p \in Panes : e.pane[p] = 0
      BY DEF Topo!Empty, Topologies
    <2>3. 1 \in Sessions /\ 1 \in Windows /\ 1 \in Panes
      BY TopologyAssumption
    <2> HIDE DEF e
    <2>4. server \in Topologies
      BY <2>1, <2>2, <2>3 DEF Topologies
    <2>5. /\ server.sess = {1} /\ server.att = 1 /\ server.win = {1} /\ server.link[1] = 1
          /\ \A p \in Panes : server.pane[p] = IF p = 1 THEN 1 ELSE 0
      BY <2>1, <2>2, <2>3 DEF Topologies
    <2> QED
      BY <2>4, <2>5 DEF Consistent
  <1>2. /\ stream = <<>> /\ queries = L /\ remaining = 4 /\ got = Topo!Empty
        /\ failed = FALSE /\ raced = FALSE /\ retried = FALSE /\ gaveUp = FALSE
    BY DEF Topo!Init, Topo!Layers
  <1>3. L \in Seq(LayerNames) /\ Len(L) = 4 /\ \A i \in 1 .. 4 : Place(L[i]) = 4 - 4 + i
    BY DEF Place, LayerNames
  <1>4. stream \in Seq(Records) /\ Len(stream) = 0
    BY <1>2
  <1> HIDE DEF L
  <1>5. TopoTypes
    <2>1. failed \in BOOLEAN /\ raced \in BOOLEAN /\ retried \in BOOLEAN /\ gaveUp \in BOOLEAN
      BY <1>2
    <2>2. remaining \in 0 .. 4 /\ queries \in Seq(LayerNames) /\ Len(queries) <= remaining
      BY <1>2, <1>3
    <2>3. \A i \in 1 .. Len(queries) : Place(queries[i]) = 4 - Len(queries) + i
      BY <1>2, <1>3
    <2> QED
      BY <1>1, <1>4, <2>1, <2>2, <2>3 DEF TopoTypes
  <1>6. TopoReplies
    BY <1>2, <1>3, <1>4 DEF TopoReplies
  <1>7. TopoFresh /\ TopoSound
    BY <1>2, <1>3 DEF TopoFresh, TopoSound
  <1> QED
    BY <1>5, <1>6, <1>7 DEF TopoInv

LEMMA TopoStep ==
    ASSUME TopoInv, [Topo!Next]_(Topo!topoVars)
    PROVE  TopoInv'
  <1>1. CASE UNCHANGED Topo!topoVars
    <2>1. TopoTypes' /\ TopoReplies'
      BY <1>1 DEF Topo!topoVars, TopoInv, TopoTypes, TopoReplies, Consistent, IsAnswer
    <2>2. TopoFresh'
      BY <1>1 DEF Topo!topoVars, TopoInv, TopoFresh, Topo!Empty
    <2>3. TopoSound'
      <3>1. /\ raced' = raced /\ remaining' = remaining /\ gaveUp' = gaveUp /\ queries' = queries
            /\ topology' = topology /\ stream' = stream /\ server' = server
            /\ failed' = failed /\ got' = got
        BY <1>1 DEF Topo!topoVars
      <3>2. \A b, r : Consonant(b, r) => Consonant(b, r)'
        BY <3>1 DEF Consonant, Collected, Topo!Empty, Chain, IsAnswer
      <3>3. Chain(topology, stream, 0, server) => Chain(topology, stream, 0, server)'
        BY <3>1 DEF Chain, IsAnswer
      <3> QED
        BY <3>1, <3>2, <3>3 DEF TopoInv, TopoSound
    <2> QED
      BY <2>1, <2>2, <2>3 DEF TopoInv
  <1>2. CASE Topo!ProcessControl
    BY <1>2, AnswerKeeps, NoticeKeeps
  <1>3. CASE \E ok \in BOOLEAN : Topo!Execute(ok)
    BY <1>3, ExecuteKeeps
  <1>4. CASE \E s \in Sessions, w \in Windows, p \in Panes :
                Topo!NewWindow(s, w, p) \/ Topo!NewSession(s, w, p)
    BY <1>4, NewWindowHeard, HeardKeeps DEF TopoInv
  <1>5. CASE \E w, v \in Windows : Topo!KillWindow(w, v)
    BY <1>5, KillWindowHeard, HeardKeeps DEF TopoInv
  <1>6. CASE \E w \in Windows, p \in Panes : Topo!SplitWindow(w, p)
    BY <1>6, SplitHeard, HeardKeeps DEF TopoInv
  <1>7. CASE \E p, q \in Panes, told \in BOOLEAN : Topo!KillPane(p, q, told)
    BY <1>7, KillPaneHeard, HeardKeeps DEF TopoInv
  <1>8. CASE Topo!Select
    BY <1>8, SelectHeard, HeardKeeps DEF TopoInv
  <1> QED
    BY <1>1, <1>2, <1>3, <1>4, <1>5, <1>6, <1>7, <1>8 DEF Topo!Next

\* When everything tmux said has been read and answered, Lector knows exactly the
\* sessions, windows and panes there are and which are active, whatever changed before
\* an inventory, while its replies were read and after it, and however inventories
\* failed; only a change between two commands of the last one is exempt (tmux_model.rs,
\* process_tmux_control).
THEOREM TopologySettles == Topo!Spec => []SettledIsExact
  <1>1. TopoInv => SettledIsExact
    <2>1. SUFFICES ASSUME TopoInv, Topo!Settled, ~raced, ~gaveUp PROVE topology = server
      BY DEF SettledIsExact, Topo!SettledIsExact
    <2>2. stream = <<>> /\ remaining = 0
      BY <2>1 DEF Topo!Settled
    <2>3. Chain(topology, stream, 0, server)
      BY <2>1, <2>2 DEF TopoInv, TopoSound
    <2>4. PICK h, m : Follows(h, m, topology, stream, 0, server)
      BY <2>3 DEF Chain
    <2>5. Len(stream) = 0 /\ m = 0
      BY <2>2, <2>4 DEF Follows
    <2> QED
      BY <2>4, <2>5 DEF Follows
  <1> QED
    BY <1>1, TopoInitial, TopoStep, PTL DEF Topo!Spec

-----------------------------------------------------------------------------
(* The prefix keys: what waits to be carried out, in the order pressed.    *)

States == [table : {"root", "off"}, active : KeyPanes, alive : SUBSET KeyPanes]
Kinds == {"input", "select", "off", "root", "extra", "kill", "select-pane", "inventory"}
KeyNames == Keys \cup {"p"}
Commands == [kind : Kinds, pane : KeyPanes \cup {0}, keys : Seq(KeyNames), numbers : Seq(Nat)]
Answers == [kind : Kinds \cup {"notice"}, ok : BOOLEAN, state : States]

Rising(s) == \A i, j \in 1 .. Len(s) : i < j => s[i] < s[j]
UpTo(s, n) == \A i \in 1 .. Len(s) : s[i] <= n
Before(s, t) == \A i \in 1 .. Len(s), j \in 1 .. Len(t) : s[i] < t[j]

\* An input has one number for each of its keys.
Pairs(q) == \A i \in 1 .. Len(q) : q[i].kind = "input" => Len(q[i].keys) = Len(q[i].numbers)

KeyTypes ==
    /\ knownKeys \in States /\ keyServer \in States
    /\ inventory \in BOOLEAN /\ discarded \in BOOLEAN
    /\ acts \in Nat /\ done \in Seq(Nat)
    /\ queue \in Seq(Commands) /\ sent \in Seq(Commands) /\ replies \in Seq(Answers)
    /\ Pairs(queue)

\* The commands of q are each in order, and in order among themselves.
InLine(q) ==
    /\ \A i \in 1 .. Len(q) : Rising(q[i].numbers)
    /\ \A i, j \in 1 .. Len(q) : i < j => Before(q[i].numbers, q[j].numbers)

KeyOrder ==
    /\ Rising(done) /\ UpTo(done, acts)
    /\ InLine(sent) /\ \A i \in 1 .. Len(sent) : UpTo(sent[i].numbers, acts)
    /\ InLine(queue) /\ \A i \in 1 .. Len(queue) : UpTo(queue[i].numbers, acts)
    /\ \A i \in 1 .. Len(sent) : Before(done, sent[i].numbers)
    /\ \A i \in 1 .. Len(queue) : Before(done, queue[i].numbers)
    /\ \A i \in 1 .. Len(sent), j \in 1 .. Len(queue) : Before(sent[i].numbers, queue[j].numbers)

\* Commands that change the key table, or ask for what the server has.
Changes == {"off", "root"}
Has(q, S) == \E i \in 1 .. Len(q) : q[i].kind \in S
OnItsWay(S) == Has(queue, S) \/ Has(sent, S) \/ Has(replies, S)

\* What Lector plays is the server's, or something on its way will bring it.
KeyTables ==
    /\ \A i \in 1 .. Len(replies) : replies[i].kind = "inventory" =>
          \/ replies[i].state.table = keyServer.table
          \/ \E j \in i + 1 .. Len(replies) : replies[j].kind \in Changes
    /\ knownKeys.table = keyServer.table \/ inventory \/ Has(replies, Changes)
    /\ ~discarded => override = "-" \/ inventory \/ OnItsWay(Changes)
    /\ ~discarded /\ inventory => OnItsWay({"inventory"})

KeyInv == KeyTypes /\ KeyOrder /\ KeyTables

-----------------------------------------------------------------------------
(* Sequences of commands.                                                  *)

LEMMA TailOf ==
    ASSUME NEW S, NEW q \in Seq(S), q # <<>>
    PROVE  /\ Tail(q) \in Seq(S) /\ Len(q) \in Nat \ {0} /\ Len(Tail(q)) = Len(q) - 1
           /\ \A i \in 1 .. Len(q) - 1 : Tail(q)[i] = q[i + 1] /\ i + 1 \in 1 .. Len(q)
           /\ Head(q) = q[1] /\ q[1] \in S /\ 1 \in 1 .. Len(q)
  OBVIOUS

LEMMA AppendedTo ==
    ASSUME NEW S, NEW q \in Seq(S), NEW e \in S
    PROVE  /\ Append(q, e) \in Seq(S) /\ Len(q) \in Nat /\ Len(Append(q, e)) = Len(q) + 1
           /\ \A i \in 1 .. Len(q) : Append(q, e)[i] = q[i]
           /\ Append(q, e)[Len(q) + 1] = e
  OBVIOUS

LEMMA Joined ==
    ASSUME NEW S, NEW q \in Seq(S), NEW r \in Seq(S)
    PROVE  /\ q \o r \in Seq(S) /\ Len(q) \in Nat /\ Len(r) \in Nat
           /\ Len(q \o r) = Len(q) + Len(r)
           /\ \A i \in 1 .. Len(q) : (q \o r)[i] = q[i]
           /\ \A i \in 1 .. Len(r) : (q \o r)[Len(q) + i] = r[i]
           /\ \A i \in 1 .. Len(q \o r) : i \in 1 .. Len(q) \/ (i - Len(q) \in 1 .. Len(r) /\ Len(q) + (i - Len(q)) = i)
  OBVIOUS

\* Two numbers of a sequence that rises up to another.
LEMMA RisingJoins ==
    ASSUME NEW s \in Seq(Nat), NEW t \in Seq(Nat), Rising(s), Rising(t), Before(s, t)
    PROVE  s \o t \in Seq(Nat) /\ Rising(s \o t)
  <1>1. /\ s \o t \in Seq(Nat) /\ Len(s) \in Nat /\ Len(t) \in Nat
        /\ Len(s \o t) = Len(s) + Len(t)
        /\ \A i \in 1 .. Len(s) : (s \o t)[i] = s[i]
        /\ \A i \in 1 .. Len(t) : (s \o t)[Len(s) + i] = t[i]
        /\ \A i \in 1 .. Len(s \o t) :
              i \in 1 .. Len(s) \/ (i - Len(s) \in 1 .. Len(t) /\ Len(s) + (i - Len(s)) = i)
    BY Joined
  <1> DEFINE u == s \o t
             n == Len(s)
             m == Len(t)
  <1>2. /\ n \in Nat /\ m \in Nat
        /\ \A i \in 1 .. n : u[i] = s[i]
        /\ \A i \in 1 .. m : u[n + i] = t[i]
        /\ \A i \in 1 .. Len(u) : i \in 1 .. n \/ (i - n \in 1 .. m /\ n + (i - n) = i)
    BY <1>1
  <1>3. /\ \A i, j \in 1 .. n : i < j => s[i] < s[j]
        /\ \A i, j \in 1 .. m : i < j => t[i] < t[j]
        /\ \A i \in 1 .. n, j \in 1 .. m : s[i] < t[j]
    BY DEF Rising, Before
  <1> HIDE DEF u, n, m
  <1>4. SUFFICES ASSUME NEW i \in 1 .. Len(u), NEW j \in 1 .. Len(u), i < j PROVE u[i] < u[j]
    BY <1>1 DEF Rising, u
  <1>5. CASE j \in 1 .. n
    <2>1. i \in 1 .. n
      BY <1>2, <1>4, <1>5
    <2> QED
      BY <1>2, <1>3, <1>4, <1>5, <2>1
  <1>6. CASE j \notin 1 .. n /\ i \in 1 .. n
    <2>1. j - n \in 1 .. m /\ u[j] = t[j - n]
      BY <1>2, <1>6
    <2> QED
      BY <1>2, <1>3, <1>6, <2>1
  <1>7. CASE j \notin 1 .. n /\ i \notin 1 .. n
    <2>1. j - n \in 1 .. m /\ u[j] = t[j - n] /\ i - n \in 1 .. m /\ u[i] = t[i - n]
      BY <1>2, <1>7
    <2>2. i - n < j - n
      BY <1>2, <1>4
    <2> QED
      BY <1>3, <2>1, <2>2
  <1> QED
    BY <1>5, <1>6, <1>7

\* The pieces of a command.
LEMMA Multiples ==
    ASSUME NEW c \in Nat \ {0}, NEW i \in Nat \ {0}
    PROVE  /\ i * c \in Nat /\ (i - 1) * c \in Nat /\ i * c = (i - 1) * c + c
           /\ \A j \in Nat \ {0} : i < j => i * c <= (j - 1) * c
  <1>1. i * c \in Nat /\ (i - 1) * c \in Nat /\ i * c = (i - 1) * c + c
    OBVIOUS
  <1>2. ASSUME NEW j \in Nat \ {0}, i < j PROVE i * c <= (j - 1) * c
    <2> DEFINE d == (j - 1) - i
    <2>1. d \in Nat /\ j - 1 = i + d
      BY <1>2
    <2> HIDE DEF d
    <2>2. d * c \in Nat /\ (i + d) * c = i * c + d * c
      BY <2>1
    <2> QED
      BY <1>1, <2>1, <2>2
  <1> QED
    BY <1>1, <1>2

LEMMA PieceOf ==
    ASSUME NEW S, NEW s \in Seq(S), NEW a \in Nat \ {0}, NEW b \in Nat, b <= Len(s)
    PROVE  /\ SubSeq(s, a, b) \in Seq(S)
           /\ Len(SubSeq(s, a, b)) = IF a <= b THEN b - a + 1 ELSE 0
           /\ \A k \in 1 .. Len(SubSeq(s, a, b)) :
                 /\ a + (k - 1) \in a .. b /\ a + (k - 1) \in 1 .. Len(s)
                 /\ SubSeq(s, a, b)[k] = s[a + (k - 1)]
  <1>1. Len(s) \in Nat /\ a \in Int /\ b \in Int
    OBVIOUS
  <1>2. \A k \in a .. b : s[k] \in S
    BY <1>1
  <1>3. /\ SubSeq(s, a, b) \in Seq(S)
        /\ Len(SubSeq(s, a, b)) = IF a <= b THEN b - a + 1 ELSE 0
        /\ \A k \in 1 .. b - a + 1 : SubSeq(s, a, b)[k] = s[a + k - 1]
    BY <1>1, <1>2, SubSeqProperties
  <1>4. ASSUME NEW k \in 1 .. Len(SubSeq(s, a, b))
        PROVE  /\ k \in 1 .. b - a + 1 /\ a + (k - 1) = a + k - 1
               /\ a + (k - 1) \in a .. b /\ a + (k - 1) \in 1 .. Len(s)
    BY <1>1, <1>3
  <1> QED
    BY <1>3, <1>4

-----------------------------------------------------------------------------
(* The queue.                                                              *)

\* An entry joins the queue at its end, or the input that is its last entry.
Adds(old, q, e) ==
    \/ q = Append(old, e)
    \/ /\ q \in Seq(Commands) /\ Len(q) = Len(old) /\ Len(old) \in Nat \ {0}
       /\ \A i \in 1 .. Len(old) - 1 : q[i] = old[i]
       /\ e.kind = "input" /\ old[Len(old)].kind = "input" /\ q[Len(old)].kind = "input"
       /\ q[Len(old)].keys = old[Len(old)].keys \o e.keys
       /\ q[Len(old)].numbers = old[Len(old)].numbers \o e.numbers

LEMMA CommandFields ==
    ASSUME NEW c \in Commands
    PROVE  /\ c.kind \in Kinds /\ c.pane \in KeyPanes \cup {0}
           /\ c.keys \in Seq(KeyNames) /\ Len(c.keys) \in Nat
           /\ c.numbers \in Seq(Nat) /\ Len(c.numbers) \in Nat
           /\ \A a \in 1 .. Len(c.numbers) : c.numbers[a] \in Nat
  <1>1. c.kind \in Kinds /\ c.pane \in KeyPanes \cup {0} /\ c.keys \in Seq(KeyNames) /\ c.numbers \in Seq(Nat)
    BY DEF Commands
  <1> QED
    BY <1>1

LEMMA QueuedAdds ==
    ASSUME queue \in Seq(Commands), NEW e \in Commands
    PROVE  Adds(queue, Prefix!Queued(e), e)
  <1> DEFINE n == Len(queue)
  <1>1. CASE e.kind = "input" /\ queue # <<>> /\ Last(queue).kind = "input" /\ Last(queue).pane = e.pane
    <2>1. n \in Nat \ {0} /\ n \in 1 .. Len(queue) /\ queue[n] \in Commands /\ Last(queue) = queue[n]
      BY <1>1 DEF Last
    <2>9. PICK r : r = [[queue[n] EXCEPT !.keys = @ \o e.keys] EXCEPT !.numbers = @ \o e.numbers]
      OBVIOUS
    <2> DEFINE q == [queue EXCEPT ![n] = r]
    <2>2. Prefix!Queued(e) = Prefix!Join(n, e)
      BY <1>1 DEF Prefix!Queued, Prefix!Last, Last
    <2>3. Prefix!Join(n, e) = [[queue EXCEPT ![n].keys = @ \o e.keys] EXCEPT ![n].numbers = @ \o e.numbers]
      BY DEF Prefix!Join
    <2>4. Prefix!Join(n, e) = q
      BY <2>1, <2>3, <2>9
    <2>5. /\ r \in Commands /\ r.kind = queue[n].kind /\ r.keys = queue[n].keys \o e.keys
          /\ r.numbers = queue[n].numbers \o e.numbers
      <3>1. /\ queue[n].keys \o e.keys \in Seq(KeyNames)
            /\ queue[n].numbers \o e.numbers \in Seq(Nat)
        <4>1. /\ queue[n].keys \in Seq(KeyNames) /\ e.keys \in Seq(KeyNames)
              /\ queue[n].numbers \in Seq(Nat) /\ e.numbers \in Seq(Nat)
          BY <2>1, CommandFields
        <4> QED
          BY <4>1
      <3>2. PICK c \in Commands, ks \in Seq(KeyNames), ns \in Seq(Nat) :
               c = queue[n] /\ ks = queue[n].keys \o e.keys /\ ns = queue[n].numbers \o e.numbers
        BY <2>1, <3>1
      <3>3. r = [[c EXCEPT !.keys = ks] EXCEPT !.numbers = ns]
        BY <2>9, <3>2 DEF Commands
      <3>4. r = [kind |-> c.kind, pane |-> c.pane, keys |-> ks, numbers |-> ns]
        BY <3>3 DEF Commands
      <3>5. c.kind \in Kinds /\ c.pane \in KeyPanes \cup {0}
        BY CommandFields
      <3>6. r \in Commands
        BY <3>4, <3>5 DEF Commands
      <3> QED
        BY <3>2, <3>4, <3>6
    <2>6. q \in Seq(Commands) /\ Len(q) = n /\ q[n] = r /\ \A i \in 1 .. n - 1 : q[i] = queue[i]
      BY <2>1, <2>5
    <2> QED
      BY <1>1, <2>1, <2>2, <2>4, <2>5, <2>6 DEF Adds
  <1>2. CASE ~(e.kind = "input" /\ queue # <<>> /\ Last(queue).kind = "input" /\ Last(queue).pane = e.pane)
    <2>1. Prefix!Queued(e) = Append(queue, e)
      BY <1>2 DEF Prefix!Queued, Prefix!Last, Last
    <2> QED
      BY <2>1 DEF Adds
  <1> QED
    BY <1>1, <1>2

LEMMA AddsTypes ==
    ASSUME NEW old \in Seq(Commands), NEW q, NEW e \in Commands, Adds(old, q, e), Pairs(old),
           e.kind = "input" => Len(e.keys) = Len(e.numbers)
    PROVE  q \in Seq(Commands) /\ Pairs(q)
  <1> DEFINE n == Len(old)
  <1>1. CASE q = Append(old, e)
    <2>1. /\ q \in Seq(Commands) /\ n \in Nat /\ Len(q) = n + 1
          /\ \A i \in 1 .. n : q[i] = old[i]
          /\ q[n + 1] = e
      BY <1>1, AppendedTo
    <2> QED
      BY <2>1 DEF Pairs
  <1>2. CASE q # Append(old, e)
    <2>1. /\ q \in Seq(Commands) /\ Len(q) = n /\ n \in Nat \ {0}
          /\ \A i \in 1 .. n - 1 : q[i] = old[i]
          /\ e.kind = "input" /\ old[n].kind = "input"
          /\ q[n].keys = old[n].keys \o e.keys
          /\ q[n].numbers = old[n].numbers \o e.numbers
      BY <1>2 DEF Adds
    <2>2. /\ old[n].keys \in Seq(KeyNames) /\ e.keys \in Seq(KeyNames)
          /\ old[n].numbers \in Seq(Nat) /\ e.numbers \in Seq(Nat)
      <3>1. old[n] \in Commands
        BY <2>1
      <3> QED
        BY <3>1, CommandFields
    <2>3. Len(old[n].keys) = Len(old[n].numbers) /\ Len(e.keys) = Len(e.numbers)
      BY <2>1 DEF Pairs
    <2>4. Len(q[n].keys) = Len(q[n].numbers)
      <3>1. /\ Len(old[n].keys \o e.keys) = Len(old[n].keys) + Len(e.keys)
            /\ Len(old[n].numbers \o e.numbers) = Len(old[n].numbers) + Len(e.numbers)
        BY <2>2
      <3> QED
        BY <2>1, <2>3, <3>1
    <2>5. ASSUME NEW i \in 1 .. n, q[i].kind = "input" PROVE Len(q[i].keys) = Len(q[i].numbers)
      <3>1. CASE i = n
        BY <2>4, <3>1
      <3>2. CASE i # n
        <4>1. i \in 1 .. n - 1 /\ q[i] = old[i]
          BY <2>1, <3>2
        <4> QED
          BY <2>5, <4>1 DEF Pairs
      <3> QED
        BY <3>1, <3>2
    <2> QED
      BY <2>1, <2>5 DEF Pairs
  <1> QED
    BY <1>1, <1>2

\* What the numbers of the queue become: those there were, and the new one last.
Numbered(old, q, n) ==
    \A i \in 1 .. Len(q) :
        /\ \A a \in 1 .. Len(q[i].numbers) :
              \/ q[i].numbers[a] = n + 1 /\ a = Len(q[i].numbers) /\ i = Len(q)
              \/ /\ i \in 1 .. Len(old) /\ a \in 1 .. Len(old[i].numbers)
                 /\ q[i].numbers[a] = old[i].numbers[a]
        /\ q[i].numbers \in Seq(Nat) /\ Len(q[i].numbers) \in Nat

LEMMA AddsNumbers ==
    ASSUME NEW old \in Seq(Commands), NEW q \in Seq(Commands), NEW e \in Commands, Adds(old, q, e),
           NEW n \in Nat, e.numbers = <<n + 1>>
    PROVE  Numbered(old, q, n)
  <1> SUFFICES ASSUME NEW i \in 1 .. Len(q)
               PROVE  /\ \A a \in 1 .. Len(q[i].numbers) :
                            \/ q[i].numbers[a] = n + 1 /\ a = Len(q[i].numbers) /\ i = Len(q)
                            \/ /\ i \in 1 .. Len(old) /\ a \in 1 .. Len(old[i].numbers)
                               /\ q[i].numbers[a] = old[i].numbers[a]
                      /\ q[i].numbers \in Seq(Nat) /\ Len(q[i].numbers) \in Nat
    BY DEF Numbered
  <1> DEFINE l == Len(old)
  <1>1. e.numbers \in Seq(Nat) /\ Len(e.numbers) = 1 /\ e.numbers[1] = n + 1
    OBVIOUS
  <1>2. q[i] \in Commands
    OBVIOUS
  <1>3. q[i].numbers \in Seq(Nat) /\ Len(q[i].numbers) \in Nat
    BY <1>2 DEF Commands
  <1>4. CASE q = Append(old, e)
    <2>1. /\ l \in Nat /\ Len(q) = l + 1
          /\ \A j \in 1 .. l : q[j] = old[j]
          /\ q[l + 1] = e
      BY <1>4, AppendedTo
    <2>2. CASE i = l + 1
      <3>1. q[i] = e /\ i = Len(q)
        BY <2>1, <2>2
      <3>2. \A a \in 1 .. Len(q[i].numbers) : a = 1
        <4>1. Len(q[i].numbers) = 1
          BY <1>1, <3>1
        <4> QED
          BY <4>1
      <3>3. ASSUME NEW a \in 1 .. Len(q[i].numbers)
            PROVE  q[i].numbers[a] = n + 1 /\ a = Len(q[i].numbers) /\ i = Len(q)
        <4>1. a = 1 /\ q[i].numbers = e.numbers
          BY <3>1, <3>2
        <4> QED
          BY <1>1, <3>1, <4>1
      <3> QED
        BY <1>3, <3>3
    <2>3. CASE i # l + 1
      <3>1. i \in 1 .. l /\ q[i] = old[i]
        BY <2>1, <2>3
      <3> QED
        BY <1>3, <3>1
    <2> QED
      BY <2>2, <2>3
  <1>5. CASE q # Append(old, e)
    <2>1. /\ Len(q) = l /\ l \in Nat \ {0}
          /\ \A j \in 1 .. l - 1 : q[j] = old[j]
          /\ q[l].numbers = old[l].numbers \o e.numbers
      BY <1>5 DEF Adds
    <2>2. CASE i = l
      <3>1. old[l].numbers \in Seq(Nat) /\ Len(old[l].numbers) \in Nat
        <4>1. old[l] \in Commands
          BY <2>1
        <4> QED
          BY <4>1, CommandFields
      <3> DEFINE s == old[l].numbers
                 u == s \o e.numbers
      <3>2. /\ Len(u) = Len(s) + 1 /\ u[Len(s) + 1] = n + 1
            /\ \A a \in 1 .. Len(s) : u[a] = s[a]
        BY <1>1, <3>1
      <3>3. q[i].numbers = u
        BY <2>1, <2>2
      <3> HIDE DEF u
      <3>4. ASSUME NEW a \in 1 .. Len(q[i].numbers)
            PROVE  \/ q[i].numbers[a] = n + 1 /\ a = Len(q[i].numbers) /\ i = Len(q)
                   \/ /\ i \in 1 .. Len(old) /\ a \in 1 .. Len(old[i].numbers)
                      /\ q[i].numbers[a] = old[i].numbers[a]
        <4>1. a \in 1 .. Len(s) \/ a = Len(s) + 1
          BY <3>1, <3>2, <3>3, <3>4
        <4> QED
          BY <2>1, <2>2, <3>2, <3>3, <4>1
      <3> QED
        BY <1>3, <3>4
    <2>3. CASE i # l
      <3>1. i \in 1 .. l /\ q[i] = old[i]
        BY <2>1, <2>3
      <3> QED
        BY <1>3, <3>1
    <2> QED
      BY <2>2, <2>3
  <1> QED
    BY <1>4, <1>5

LEMMA NumberOf ==
    ASSUME NEW old, NEW q, NEW n, Numbered(old, q, n),
           NEW i \in 1 .. Len(q), NEW a \in 1 .. Len(q[i].numbers)
    PROVE  \/ q[i].numbers[a] = n + 1 /\ a = Len(q[i].numbers) /\ i = Len(q)
           \/ /\ i \in 1 .. Len(old) /\ a \in 1 .. Len(old[i].numbers)
              /\ q[i].numbers[a] = old[i].numbers[a]
  BY DEF Numbered

LEMMA BelowNext ==
    ASSUME NEW n \in Nat, NEW x \in Nat, x <= n, NEW y, y = n + 1
    PROVE  x < y
  OBVIOUS

LEMMA AddsInLine ==
    ASSUME NEW old \in Seq(Commands), NEW q \in Seq(Commands), NEW e \in Commands, Adds(old, q, e),
           NEW n \in Nat, e.numbers = <<n + 1>>,
           InLine(old), \A i \in 1 .. Len(old) : UpTo(old[i].numbers, n)
    PROVE  InLine(q) /\ \A i \in 1 .. Len(q) : UpTo(q[i].numbers, n + 1)
  <1>0. Numbered(old, q, n)
    BY AddsNumbers
  <1>1. \A i \in 1 .. Len(q) :
           /\ \A a \in 1 .. Len(q[i].numbers) :
                 \/ q[i].numbers[a] = n + 1 /\ a = Len(q[i].numbers) /\ i = Len(q)
                 \/ /\ i \in 1 .. Len(old) /\ a \in 1 .. Len(old[i].numbers)
                    /\ q[i].numbers[a] = old[i].numbers[a]
           /\ q[i].numbers \in Seq(Nat) /\ Len(q[i].numbers) \in Nat
    BY <1>0 DEF Numbered
  <1>2. \A i \in 1 .. Len(old) : \A a \in 1 .. Len(old[i].numbers) :
           old[i].numbers[a] <= n /\ old[i].numbers[a] \in Nat
    <2>1. TAKE i \in 1 .. Len(old)
    <2>2. old[i] \in Commands /\ UpTo(old[i].numbers, n)
      OBVIOUS
    <2> QED
      BY <2>2, CommandFields DEF UpTo
  <1>3. ASSUME NEW i \in 1 .. Len(q), NEW a \in 1 .. Len(q[i].numbers)
        PROVE  q[i].numbers[a] <= n + 1
    <2>1. CASE q[i].numbers[a] = n + 1
      BY <2>1
    <2>2. CASE q[i].numbers[a] # n + 1
      <3>1. /\ i \in 1 .. Len(old) /\ a \in 1 .. Len(old[i].numbers)
            /\ q[i].numbers[a] = old[i].numbers[a]
        BY <1>1, <2>2
      <3> QED
        BY <1>2, <3>1
    <2> QED
      BY <2>1, <2>2
  <1>4. ASSUME NEW i \in 1 .. Len(q), NEW a \in 1 .. Len(q[i].numbers),
               NEW b \in 1 .. Len(q[i].numbers), a < b
        PROVE  q[i].numbers[a] < q[i].numbers[b]
    <2>1. a # Len(q[i].numbers)
      BY <1>1, <1>4
    <2>2. /\ i \in 1 .. Len(old) /\ a \in 1 .. Len(old[i].numbers)
          /\ q[i].numbers[a] = old[i].numbers[a]
      BY <1>1, <2>1
    <2>3. CASE q[i].numbers[b] = n + 1
      BY <1>2, <2>2, <2>3
    <2>4. CASE q[i].numbers[b] # n + 1
      <3>1. b \in 1 .. Len(old[i].numbers) /\ q[i].numbers[b] = old[i].numbers[b]
        BY <1>1, <2>4
      <3>2. old[i].numbers[a] < old[i].numbers[b]
        BY <1>4, <2>2, <3>1 DEF InLine, Rising
      <3> QED
        BY <2>2, <3>1, <3>2
    <2> QED
      BY <2>3, <2>4
  <1>5. ASSUME NEW i \in 1 .. Len(q), NEW j \in 1 .. Len(q), i < j,
               NEW a \in 1 .. Len(q[i].numbers), NEW b \in 1 .. Len(q[j].numbers)
        PROVE  q[i].numbers[a] < q[j].numbers[b]
    <2>1. i # Len(q)
      BY <1>5
    <2>2. /\ i \in 1 .. Len(old) /\ a \in 1 .. Len(old[i].numbers)
          /\ q[i].numbers[a] = old[i].numbers[a]
      <3>1. \/ q[i].numbers[a] = n + 1 /\ a = Len(q[i].numbers) /\ i = Len(q)
            \/ /\ i \in 1 .. Len(old) /\ a \in 1 .. Len(old[i].numbers)
               /\ q[i].numbers[a] = old[i].numbers[a]
        BY <1>0, NumberOf
      <3> QED
        BY <2>1, <3>1
    <2>3. CASE q[j].numbers[b] = n + 1
      <3>1. old[i].numbers[a] <= n /\ old[i].numbers[a] \in Nat
        BY <1>2, <2>2
      <3>2. q[i].numbers[a] <= n /\ q[i].numbers[a] \in Nat
        BY <2>2, <3>1
      <3> QED
        BY <2>3, <3>2, BelowNext
    <2>4. CASE q[j].numbers[b] # n + 1
      <3>1. /\ j \in 1 .. Len(old) /\ b \in 1 .. Len(old[j].numbers)
            /\ q[j].numbers[b] = old[j].numbers[b]
        BY <1>1, <2>4
      <3>2. old[i].numbers[a] < old[j].numbers[b]
        BY <1>5, <2>2, <3>1 DEF InLine, Before
      <3> QED
        BY <2>2, <3>1, <3>2
    <2> QED
      BY <2>3, <2>4
  <1> QED
    BY <1>3, <1>4, <1>5 DEF InLine, UpTo, Rising, Before

\* What came before the queue comes before the new entry.
LEMMA AddsAfter ==
    ASSUME NEW old \in Seq(Commands), NEW q \in Seq(Commands), NEW e \in Commands, Adds(old, q, e),
           NEW n \in Nat, e.numbers = <<n + 1>>,
           NEW s \in Seq(Nat), UpTo(s, n), \A i \in 1 .. Len(old) : Before(s, old[i].numbers)
    PROVE  \A i \in 1 .. Len(q) : Before(s, q[i].numbers)
  <1>1. SUFFICES ASSUME NEW i \in 1 .. Len(q), NEW a \in 1 .. Len(s), NEW b \in 1 .. Len(q[i].numbers)
                 PROVE  s[a] < q[i].numbers[b]
    BY DEF Before
  <1>2. s[a] <= n /\ s[a] \in Nat
    BY DEF UpTo
  <1>3. \/ q[i].numbers[b] = n + 1
        \/ /\ i \in 1 .. Len(old) /\ b \in 1 .. Len(old[i].numbers)
           /\ q[i].numbers[b] = old[i].numbers[b]
    <2>1. Numbered(old, q, n)
      BY AddsNumbers
    <2>2. \/ q[i].numbers[b] = n + 1 /\ b = Len(q[i].numbers) /\ i = Len(q)
          \/ /\ i \in 1 .. Len(old) /\ b \in 1 .. Len(old[i].numbers)
             /\ q[i].numbers[b] = old[i].numbers[b]
      BY <1>1, <2>1, NumberOf
    <2> QED
      BY <2>2
  <1>4. CASE q[i].numbers[b] = n + 1
    BY <1>2, <1>4, BelowNext
  <1>5. CASE q[i].numbers[b] # n + 1
    <2>1. /\ i \in 1 .. Len(old) /\ b \in 1 .. Len(old[i].numbers)
          /\ q[i].numbers[b] = old[i].numbers[b]
      BY <1>3, <1>5
    <2>2. s[a] < old[i].numbers[b]
      <3>1. Before(s, old[i].numbers)
        BY <2>1
      <3> QED
        BY <1>1, <2>1, <3>1 DEF Before
    <2> QED
      BY <2>1, <2>2
  <1> QED
    BY <1>4, <1>5

LEMMA AddsHas ==
    ASSUME NEW old \in Seq(Commands), NEW q, NEW e \in Commands, Adds(old, q, e), NEW S, "input" \notin S
    PROVE  /\ Has(old, S) => Has(q, S)
           /\ e.kind \in S => Has(q, S)
  <1> DEFINE l == Len(old)
  <1>1. CASE q = Append(old, e)
    <2>1. /\ l \in Nat /\ Len(q) = l + 1
          /\ \A j \in 1 .. l : q[j] = old[j]
          /\ q[l + 1] = e
      BY <1>1, AppendedTo
    <2> QED
      BY <2>1 DEF Has
  <1>2. CASE q # Append(old, e)
    <2>1. /\ Len(q) = l /\ l \in Nat \ {0}
          /\ \A j \in 1 .. l - 1 : q[j] = old[j]
          /\ q[l].kind = "input" /\ old[l].kind = "input" /\ e.kind = "input"
      BY <1>2 DEF Adds
    <2>2. \A j \in 1 .. l : q[j].kind = old[j].kind
      BY <2>1
    <2> QED
      BY <2>1, <2>2 DEF Has
  <1> QED
    BY <1>1, <1>2

-----------------------------------------------------------------------------
(* encode_send_keys.                                                       *)

LEMMA EncodedInput ==
    ASSUME NEW c \in Commands, c.kind = "input", Len(c.keys) = Len(c.numbers)
    PROVE  \E n \in Nat :
              /\ Prefix!Encoded(c) \in Seq(Commands) /\ Len(Prefix!Encoded(c)) = n
              /\ \A i \in 1 .. n :
                    /\ Prefix!Encoded(c)[i].kind = "input"
                    /\ Len(Prefix!Encoded(c)[i].keys) = Len(Prefix!Encoded(c)[i].numbers)
                    /\ \A a \in 1 .. Len(Prefix!Encoded(c)[i].numbers) :
                          /\ (i - 1) * Chunk + a \in 1 .. Len(c.numbers)
                          /\ (i - 1) * Chunk + a <= i * Chunk
                          /\ Prefix!Encoded(c)[i].numbers[a] = c.numbers[(i - 1) * Chunk + a]
  <1>1. /\ Chunk \in Nat \ {0} /\ c.keys \in Seq(KeyNames) /\ c.numbers \in Seq(Nat)
        /\ Len(c.keys) \in Nat
    BY KeysAssumption, CommandFields
  <1>2. PICK l \in Nat : l = Len(c.keys) /\ l = Len(c.numbers)
    BY <1>1
  <1>3. PICK m \in Int : m = (l + Chunk - 1) \div Chunk
    BY <1>1
  <1> DEFINE Upto(i) == IF i * Chunk < l THEN i * Chunk ELSE l
             Piece(i) == [[c EXCEPT !.keys = SubSeq(c.keys, (i - 1) * Chunk + 1, Upto(i))]
                             EXCEPT !.numbers = SubSeq(c.numbers, (i - 1) * Chunk + 1, Upto(i))]
             n == IF m < 0 THEN 0 ELSE m
  <1>4. Prefix!Encoded(c) = [i \in 1 .. m |-> Piece(i)]
    BY <1>2, <1>3 DEF Prefix!Encoded
  <1>5. n \in Nat /\ 1 .. m = 1 .. n
    BY <1>3
  <1>6. ASSUME NEW i \in 1 .. n
        PROVE  /\ Piece(i) \in Commands /\ Piece(i).kind = "input"
               /\ Len(Piece(i).keys) = Len(Piece(i).numbers)
               /\ \A a \in 1 .. Len(Piece(i).numbers) :
                     /\ (i - 1) * Chunk + a \in 1 .. Len(c.numbers)
                     /\ (i - 1) * Chunk + a <= i * Chunk
                     /\ Piece(i).numbers[a] = c.numbers[(i - 1) * Chunk + a]
    <2>1. i \in Nat \ {0}
      BY <1>5
    <2>2. PICK f \in Nat, t \in Nat : f = (i - 1) * Chunk /\ t = i * Chunk
      BY <1>1, <2>1, Multiples
    <2>3. PICK e \in Nat : e = IF t < l THEN t ELSE l
      BY <2>2
    <2>4. PICK r : r = Piece(i)
      OBVIOUS
    <2>5. PICK ks, ns : ks = SubSeq(c.keys, f + 1, e) /\ ns = SubSeq(c.numbers, f + 1, e)
      OBVIOUS
    <2>6. r = [kind |-> c.kind, pane |-> c.pane, keys |-> ks, numbers |-> ns]
      <3>1. r = [[c EXCEPT !.keys = ks] EXCEPT !.numbers = ns]
        BY <2>2, <2>3, <2>4, <2>5
      <3> QED
        BY <3>1 DEF Commands
    <2>7. f + 1 \in Nat \ {0} /\ e <= l /\ e <= t
      BY <2>2, <2>3
    <2>8. /\ ks \in Seq(KeyNames)
          /\ Len(ks) = IF f + 1 <= e THEN e - (f + 1) + 1 ELSE 0
      BY <1>1, <1>2, <2>5, <2>7, PieceOf
    <2>9. /\ ns \in Seq(Nat)
          /\ Len(ns) = IF f + 1 <= e THEN e - (f + 1) + 1 ELSE 0
          /\ \A k \in 1 .. Len(ns) :
                /\ (f + 1) + (k - 1) \in f + 1 .. e /\ (f + 1) + (k - 1) \in 1 .. Len(c.numbers)
                /\ ns[k] = c.numbers[(f + 1) + (k - 1)]
      <3>1. c.numbers \in Seq(Nat) /\ f + 1 \in Nat \ {0} /\ e \in Nat /\ e <= Len(c.numbers)
        BY <1>1, <1>2, <2>7
      <3>2. ns = SubSeq(c.numbers, f + 1, e)
        BY <2>5
      <3> HIDE DEF Piece
      <3>3. /\ SubSeq(c.numbers, f + 1, e) \in Seq(Nat)
            /\ Len(SubSeq(c.numbers, f + 1, e)) = IF f + 1 <= e THEN e - (f + 1) + 1 ELSE 0
            /\ \A k \in 1 .. Len(SubSeq(c.numbers, f + 1, e)) :
                  /\ (f + 1) + (k - 1) \in f + 1 .. e /\ (f + 1) + (k - 1) \in 1 .. Len(c.numbers)
                  /\ SubSeq(c.numbers, f + 1, e)[k] = c.numbers[(f + 1) + (k - 1)]
        BY <3>1, PieceOf
      <3> QED
        BY <3>2, <3>3
    <2>10. ASSUME NEW k \in 1 .. Len(ns)
           PROVE  f + k \in 1 .. Len(c.numbers) /\ f + k <= t /\ ns[k] = c.numbers[f + k]
      <3>1. Len(ns) \in Nat
        BY <2>9
      <3>2. k \in Nat /\ (f + 1) + (k - 1) = f + k
        BY <3>1
      <3>3. f + k \in f + 1 .. e /\ f + k \in 1 .. Len(c.numbers) /\ ns[k] = c.numbers[f + k]
        BY <2>9, <3>2
      <3> QED
        BY <2>7, <3>2, <3>3
    <2>11. c.kind \in Kinds /\ c.pane \in KeyPanes \cup {0}
      BY CommandFields
    <2>12. r \in Commands
      BY <2>6, <2>8, <2>9, <2>11 DEF Commands
    <2>13. r.kind = "input" /\ r.keys = ks /\ r.numbers = ns
      BY <2>6
    <2>14. Len(ks) = Len(ns)
      BY <2>8, <2>9
    <2> HIDE DEF Piece
    <2> QED
      BY <2>2, <2>4, <2>10, <2>12, <2>13, <2>14
  <1> HIDE DEF Piece, n
  <1>7. /\ Prefix!Encoded(c) \in Seq(Commands) /\ Len(Prefix!Encoded(c)) = n
        /\ \A i \in 1 .. n : Prefix!Encoded(c)[i] = Piece(i)
    <2>1. PICK q : q = [i \in 1 .. n |-> Piece(i)]
      OBVIOUS
    <2>2. \A i \in 1 .. n : Piece(i) \in Commands
      BY <1>6
    <2>3. q \in Seq(Commands) /\ Len(q) = n /\ \A i \in 1 .. n : q[i] = Piece(i)
      BY <1>5, <2>1, <2>2
    <2> QED
      BY <1>4, <1>5, <2>1, <2>3
  <1> QED
    BY <1>5, <1>6, <1>7

\* The pieces of a command are in the order of its keys.
LEMMA EncodedInLine ==
    ASSUME NEW c \in Commands, c.kind = "input" => Len(c.keys) = Len(c.numbers), Rising(c.numbers)
    PROVE  /\ Prefix!Encoded(c) \in Seq(Commands) /\ InLine(Prefix!Encoded(c))
           /\ \A i \in 1 .. Len(Prefix!Encoded(c)) : \A a \in 1 .. Len(Prefix!Encoded(c)[i].numbers) :
                 \E b \in 1 .. Len(c.numbers) : Prefix!Encoded(c)[i].numbers[a] = c.numbers[b]
           /\ \A S : "input" \notin S /\ c.kind \in S => Has(Prefix!Encoded(c), S)
  <1>1. PICK q : q = Prefix!Encoded(c)
    OBVIOUS
  <1>2. CASE c.kind # "input"
    <2>1. q = <<c>>
      BY <1>1, <1>2 DEF Prefix!Encoded
    <2>2. q \in Seq(Commands) /\ Len(q) = 1 /\ q[1] = c
      BY <2>1
    <2>3. 1 .. Len(q) = {1}
      BY <2>2
    <2>4. InLine(q)
      BY <2>2, <2>3 DEF InLine
    <2>5. \A S : c.kind \in S => Has(q, S)
      BY <2>2, <2>3 DEF Has
    <2> QED
      BY <1>1, <2>2, <2>3, <2>4, <2>5
  <1>3. CASE c.kind = "input"
    <2>1. PICK n \in Nat :
              /\ q \in Seq(Commands) /\ Len(q) = n
              /\ \A i \in 1 .. n :
                    \A a \in 1 .. Len(q[i].numbers) :
                          /\ (i - 1) * Chunk + a \in 1 .. Len(c.numbers)
                          /\ (i - 1) * Chunk + a <= i * Chunk
                          /\ q[i].numbers[a] = c.numbers[(i - 1) * Chunk + a]
      BY <1>1, <1>3, EncodedInput
    <2>2. Chunk \in Nat \ {0} /\ c.numbers \in Seq(Nat) /\ Len(c.numbers) \in Nat
      BY KeysAssumption, CommandFields
    <2>3. \A i \in 1 .. n : q[i].numbers \in Seq(Nat) /\ Len(q[i].numbers) \in Nat
      <3>1. \A i \in 1 .. n : q[i] \in Commands
        BY <2>1
      <3> QED
        BY <3>1, CommandFields
    <2>4. ASSUME NEW i \in 1 .. n, NEW a \in 1 .. Len(q[i].numbers), NEW b \in 1 .. Len(q[i].numbers), a < b
          PROVE  q[i].numbers[a] < q[i].numbers[b]
      <3>1. PICK f \in Nat : f = (i - 1) * Chunk
        BY <2>2, Multiples
      <3>2. /\ f + a \in 1 .. Len(c.numbers) /\ q[i].numbers[a] = c.numbers[f + a]
            /\ f + b \in 1 .. Len(c.numbers) /\ q[i].numbers[b] = c.numbers[f + b]
        BY <2>1, <3>1
      <3>3. f + a < f + b
        BY <2>3, <2>4, <3>1
      <3> QED
        BY <3>2, <3>3 DEF Rising
    <2>5. ASSUME NEW i \in 1 .. n, NEW j \in 1 .. n, i < j,
                 NEW a \in 1 .. Len(q[i].numbers), NEW b \in 1 .. Len(q[j].numbers)
          PROVE  q[i].numbers[a] < q[j].numbers[b]
      <3>1. i \in Nat \ {0} /\ j \in Nat \ {0}
        OBVIOUS
      <3>2. PICK f \in Nat, t \in Nat, g \in Nat :
                f = (i - 1) * Chunk /\ t = i * Chunk /\ g = (j - 1) * Chunk
        BY <2>2, <3>1, Multiples
      <3>3. t <= g
        BY <2>2, <2>5, <3>1, <3>2, Multiples
      <3>4. /\ f + a \in 1 .. Len(c.numbers) /\ q[i].numbers[a] = c.numbers[f + a] /\ f + a <= t
            /\ g + b \in 1 .. Len(c.numbers) /\ q[j].numbers[b] = c.numbers[g + b]
        BY <2>1, <3>2
      <3>5. b \in Nat \ {0}
        BY <2>3
      <3>6. f + a < g + b
        BY <2>2, <3>2, <3>3, <3>4, <3>5
      <3> QED
        BY <3>4, <3>6 DEF Rising
    <2>6. InLine(q)
      BY <2>1, <2>4, <2>5 DEF InLine, Rising, Before
    <2>7. \A i \in 1 .. Len(q) : \A a \in 1 .. Len(q[i].numbers) :
             \E b \in 1 .. Len(c.numbers) : q[i].numbers[a] = c.numbers[b]
      BY <2>1
    <2> QED
      BY <1>1, <1>3, <2>1, <2>6, <2>7
  <1> QED
    BY <1>2, <1>3

-----------------------------------------------------------------------------
(* Commands that leave one end and join the other.                         *)

LEMMA InLineTail ==
    ASSUME NEW q \in Seq(Commands), q # <<>>, InLine(q)
    PROVE  /\ InLine(Tail(q))
           /\ \A i \in 1 .. Len(Tail(q)) : Before(q[1].numbers, Tail(q)[i].numbers)
  <1>1. /\ Len(q) \in Nat \ {0} /\ Len(Tail(q)) = Len(q) - 1
        /\ \A i \in 1 .. Len(q) - 1 : Tail(q)[i] = q[i + 1] /\ i + 1 \in 1 .. Len(q)
        /\ 1 \in 1 .. Len(q)
    BY TailOf
  <1> QED
    BY <1>1 DEF InLine

LEMMA InLineJoins ==
    ASSUME NEW s \in Seq(Commands), NEW t \in Seq(Commands), InLine(s), InLine(t),
           \A i \in 1 .. Len(s), j \in 1 .. Len(t) : Before(s[i].numbers, t[j].numbers)
    PROVE  InLine(s \o t)
  <1>1. PICK u, n, m : u = s \o t /\ n = Len(s) /\ m = Len(t)
    OBVIOUS
  <1>2. /\ n \in Nat /\ m \in Nat /\ Len(u) = n + m
        /\ \A i \in 1 .. n : u[i] = s[i]
        /\ \A i \in 1 .. m : u[n + i] = t[i]
        /\ \A i \in 1 .. Len(u) : i \in 1 .. n \/ (i - n \in 1 .. m /\ n + (i - n) = i)
    BY <1>1, Joined
  <1>3. \A i \in 1 .. n : Rising(s[i].numbers) /\ \A j \in 1 .. m : Before(s[i].numbers, t[j].numbers)
    BY <1>1 DEF InLine
  <1>4. \A i \in 1 .. m : Rising(t[i].numbers)
    BY <1>1 DEF InLine
  <1>5. ASSUME NEW i \in 1 .. Len(u) PROVE Rising(u[i].numbers)
    <2>1. CASE i \in 1 .. n
      BY <1>2, <1>3, <2>1
    <2>2. CASE i \notin 1 .. n
      <3>1. i - n \in 1 .. m /\ u[i] = t[i - n]
        BY <1>2, <2>2
      <3> QED
        BY <1>4, <3>1
    <2> QED
      BY <2>1, <2>2
  <1>6. ASSUME NEW i \in 1 .. Len(u), NEW j \in 1 .. Len(u), i < j
        PROVE  Before(u[i].numbers, u[j].numbers)
    <2>1. CASE j \in 1 .. n
      <3>1. i \in 1 .. n
        BY <1>2, <1>6, <2>1
      <3> QED
        BY <1>1, <1>2, <1>6, <2>1, <3>1 DEF InLine
    <2>2. CASE j \notin 1 .. n /\ i \in 1 .. n
      <3>1. j - n \in 1 .. m /\ u[j] = t[j - n]
        BY <1>2, <2>2
      <3> QED
        BY <1>2, <1>3, <2>2, <3>1
    <2>3. CASE j \notin 1 .. n /\ i \notin 1 .. n
      <3>1. j - n \in 1 .. m /\ u[j] = t[j - n] /\ i - n \in 1 .. m /\ u[i] = t[i - n]
        BY <1>2, <2>3
      <3>2. i - n < j - n
        BY <1>2, <1>6
      <3> QED
        BY <1>1, <3>1, <3>2 DEF InLine
    <2> QED
      BY <2>1, <2>2, <2>3
  <1> QED
    BY <1>1, <1>5, <1>6 DEF InLine

OneOfThem(u, s, t) ==
    \A i \in 1 .. Len(u) : \/ \E j \in 1 .. Len(s) : u[i] = s[j]
                           \/ \E j \in 1 .. Len(t) : u[i] = t[j]
LEMMA OneOf ==
    ASSUME NEW S, NEW s \in Seq(S), NEW t \in Seq(S)
    PROVE  OneOfThem(s \o t, s, t)
  <1>1. SUFFICES ASSUME NEW i \in 1 .. Len(s \o t)
                 PROVE  \/ \E j \in 1 .. Len(s) : (s \o t)[i] = s[j]
                        \/ \E j \in 1 .. Len(t) : (s \o t)[i] = t[j]
    BY DEF OneOfThem
  <1>2. /\ \A j \in 1 .. Len(s) : (s \o t)[j] = s[j]
        /\ \A j \in 1 .. Len(t) : (s \o t)[Len(s) + j] = t[j]
        /\ i \in 1 .. Len(s) \/ (i - Len(s) \in 1 .. Len(t) /\ Len(s) + (i - Len(s)) = i)
    BY Joined
  <1>3. CASE i \in 1 .. Len(s)
    BY <1>2, <1>3
  <1>4. CASE i - Len(s) \in 1 .. Len(t) /\ Len(s) + (i - Len(s)) = i
    <2>1. (s \o t)[i] = t[i - Len(s)]
      BY <1>2, <1>4
    <2> QED
      BY <1>4, <2>1
  <1> QED
    BY <1>2, <1>3, <1>4

LEMMA HasJoined ==
    ASSUME NEW R, NEW s \in Seq(R), NEW t \in Seq(R), NEW S, Has(s, S) \/ Has(t, S)
    PROVE  Has(s \o t, S)
  <1>1. PICK u, n, m : u = s \o t /\ n = Len(s) /\ m = Len(t)
    OBVIOUS
  <1>2. /\ n \in Nat /\ m \in Nat /\ Len(u) = n + m
        /\ \A i \in 1 .. n : u[i] = s[i]
        /\ \A i \in 1 .. m : u[n + i] = t[i]
    BY <1>1, Joined
  <1>3. CASE Has(s, S)
    <2>1. PICK i \in 1 .. n : s[i].kind \in S
      BY <1>1, <1>3 DEF Has
    <2>2. i \in 1 .. Len(u) /\ u[i] = s[i]
      BY <1>2
    <2> QED
      BY <1>1, <2>1, <2>2 DEF Has
  <1>4. CASE Has(t, S)
    <2>1. PICK i \in 1 .. m : t[i].kind \in S
      BY <1>1, <1>4 DEF Has
    <2>2. n + i \in 1 .. Len(u) /\ u[n + i] = t[i]
      BY <1>2
    <2> QED
      BY <1>1, <2>1, <2>2 DEF Has
  <1> QED
    BY <1>3, <1>4

LEMMA HasTail ==
    ASSUME NEW R, NEW q \in Seq(R), q # <<>>, NEW S, Has(q, S), q[1].kind \notin S
    PROVE  Has(Tail(q), S)
  <1>1. /\ Len(q) \in Nat \ {0} /\ Len(Tail(q)) = Len(q) - 1
        /\ \A i \in 1 .. Len(q) - 1 : Tail(q)[i] = q[i + 1]
    BY TailOf
  <1>2. PICK i \in 1 .. Len(q) : q[i].kind \in S
    BY DEF Has
  <1>3. i # 1
    BY <1>2
  <1>4. i - 1 \in 1 .. Len(q) - 1 /\ (i - 1) + 1 = i
    BY <1>1, <1>3
  <1>5. Tail(q)[i - 1] = q[i]
    BY <1>1, <1>4
  <1> QED
    BY <1>1, <1>2, <1>4, <1>5 DEF Has

-----------------------------------------------------------------------------
(* What the user asks for: a command with the next number joins the queue. *)

KeyAsked ==
    /\ acts' = acts + 1
    /\ UNCHANGED <<knownKeys, inventory, sent, replies, keyServer, done, discarded>>
    /\ \/ queue' = queue /\ override' = override
       \/ \E e \in Commands :
             /\ queue' = Prefix!Queued(e) /\ e.numbers = <<acts + 1>>
             /\ e.kind = "input" => Len(e.keys) = Len(e.numbers)
             /\ override' = override \/ e.kind \in Changes

LEMMA InputIsCommand ==
    ASSUME KeyTypes, NEW p \in KeyPanes, NEW key \in KeyNames
    PROVE  LET e == Prefix!Input(p, key)
           IN e \in Commands /\ e.numbers = <<acts + 1>> /\ Len(e.keys) = Len(e.numbers)
  <1>1. <<acts + 1>> \in Seq(Nat) /\ <<key>> \in Seq(KeyNames) /\ Len(<<acts + 1>>) = Len(<<key>>)
    BY DEF KeyTypes
  <1> QED
    BY <1>1 DEF Prefix!Input, Commands, Kinds

LEMMA CommandIsCommand ==
    ASSUME KeyTypes, NEW p \in KeyPanes \cup {0}, NEW what \in Kinds
    PROVE  LET e == Prefix!Command(what, p)
           IN e \in Commands /\ e.numbers = <<acts + 1>> /\ e.kind = what
  <1>1. <<acts + 1>> \in Seq(Nat) /\ <<>> \in Seq(KeyNames)
    BY DEF KeyTypes
  <1> QED
    BY <1>1 DEF Prefix!Command, Commands

LEMMA LivePanes ==
    ASSUME KeyTypes, NEW p \in knownKeys.alive
    PROVE  p \in KeyPanes
  <1>1. knownKeys.alive \in SUBSET KeyPanes
    BY DEF KeyTypes, States
  <1> QED
    BY <1>1

LEMMA ExecutedAdds ==
    ASSUME KeyTypes, NEW command, Prefix!Executed(command)
    PROVE  \/ queue' = queue /\ override' = override
           \/ \E e \in Commands :
                 /\ queue' = Prefix!Queued(e) /\ e.numbers = <<acts + 1>>
                 /\ e.kind = "input" => Len(e.keys) = Len(e.numbers)
                 /\ override' = override \/ e.kind \in Changes
  <1>1. /\ override' = IF command \in {"off", "root"} THEN command ELSE override
        /\ queue' = CASE command \in {"select", "off", "root", "extra"} -> Prefix!Queued(Prefix!Command(command, 0))
                      [] command = "send-prefix" /\ knownKeys.active \in knownKeys.alive ->
                           Prefix!Queued(Prefix!Input(knownKeys.active, Prefix!Prefix))
                      [] OTHER -> queue
    BY DEF Prefix!Executed
  <1>2. CASE command \in {"select", "off", "root", "extra"}
    <2>1. command \in Kinds /\ command # "input"
      BY <1>2 DEF Kinds
    <2>2. queue' = Prefix!Queued(Prefix!Command(command, 0))
      BY <1>1, <1>2
    <2>3. /\ Prefix!Command(command, 0) \in Commands
          /\ Prefix!Command(command, 0).numbers = <<acts + 1>>
          /\ Prefix!Command(command, 0).kind = command
      BY <2>1, CommandIsCommand
    <2>4. override' = override \/ command \in Changes
      BY <1>1 DEF Changes
    <2> QED
      BY <2>1, <2>2, <2>3, <2>4
  <1>3. CASE command = "send-prefix" /\ knownKeys.active \in knownKeys.alive
    <2>1. queue' = Prefix!Queued(Prefix!Input(knownKeys.active, Prefix!Prefix)) /\ override' = override
      BY <1>1, <1>3
    <2>2. knownKeys.active \in KeyPanes
      BY <1>3, LivePanes
    <2>3. Prefix!Prefix \in KeyNames
      BY DEF Prefix!Prefix, KeyNames
    <2>4. /\ Prefix!Input(knownKeys.active, Prefix!Prefix) \in Commands
          /\ Prefix!Input(knownKeys.active, Prefix!Prefix).numbers = <<acts + 1>>
          /\ Len(Prefix!Input(knownKeys.active, Prefix!Prefix).keys)
               = Len(Prefix!Input(knownKeys.active, Prefix!Prefix).numbers)
      BY <2>2, <2>3, InputIsCommand
    <2> QED
      BY <2>1, <2>4
  <1>4. CASE /\ command \notin {"select", "off", "root", "extra"}
             /\ ~(command = "send-prefix" /\ knownKeys.active \in knownKeys.alive)
    <2>1. queue' = queue /\ override' = override
      BY <1>1, <1>4
    <2> QED
      BY <2>1
  <1> QED
    BY <1>2, <1>3, <1>4

LEMMA PressAsks ==
    ASSUME KeyTypes, NEW key \in Keys, Prefix!Press(key)
    PROVE  KeyAsked
  <1>1. /\ acts' = acts + 1
        /\ UNCHANGED <<knownKeys, inventory, sent, replies, keyServer, done, discarded>>
    BY DEF Prefix!Press
  <1>2. \/ \E command : Prefix!Executed(command)
        \/ /\ queue' = queue \/ (knownKeys.active \in knownKeys.alive /\ queue' = Prefix!Queued(Prefix!Input(knownKeys.active, key)))
           /\ override' = override
    BY DEF Prefix!Press
  <1>3. CASE \E command : Prefix!Executed(command)
    BY <1>1, <1>3, ExecutedAdds DEF KeyAsked
  <1>4. CASE queue' = queue /\ override' = override
    BY <1>1, <1>4 DEF KeyAsked
  <1>5. CASE /\ knownKeys.active \in knownKeys.alive /\ override' = override
             /\ queue' = Prefix!Queued(Prefix!Input(knownKeys.active, key))
    <2>1. knownKeys.active \in KeyPanes
      BY <1>5, LivePanes
    <2>2. key \in KeyNames
      BY DEF KeyNames
    <2>3. /\ Prefix!Input(knownKeys.active, key) \in Commands
          /\ Prefix!Input(knownKeys.active, key).numbers = <<acts + 1>>
          /\ Len(Prefix!Input(knownKeys.active, key).keys) = Len(Prefix!Input(knownKeys.active, key).numbers)
      BY <2>1, <2>2, InputIsCommand
    <2> QED
      BY <1>1, <1>5, <2>3 DEF KeyAsked
  <1> QED
    BY <1>2, <1>3, <1>4, <1>5

LEMMA AnswerAsks ==
    ASSUME KeyTypes, NEW yes \in BOOLEAN, Prefix!Answer(yes)
    PROVE  KeyAsked
  <1>1. /\ acts' = acts + 1 /\ override' = override
        /\ UNCHANGED <<knownKeys, inventory, sent, replies, keyServer, done, discarded>>
    BY DEF Prefix!Answer
  <1>2. \/ queue' = queue
        \/ overlay[1].pane \in knownKeys.alive /\ queue' = Prefix!Queued(Prefix!Command("kill", overlay[1].pane))
    BY DEF Prefix!Answer
  <1>3. CASE queue' = queue
    BY <1>1, <1>3 DEF KeyAsked
  <1>4. CASE overlay[1].pane \in knownKeys.alive /\ queue' = Prefix!Queued(Prefix!Command("kill", overlay[1].pane))
    <2>1. overlay[1].pane \in KeyPanes \cup {0} /\ "kill" \in Kinds
      BY <1>4, LivePanes DEF Kinds
    <2>2. /\ Prefix!Command("kill", overlay[1].pane) \in Commands
          /\ Prefix!Command("kill", overlay[1].pane).numbers = <<acts + 1>>
          /\ Prefix!Command("kill", overlay[1].pane).kind = "kill"
      BY <2>1, CommandIsCommand
    <2> QED
      BY <1>1, <1>4, <2>2 DEF KeyAsked
  <1> QED
    BY <1>2, <1>3, <1>4

LEMMA ChooseAsks ==
    ASSUME KeyTypes, NEW pane \in KeyPanes, Prefix!Choose(pane)
    PROVE  KeyAsked
  <1>1. /\ acts' = acts + 1 /\ override' = override
        /\ UNCHANGED <<knownKeys, inventory, sent, replies, keyServer, done, discarded>>
    BY DEF Prefix!Choose
  <1>2. queue' = queue \/ queue' = Prefix!Queued(Prefix!Command("select-pane", pane))
    BY DEF Prefix!Choose
  <1>3. "select-pane" \in Kinds
    BY DEF Kinds
  <1>4. /\ Prefix!Command("select-pane", pane) \in Commands
        /\ Prefix!Command("select-pane", pane).numbers = <<acts + 1>>
        /\ Prefix!Command("select-pane", pane).kind = "select-pane"
    BY <1>3, CommandIsCommand
  <1> QED
    BY <1>1, <1>2, <1>4 DEF KeyAsked

LEMMA NumbersOf ==
    ASSUME NEW q \in Seq(Commands), NEW i \in 1 .. Len(q)
    PROVE  q[i] \in Commands /\ q[i].numbers \in Seq(Nat) /\ Len(q[i].numbers) \in Nat
  <1>1. q[i] \in Commands
    OBVIOUS
  <1> QED
    BY <1>1, CommandFields

LEMMA AskedKeeps ==
    ASSUME KeyInv, KeyAsked
    PROVE  KeyInv'
  <1>1. KeyTypes /\ KeyOrder /\ KeyTables
    BY DEF KeyInv
  <1>2. /\ acts' = acts + 1 /\ acts \in Nat /\ knownKeys' = knownKeys /\ inventory' = inventory
        /\ sent' = sent /\ replies' = replies /\ keyServer' = keyServer /\ done' = done
        /\ discarded' = discarded
    BY <1>1 DEF KeyAsked, KeyTypes
  <1>3. ASSUME NEW s, UpTo(s, acts), s \in Seq(Nat) PROVE UpTo(s, acts + 1)
    <2>1. \A i \in 1 .. Len(s) : s[i] <= acts /\ s[i] \in Nat
      BY <1>3 DEF UpTo
    <2> QED
      BY <1>2, <2>1 DEF UpTo
  <1>4. UpTo(done, acts + 1) /\ \A i \in 1 .. Len(sent) : UpTo(sent[i].numbers, acts + 1)
    <2>1. done \in Seq(Nat) /\ UpTo(done, acts)
      BY <1>1 DEF KeyTypes, KeyOrder
    <2>2. ASSUME NEW i \in 1 .. Len(sent) PROVE UpTo(sent[i].numbers, acts + 1)
      <3>1. sent[i].numbers \in Seq(Nat)
        BY <1>1, NumbersOf DEF KeyTypes
      <3>2. UpTo(sent[i].numbers, acts)
        BY <1>1 DEF KeyOrder
      <3> QED
        BY <1>3, <3>1, <3>2
    <2> QED
      BY <1>3, <2>1, <2>2
  <1>5. CASE queue' = queue /\ override' = override
    <2>1. \A i \in 1 .. Len(queue) : UpTo(queue[i].numbers, acts + 1)
      <3>1. TAKE i \in 1 .. Len(queue)
      <3>2. queue[i].numbers \in Seq(Nat)
        BY <1>1, NumbersOf DEF KeyTypes
      <3>3. UpTo(queue[i].numbers, acts)
        BY <1>1 DEF KeyOrder
      <3> QED
        BY <1>3, <3>2, <3>3
    <2>2. KeyTypes'
      BY <1>1, <1>2, <1>5 DEF KeyTypes
    <2>3. KeyOrder'
      BY <1>1, <1>2, <1>4, <1>5, <2>1 DEF KeyOrder
    <2>4. KeyTables'
      BY <1>1, <1>2, <1>5 DEF KeyTables, OnItsWay
    <2> QED
      BY <2>2, <2>3, <2>4 DEF KeyInv
  <1>6. ASSUME NEW e \in Commands, queue' = Prefix!Queued(e), e.numbers = <<acts + 1>>,
               e.kind = "input" => Len(e.keys) = Len(e.numbers),
               override' = override \/ e.kind \in Changes
        PROVE  KeyInv'
    <2>1. queue \in Seq(Commands) /\ Pairs(queue)
      BY <1>1 DEF KeyTypes
    <2>2. Adds(queue, queue', e)
      BY <1>6, <2>1, QueuedAdds
    <2>3. queue' \in Seq(Commands) /\ Pairs(queue')
      BY <1>6, <2>1, <2>2, AddsTypes
    <2>4. InLine(queue') /\ \A i \in 1 .. Len(queue') : UpTo(queue'[i].numbers, acts + 1)
      <3>1. InLine(queue) /\ \A i \in 1 .. Len(queue) : UpTo(queue[i].numbers, acts)
        BY <1>1 DEF KeyOrder
      <3> QED
        BY <1>2, <1>6, <2>1, <2>2, <2>3, <3>1, AddsInLine
    <2>5. \A i \in 1 .. Len(queue') : Before(done, queue'[i].numbers)
      <3>1. done \in Seq(Nat) /\ UpTo(done, acts) /\ \A i \in 1 .. Len(queue) : Before(done, queue[i].numbers)
        BY <1>1 DEF KeyTypes, KeyOrder
      <3> QED
        BY <1>2, <1>6, <2>1, <2>2, <2>3, <3>1, AddsAfter
    <2>6. ASSUME NEW i \in 1 .. Len(sent)
          PROVE  \A j \in 1 .. Len(queue') : Before(sent[i].numbers, queue'[j].numbers)
      <3>1. sent[i].numbers \in Seq(Nat)
        BY <1>1, NumbersOf DEF KeyTypes
      <3>2. /\ UpTo(sent[i].numbers, acts)
            /\ \A j \in 1 .. Len(queue) : Before(sent[i].numbers, queue[j].numbers)
        BY <1>1 DEF KeyOrder
      <3> QED
        BY <1>2, <1>6, <2>1, <2>2, <2>3, <3>1, <3>2, AddsAfter
    <2>7. /\ \A S : "input" \notin S /\ Has(queue, S) => Has(queue', S)
          /\ e.kind \in Changes => Has(queue', Changes)
      <3>1. "input" \notin Changes
        BY DEF Changes
      <3> QED
        BY <2>1, <2>2, <3>1, AddsHas
    <2>8. KeyTypes'
      BY <1>1, <1>2, <2>3 DEF KeyTypes
    <2>9. KeyOrder'
      BY <1>1, <1>2, <1>4, <2>4, <2>5, <2>6 DEF KeyOrder
    <2>10. KeyTables'
      <3>1. /\ OnItsWay(Changes) => OnItsWay(Changes)'
            /\ OnItsWay({"inventory"}) => OnItsWay({"inventory"})'
            /\ e.kind \in Changes => OnItsWay(Changes)'
        BY <1>2, <2>7 DEF OnItsWay, Changes
      <3> QED
        BY <1>1, <1>2, <1>6, <3>1 DEF KeyTables
    <2> QED
      BY <2>8, <2>9, <2>10 DEF KeyInv
  <1> QED
    BY <1>5, <1>6 DEF KeyAsked

-----------------------------------------------------------------------------
(* Writing: the head of the queue goes out, in pieces, or is dropped.      *)

LEMMA DrainKeeps ==
    ASSUME KeyInv, Prefix!Drain
    PROVE  KeyInv'
  <1>1. KeyTypes /\ KeyOrder /\ KeyTables
    BY DEF KeyInv
  <1>2. /\ queue # <<>> /\ queue' = Tail(queue)
        /\ knownKeys' = knownKeys /\ inventory' = inventory /\ override' = override
        /\ replies' = replies /\ keyServer' = keyServer /\ done' = done /\ acts' = acts
    BY DEF Prefix!Drain
  <1>3. PICK c : c = queue[1]
    OBVIOUS
  <1>4. /\ queue \in Seq(Commands) /\ c \in Commands /\ Head(queue) = c
        /\ Tail(queue) \in Seq(Commands) /\ 1 \in 1 .. Len(queue)
        /\ Len(queue) \in Nat \ {0} /\ Len(Tail(queue)) = Len(queue) - 1
        /\ \A i \in 1 .. Len(queue) - 1 : Tail(queue)[i] = queue[i + 1] /\ i + 1 \in 1 .. Len(queue)
    BY <1>1, <1>2, <1>3, TailOf DEF KeyTypes
  <1>5. PICK enc : enc = Prefix!Encoded(c)
    OBVIOUS
  <1>6. \/ discarded' = TRUE /\ sent' = sent
        \/ discarded' = discarded /\ sent' = sent \o enc
    BY <1>4, <1>5 DEF Prefix!Drain
  <1>7. (c.kind = "input" => Len(c.keys) = Len(c.numbers)) /\ Rising(c.numbers)
    BY <1>1, <1>3, <1>4 DEF KeyTypes, Pairs, KeyOrder, InLine
  <1>8. /\ enc \in Seq(Commands) /\ InLine(enc)
        /\ \A i \in 1 .. Len(enc) : \A a \in 1 .. Len(enc[i].numbers) :
              \E b \in 1 .. Len(c.numbers) : enc[i].numbers[a] = c.numbers[b]
        /\ \A S : "input" \notin S /\ c.kind \in S => Has(enc, S)
    <2>1. /\ Prefix!Encoded(c) \in Seq(Commands) /\ InLine(Prefix!Encoded(c))
          /\ \A i \in 1 .. Len(Prefix!Encoded(c)) : \A a \in 1 .. Len(Prefix!Encoded(c)[i].numbers) :
                \E b \in 1 .. Len(c.numbers) : Prefix!Encoded(c)[i].numbers[a] = c.numbers[b]
          /\ \A S : "input" \notin S /\ c.kind \in S => Has(Prefix!Encoded(c), S)
      <3>1. c \in Commands
        BY <1>4
      <3> QED
        BY <1>7, <3>1, EncodedInLine
    <2> QED
      BY <1>5, <2>1
  <1>9. /\ InLine(Tail(queue))
        /\ \A i \in 1 .. Len(Tail(queue)) : Before(c.numbers, Tail(queue)[i].numbers)
    BY <1>1, <1>2, <1>3, <1>4, InLineTail DEF KeyOrder
  <1>10. \A i \in 1 .. Len(Tail(queue)) : \E j \in 1 .. Len(queue) : Tail(queue)[i] = queue[j]
    BY <1>4
  <1>11. /\ \A i \in 1 .. Len(Tail(queue)) : UpTo(Tail(queue)[i].numbers, acts)
         /\ \A i \in 1 .. Len(Tail(queue)) : Before(done, Tail(queue)[i].numbers)
         /\ \A i \in 1 .. Len(sent), j \in 1 .. Len(Tail(queue)) : Before(sent[i].numbers, Tail(queue)[j].numbers)
         /\ Pairs(Tail(queue))
    <2>1. \A j \in 1 .. Len(queue) :
             /\ UpTo(queue[j].numbers, acts) /\ Before(done, queue[j].numbers)
             /\ \A i \in 1 .. Len(sent) : Before(sent[i].numbers, queue[j].numbers)
             /\ queue[j].kind = "input" => Len(queue[j].keys) = Len(queue[j].numbers)
      BY <1>1 DEF KeyTypes, KeyOrder, Pairs
    <2> QED
      BY <1>10, <2>1 DEF Pairs
  \* The pieces have only the numbers of c.
  <1>12. ASSUME NEW i \in 1 .. Len(enc)
         PROVE  /\ UpTo(enc[i].numbers, acts) /\ Before(done, enc[i].numbers)
                /\ \A j \in 1 .. Len(sent) : Before(sent[j].numbers, enc[i].numbers)
                /\ \A j \in 1 .. Len(Tail(queue)) : Before(enc[i].numbers, Tail(queue)[j].numbers)
    <2>1. /\ UpTo(c.numbers, acts) /\ Before(done, c.numbers)
          /\ \A j \in 1 .. Len(sent) : Before(sent[j].numbers, c.numbers)
      BY <1>1, <1>3, <1>4 DEF KeyOrder
    <2>2. \A a \in 1 .. Len(enc[i].numbers) :
             \E b \in 1 .. Len(c.numbers) : enc[i].numbers[a] = c.numbers[b]
      BY <1>8
    <2>3. UpTo(enc[i].numbers, acts)
      BY <2>1, <2>2 DEF UpTo
    <2>4. Before(done, enc[i].numbers)
      BY <2>1, <2>2 DEF Before
    <2>5. \A j \in 1 .. Len(sent) : Before(sent[j].numbers, enc[i].numbers)
      BY <2>1, <2>2 DEF Before
    <2>6. \A j \in 1 .. Len(Tail(queue)) : Before(enc[i].numbers, Tail(queue)[j].numbers)
      BY <1>9, <2>2 DEF Before
    <2> QED
      BY <2>3, <2>4, <2>5, <2>6
  <1>13. ASSUME NEW S, "input" \notin S, OnItsWay(S), discarded' = discarded, sent' = sent \o enc
         PROVE  Has(Tail(queue), S) \/ Has(sent', S) \/ Has(replies, S)
    <2>1. sent \in Seq(Commands)
      BY <1>1 DEF KeyTypes
    <2>2. CASE Has(queue, S)
      <3>1. CASE c.kind \in S
        <4>1. Has(enc, S)
          BY <1>8, <1>13, <3>1
        <4> QED
          BY <1>8, <1>13, <2>1, <4>1, HasJoined
      <3>2. CASE c.kind \notin S
        BY <1>2, <1>3, <1>4, <2>2, <3>2, HasTail
      <3> QED
        BY <3>1, <3>2
    <2>3. CASE Has(sent, S)
      BY <1>8, <1>13, <2>1, <2>3, HasJoined
    <2> QED
      BY <1>13, <2>2, <2>3 DEF OnItsWay
  <1>14. CASE discarded' = TRUE /\ sent' = sent
    <2>1. KeyTypes'
      BY <1>1, <1>2, <1>4, <1>11, <1>14 DEF KeyTypes
    <2>2. KeyOrder'
      BY <1>1, <1>2, <1>9, <1>11, <1>14 DEF KeyOrder
    <2>3. KeyTables'
      BY <1>1, <1>2, <1>14 DEF KeyTables
    <2> QED
      BY <2>1, <2>2, <2>3 DEF KeyInv
  <1>15. CASE discarded' = discarded /\ sent' = sent \o enc
    <2>1. sent \in Seq(Commands) /\ sent' \in Seq(Commands)
      BY <1>1, <1>8, <1>15 DEF KeyTypes
    <2>2. KeyTypes'
      BY <1>1, <1>2, <1>4, <1>11, <1>15, <2>1 DEF KeyTypes
    <2>3. InLine(sent')
      <3>1. InLine(sent)
        BY <1>1 DEF KeyOrder
      <3> QED
        BY <1>8, <1>12, <1>15, <2>1, <3>1, InLineJoins
    <2>4. \A i \in 1 .. Len(sent') :
             \/ \E j \in 1 .. Len(sent) : sent'[i] = sent[j]
             \/ \E j \in 1 .. Len(enc) : sent'[i] = enc[j]
      <3>1. OneOfThem(sent \o enc, sent, enc)
        BY <1>8, <2>1, OneOf
      <3> QED
        BY <1>15, <3>1 DEF OneOfThem
    <2>5. /\ \A i \in 1 .. Len(sent') : UpTo(sent'[i].numbers, acts)
          /\ \A i \in 1 .. Len(sent') : Before(done, sent'[i].numbers)
          /\ \A i \in 1 .. Len(sent'), j \in 1 .. Len(Tail(queue)) :
                Before(sent'[i].numbers, Tail(queue)[j].numbers)
      <3>1. \A i \in 1 .. Len(sent) :
               /\ UpTo(sent[i].numbers, acts) /\ Before(done, sent[i].numbers)
               /\ \A j \in 1 .. Len(Tail(queue)) : Before(sent[i].numbers, Tail(queue)[j].numbers)
        BY <1>1, <1>11 DEF KeyOrder
      <3>2. \A i \in 1 .. Len(sent') :
               /\ UpTo(sent'[i].numbers, acts) /\ Before(done, sent'[i].numbers)
               /\ \A j \in 1 .. Len(Tail(queue)) : Before(sent'[i].numbers, Tail(queue)[j].numbers)
        BY <1>12, <2>4, <3>1
      <3> QED
        BY <3>2
    <2>6. KeyOrder'
      BY <1>1, <1>2, <1>9, <1>11, <2>3, <2>5 DEF KeyOrder
    <2>7. KeyTables'
      <3>1. /\ OnItsWay(Changes) => OnItsWay(Changes)'
            /\ OnItsWay({"inventory"}) => OnItsWay({"inventory"})'
        BY <1>2, <1>13, <1>15 DEF OnItsWay, Changes
      <3> QED
        BY <1>1, <1>2, <1>15, <3>1 DEF KeyTables
    <2> QED
      BY <2>2, <2>6, <2>7 DEF KeyInv
  <1> QED
    BY <1>6, <1>14, <1>15

-----------------------------------------------------------------------------
(* The server carries out a command, and answers.                          *)

LEMMA ChangedIsState ==
    ASSUME keyServer \in States, NEW c \in Commands
    PROVE  /\ Prefix!Changed(c) \in States
           /\ Prefix!Changed(c).table = keyServer.table \/ c.kind \in Changes
  <1>1. /\ keyServer.table \in {"root", "off"} /\ keyServer.active \in KeyPanes
        /\ keyServer.alive \in SUBSET KeyPanes
    BY DEF States
  <1>2. \A p : /\ Prefix!Others(p) \in SUBSET KeyPanes
               /\ Prefix!Others(p) # {} => (CHOOSE q \in Prefix!Others(p) : TRUE) \in KeyPanes
    BY <1>1 DEF Prefix!Others
  <1>3. PICK s : s = Prefix!Changed(c)
    OBVIOUS
  <1>4. \/ \E p \in KeyPanes : s = [keyServer EXCEPT !.active = p]
        \/ \E p \in KeyPanes, ps \in SUBSET KeyPanes :
              s = [keyServer EXCEPT !.alive = ps, !.active = p]
        \/ c.kind \in {"off", "root"} /\ s = [keyServer EXCEPT !.table = c.kind]
        \/ s = keyServer
    <2>1. CASE c.kind = "select" /\ Prefix!Others(keyServer.active) # {}
      BY <1>2, <1>3, <2>1 DEF Prefix!Changed
    <2>2. CASE c.kind = "select-pane" /\ c.pane \in keyServer.alive
      <3>1. s = [keyServer EXCEPT !.active = c.pane] /\ c.pane \in KeyPanes
        BY <1>1, <1>3, <2>2 DEF Prefix!Changed
      <3> QED
        BY <3>1
    <2>3. CASE c.kind = "kill" /\ c.pane \in keyServer.alive /\ Prefix!Others(c.pane) # {}
      <3>1. PICK p : p = IF keyServer.active = c.pane THEN CHOOSE q \in Prefix!Others(c.pane) : TRUE
                         ELSE keyServer.active
        OBVIOUS
      <3>5. PICK ps : ps = keyServer.alive \ {c.pane}
        OBVIOUS
      <3>2. p \in KeyPanes /\ ps \in SUBSET KeyPanes
        BY <1>1, <1>2, <2>3, <3>1, <3>5
      <3>3. s = [keyServer EXCEPT !.alive = @ \ {c.pane},
                                  !.active = IF @ = c.pane THEN CHOOSE q \in Prefix!Others(c.pane) : TRUE ELSE @]
        BY <1>3, <2>3 DEF Prefix!Changed
      <3>4. s = [keyServer EXCEPT !.alive = ps, !.active = p]
        BY <3>1, <3>3, <3>5 DEF States
      <3> QED
        BY <3>2, <3>4
    <2>4. CASE c.kind \in {"off", "root"}
      BY <1>3, <2>4 DEF Prefix!Changed
    <2>5. CASE /\ ~(c.kind = "select" /\ Prefix!Others(keyServer.active) # {})
               /\ ~(c.kind = "select-pane" /\ c.pane \in keyServer.alive)
               /\ ~(c.kind = "kill" /\ c.pane \in keyServer.alive /\ Prefix!Others(c.pane) # {})
               /\ c.kind \notin {"off", "root"}
      BY <1>3, <2>5 DEF Prefix!Changed
    <2> QED
      BY <2>1, <2>2, <2>3, <2>4, <2>5
  <1>5. s \in States /\ (s.table = keyServer.table \/ c.kind \in Changes)
    <2>1. CASE \E p \in KeyPanes : s = [keyServer EXCEPT !.active = p]
      BY <2>1 DEF States
    <2>2. CASE \E p \in KeyPanes, ps \in SUBSET KeyPanes : s = [keyServer EXCEPT !.alive = ps, !.active = p]
      BY <2>2 DEF States
    <2>3. CASE c.kind \in {"off", "root"} /\ s = [keyServer EXCEPT !.table = c.kind]
      BY <2>3 DEF States, Changes
    <2>4. CASE s = keyServer
      BY <2>4
    <2> QED
      BY <1>4, <2>1, <2>2, <2>3, <2>4
  <1> QED
    BY <1>3, <1>5

LEMMA CommandExecuteKeeps ==
    ASSUME KeyInv, NEW ok \in BOOLEAN, Prefix!Execute(ok)
    PROVE  KeyInv'
  <1>1. KeyTypes /\ KeyOrder /\ KeyTables
    BY DEF KeyInv
  <1>2. /\ sent # <<>> /\ sent' = Tail(sent)
        /\ knownKeys' = knownKeys /\ inventory' = inventory /\ override' = override
        /\ queue' = queue /\ acts' = acts /\ discarded' = discarded
    BY DEF Prefix!Execute
  <1>3. PICK c, after, r :
           /\ c = sent[1] /\ after = (IF ok THEN Prefix!Changed(c) ELSE keyServer)
           /\ r = [kind |-> c.kind, ok |-> ok, state |-> after]
    OBVIOUS
  <1>4. /\ sent \in Seq(Commands) /\ c \in Commands /\ Head(sent) = c
        /\ Tail(sent) \in Seq(Commands) /\ 1 \in 1 .. Len(sent)
        /\ Len(sent) \in Nat \ {0} /\ Len(Tail(sent)) = Len(sent) - 1
        /\ \A i \in 1 .. Len(sent) - 1 : Tail(sent)[i] = sent[i + 1] /\ i + 1 \in 1 .. Len(sent)
    BY <1>1, <1>2, <1>3, TailOf DEF KeyTypes
  <1>5. /\ keyServer' = after
        /\ done' = IF ok THEN done \o c.numbers ELSE done
        /\ \E notice : /\ replies' = replies \o <<r>> \o notice
                       /\ notice = <<>> \/ notice = <<[kind |-> "notice", ok |-> TRUE, state |-> after]>>
    BY <1>3, <1>4 DEF Prefix!Execute
  <1>6. after \in States /\ (after.table = keyServer.table \/ c.kind \in Changes)
    <2>1. keyServer \in States
      BY <1>1 DEF KeyTypes
    <2> QED
      BY <1>3, <1>4, <2>1, ChangedIsState
  <1>7. c.kind \in Kinds /\ c.numbers \in Seq(Nat)
    BY <1>4, CommandFields
  <1>8. r \in Answers /\ r.kind = c.kind /\ r.state = after
    BY <1>3, <1>6, <1>7 DEF Answers
  <1>9. PICK notice \in Seq(Answers) :
            /\ replies' = replies \o <<r>> \o notice
            /\ \A i \in 1 .. Len(notice) : notice[i].kind = "notice"
    <2>1. PICK m : m = [kind |-> "notice", ok |-> TRUE, state |-> after]
      OBVIOUS
    <2>2. m \in Answers /\ m.kind = "notice"
      BY <1>6, <2>1 DEF Answers
    <2>3. /\ <<m>> \in Seq(Answers) /\ Len(<<m>>) = 1 /\ <<m>>[1] = m
          /\ <<>> \in Seq(Answers) /\ Len(<<>>) = 0
      BY <2>2
    <2>4. \A i \in 1 .. Len(<<m>>) : <<m>>[i].kind = "notice"
      <3>1. TAKE i \in 1 .. Len(<<m>>)
      <3>2. i = 1
        BY <2>3
      <3> QED
        BY <2>2, <2>3, <3>2
    <2>5. \A i \in 1 .. Len(<<>>) : <<>>[i].kind = "notice"
      BY <2>3
    <2> QED
      BY <1>5, <2>1, <2>3, <2>4, <2>5
  <1>10. PICK n \in Nat : n = Len(replies)
    BY <1>1 DEF KeyTypes
  \* The replies: those there were, that of c, and perhaps a notice.
  <1>11. /\ replies' \in Seq(Answers) /\ Len(replies') \in Nat /\ n + 1 <= Len(replies')
         /\ \A i \in 1 .. n : replies'[i] = replies[i]
         /\ replies'[n + 1] = r
         /\ \A i \in 1 .. Len(replies') : i \in 1 .. n \/ i = n + 1 \/ replies'[i].kind = "notice"
    <2>1. PICK q : q = replies \o <<r>>
      OBVIOUS
    <2>2. q = Append(replies, r) /\ replies \in Seq(Answers)
      BY <1>1, <1>8, <2>1 DEF KeyTypes
    <2>3. /\ q \in Seq(Answers) /\ Len(q) = n + 1 /\ q[n + 1] = r
          /\ \A i \in 1 .. n : q[i] = replies[i]
      BY <1>8, <1>10, <2>2, AppendedTo
    <2>4. replies' = q \o notice
      BY <1>9, <2>1
    <2>5. PICK k \in Nat : k = Len(notice)
      OBVIOUS
    <2>6. /\ q \o notice \in Seq(Answers) /\ Len(q \o notice) = (n + 1) + k
          /\ \A i \in 1 .. n + 1 : (q \o notice)[i] = q[i]
          /\ \A i \in 1 .. k : (q \o notice)[(n + 1) + i] = notice[i]
      <3>1. /\ q \o notice \in Seq(Answers) /\ Len(q \o notice) = Len(q) + Len(notice)
            /\ \A i \in 1 .. Len(q) : (q \o notice)[i] = q[i]
            /\ \A i \in 1 .. Len(notice) : (q \o notice)[Len(q) + i] = notice[i]
        <4>1. q \in Seq(Answers) /\ notice \in Seq(Answers)
          BY <2>3
        <4> QED
          BY <4>1, Joined
      <3> QED
        BY <2>3, <2>5, <3>1
    <2>7. ASSUME NEW i \in 1 .. (n + 1) + k, i \notin 1 .. n + 1 PROVE (q \o notice)[i].kind = "notice"
      <3>1. i - (n + 1) \in 1 .. k /\ (n + 1) + (i - (n + 1)) = i
        BY <2>7
      <3> QED
        BY <1>9, <2>5, <2>6, <3>1
    <2>8. /\ 1 .. n \subseteq 1 .. n + 1 /\ n + 1 \in 1 .. n + 1 /\ (n + 1) + k \in Nat /\ n + 1 <= (n + 1) + k
          /\ \A i \in 1 .. n + 1 : i \in 1 .. n \/ i = n + 1
      OBVIOUS
    <2> QED
      BY <2>3, <2>4, <2>6, <2>7, <2>8
  <1>12. KeyTypes'
    <2>1. done' \in Seq(Nat)
      BY <1>1, <1>5, <1>7 DEF KeyTypes
    <2> QED
      BY <1>1, <1>2, <1>4, <1>5, <1>6, <1>11, <2>1 DEF KeyTypes
  \* What is carried out is what came first.
  <1>13. /\ InLine(Tail(sent))
         /\ \A i \in 1 .. Len(Tail(sent)) : Before(c.numbers, Tail(sent)[i].numbers)
    BY <1>1, <1>2, <1>3, <1>4, InLineTail DEF KeyOrder
  <1>14. /\ Rising(c.numbers) /\ UpTo(c.numbers, acts) /\ Before(done, c.numbers)
         /\ \A j \in 1 .. Len(queue) : Before(c.numbers, queue[j].numbers)
    BY <1>1, <1>3, <1>4 DEF KeyOrder, InLine
  <1>15. \A i \in 1 .. Len(Tail(sent)) : \E j \in 1 .. Len(sent) : Tail(sent)[i] = sent[j]
    BY <1>4
  <1>16. \A i \in 1 .. Len(Tail(sent)) :
            /\ UpTo(Tail(sent)[i].numbers, acts) /\ Before(done, Tail(sent)[i].numbers)
            /\ \A j \in 1 .. Len(queue) : Before(Tail(sent)[i].numbers, queue[j].numbers)
    BY <1>1, <1>15 DEF KeyOrder
  <1>17. /\ Rising(done') /\ UpTo(done', acts)
         /\ \A i \in 1 .. Len(Tail(sent)) : Before(done', Tail(sent)[i].numbers)
         /\ \A i \in 1 .. Len(queue) : Before(done', queue[i].numbers)
    <2>1. done \in Seq(Nat) /\ Rising(done) /\ UpTo(done, acts) /\ \A i \in 1 .. Len(queue) : Before(done, queue[i].numbers)
      BY <1>1 DEF KeyTypes, KeyOrder
    <2>2. CASE done' = done
      BY <1>16, <2>1, <2>2
    <2>3. CASE done' = done \o c.numbers
      <3>1. Rising(done \o c.numbers)
        BY <1>7, <1>14, <2>1, RisingJoins
      <3>2. \A i \in 1 .. Len(done') : \/ \E j \in 1 .. Len(done) : done'[i] = done[j]
                                       \/ \E j \in 1 .. Len(c.numbers) : done'[i] = c.numbers[j]
        <4>1. OneOfThem(done \o c.numbers, done, c.numbers)
          BY <1>7, <2>1, OneOf
        <4> QED
          BY <2>3, <4>1 DEF OneOfThem
      <3>3. UpTo(done', acts)
        BY <1>14, <2>1, <3>2 DEF UpTo
      <3>4. \A i \in 1 .. Len(Tail(sent)) : Before(done', Tail(sent)[i].numbers)
        BY <1>13, <1>16, <3>2 DEF Before
      <3>5. \A i \in 1 .. Len(queue) : Before(done', queue[i].numbers)
        BY <1>14, <2>1, <3>2 DEF Before
      <3> QED
        BY <2>3, <3>1, <3>3, <3>4, <3>5
    <2> QED
      BY <1>5, <2>2, <2>3
  <1>18. KeyOrder'
    <2>1. InLine(queue) /\ \A i \in 1 .. Len(queue) : UpTo(queue[i].numbers, acts)
      BY <1>1 DEF KeyOrder
    <2> QED
      BY <1>2, <1>13, <1>16, <1>17, <2>1 DEF KeyOrder
  <1>19. ASSUME NEW S, OnItsWay(S) PROVE OnItsWay(S)'
    <2>1. CASE Has(queue, S)
      BY <1>2, <2>1 DEF OnItsWay
    <2>2. CASE Has(sent, S)
      <3>1. CASE c.kind \in S
        <4>1. n + 1 \in 1 .. Len(replies') /\ replies'[n + 1].kind \in S
          BY <1>8, <1>11, <3>1
        <4> QED
          BY <4>1 DEF OnItsWay, Has
      <3>2. CASE c.kind \notin S
        <4>1. Has(Tail(sent), S)
          BY <1>2, <1>3, <1>4, <2>2, <3>2, HasTail
        <4> QED
          BY <1>2, <4>1 DEF OnItsWay
      <3> QED
        BY <3>1, <3>2
    <2>3. CASE Has(replies, S)
      <3>1. PICK i \in 1 .. n : replies[i].kind \in S
        BY <1>10, <2>3 DEF Has
      <3>2. i \in 1 .. Len(replies') /\ replies'[i].kind \in S
        BY <1>11, <3>1
      <3> QED
        BY <3>2 DEF OnItsWay, Has
    <2> QED
      BY <1>19, <2>1, <2>2, <2>3 DEF OnItsWay
  <1>20. ASSUME NEW i \in 1 .. Len(replies'), replies'[i].kind = "inventory"
         PROVE  \/ replies'[i].state.table = after.table
                \/ \E j \in i + 1 .. Len(replies') : replies'[j].kind \in Changes
    <2>1. CASE i \in 1 .. n
      <3>1. replies'[i] = replies[i] /\ i \in 1 .. Len(replies)
        BY <1>10, <1>11, <2>1
      <3>2. \/ replies[i].state.table = keyServer.table
            \/ \E j \in i + 1 .. Len(replies) : replies[j].kind \in Changes
        BY <1>1, <1>20, <3>1 DEF KeyTables
      <3>3. CASE \E j \in i + 1 .. Len(replies) : replies[j].kind \in Changes
        <4>1. PICK j \in i + 1 .. n : replies[j].kind \in Changes
          BY <1>10, <3>3
        <4>2. j \in 1 .. n /\ j \in i + 1 .. Len(replies')
          BY <1>11, <2>1, <4>1
        <4>3. replies'[j].kind \in Changes
          BY <1>11, <4>1, <4>2
        <4> QED
          BY <4>2, <4>3
      <3>4. CASE after.table = keyServer.table /\ replies[i].state.table = keyServer.table
        BY <3>1, <3>4
      <3>5. CASE c.kind \in Changes
        <4>1. n + 1 \in i + 1 .. Len(replies')
          BY <1>11, <2>1
        <4> QED
          BY <1>8, <1>11, <3>5, <4>1
      <3> QED
        BY <1>6, <3>2, <3>3, <3>4, <3>5
    <2>2. CASE i = n + 1
      BY <1>8, <1>11, <2>2
    <2> QED
      BY <1>11, <1>20, <2>1, <2>2
  <1>21. knownKeys.table = after.table \/ inventory \/ Has(replies', Changes)
    <2>1. CASE c.kind \in Changes
      <3>1. n + 1 \in 1 .. Len(replies') /\ replies'[n + 1].kind \in Changes
        BY <1>8, <1>11, <2>1
      <3> QED
        BY <3>1 DEF Has
    <2>2. CASE after.table = keyServer.table /\ Has(replies, Changes)
      <3>1. PICK i \in 1 .. n : replies[i].kind \in Changes
        BY <1>10, <2>2 DEF Has
      <3>2. i \in 1 .. Len(replies') /\ replies'[i].kind \in Changes
        BY <1>11, <3>1
      <3> QED
        BY <3>2 DEF Has
    <2> QED
      BY <1>1, <1>6, <2>1, <2>2 DEF KeyTables
  <1>22. KeyTables'
    <2>1. /\ OnItsWay(Changes) => OnItsWay(Changes)'
          /\ OnItsWay({"inventory"}) => OnItsWay({"inventory"})'
      BY <1>19 DEF Changes
    <2>2. keyServer'.table = after.table
      BY <1>5
    <2> QED
      BY <1>1, <1>2, <1>20, <1>21, <2>1, <2>2 DEF KeyTables
  <1> QED
    BY <1>12, <1>18, <1>22 DEF KeyInv

-----------------------------------------------------------------------------
(* Reading: an inventory is taken over, and asked for when the keys may    *)
(* have changed.                                                           *)

LEMMA InventoryJoins ==
    ASSUME NEW q \in Seq(Commands), InLine(q), Pairs(q), NEW r, r = Append(q, Prefix!Inventory)
    PROVE  /\ r \in Seq(Commands) /\ InLine(r) /\ Pairs(r)
           /\ \A i \in 1 .. Len(r) : r[i].numbers = <<>> \/ \E j \in 1 .. Len(q) : r[i] = q[j]
           /\ Has(r, {"inventory"}) /\ \A S : Has(q, S) => Has(r, S)
  <1>1. PICK e : e = Prefix!Inventory
    OBVIOUS
  <1>2. /\ e.kind = "inventory" /\ e.numbers = <<>> /\ e \in Commands
    <2>1. <<>> \in Seq(Nat) /\ <<>> \in Seq(KeyNames)
      OBVIOUS
    <2> QED
      BY <1>1, <2>1 DEF Prefix!Inventory, Commands, Kinds
  <1>3. PICK n \in Nat : n = Len(q)
    OBVIOUS
  <1>4. /\ r \in Seq(Commands) /\ Len(r) = n + 1 /\ r[n + 1] = e
        /\ \A i \in 1 .. n : r[i] = q[i]
    BY <1>1, <1>2, <1>3, AppendedTo
  <1>5. Len(<<>>) = 0
    OBVIOUS
  <1>6. ASSUME NEW i \in 1 .. Len(r) PROVE i = n + 1 \/ i \in 1 .. n
    BY <1>4
  <1>7. Rising(e.numbers) /\ \A s : Before(s, e.numbers)
    BY <1>2, <1>5 DEF Rising, Before
  <1>8. ASSUME NEW i \in 1 .. Len(r) PROVE Rising(r[i].numbers)
    BY <1>3, <1>4, <1>6, <1>7 DEF InLine
  <1>9. ASSUME NEW i \in 1 .. Len(r), NEW j \in 1 .. Len(r), i < j
        PROVE  Before(r[i].numbers, r[j].numbers)
    <2>1. CASE j = n + 1
      BY <1>4, <1>7, <2>1
    <2>2. CASE j \in 1 .. n
      <3>1. i \in 1 .. n
        BY <1>9, <2>2
      <3> QED
        BY <1>3, <1>4, <1>9, <2>2, <3>1 DEF InLine
    <2> QED
      BY <1>6, <2>1, <2>2
  <1>10. Pairs(r)
    <2>1. ASSUME NEW i \in 1 .. Len(r), r[i].kind = "input" PROVE Len(r[i].keys) = Len(r[i].numbers)
      <3>1. i # n + 1
        BY <1>2, <1>4, <2>1
      <3>2. i \in 1 .. Len(q) /\ r[i] = q[i]
        BY <1>3, <1>4, <1>6, <3>1
      <3> QED
        BY <2>1, <3>2 DEF Pairs
    <2> QED
      BY <2>1 DEF Pairs
  <1>11. \A i \in 1 .. Len(r) : r[i].numbers = <<>> \/ \E j \in 1 .. Len(q) : r[i] = q[j]
    BY <1>2, <1>3, <1>4, <1>6
  <1>12. Has(r, {"inventory"})
    <2>1. n + 1 \in 1 .. Len(r) /\ r[n + 1].kind = "inventory"
      BY <1>2, <1>4
    <2> QED
      BY <2>1 DEF Has
  <1>13. ASSUME NEW S, Has(q, S) PROVE Has(r, S)
    <2>1. PICK i \in 1 .. n : q[i].kind \in S
      BY <1>3, <1>13 DEF Has
    <2>2. i \in 1 .. Len(r) /\ r[i] = q[i]
      BY <1>4
    <2> QED
      BY <2>1, <2>2 DEF Has
  <1> QED
    BY <1>4, <1>8, <1>9, <1>10, <1>11, <1>12, <1>13 DEF InLine

LEMMA ReadKeeps ==
    ASSUME KeyInv, Prefix!Read
    PROVE  KeyInv'
  <1>1. KeyTypes /\ KeyOrder /\ KeyTables
    BY DEF KeyInv
  <1>2. /\ replies # <<>> /\ replies' = Tail(replies)
        /\ sent' = sent /\ keyServer' = keyServer /\ acts' = acts /\ done' = done
        /\ discarded' = discarded
    BY DEF Prefix!Read
  <1>3. PICK r : r = replies[1]
    OBVIOUS
  <1>4. PICK n \in Nat : n = Len(replies)
    BY <1>1 DEF KeyTypes
  <1>5. /\ r \in Answers /\ Head(replies) = r /\ n # 0 /\ 1 \in 1 .. Len(replies)
        /\ Tail(replies) \in Seq(Answers) /\ Len(Tail(replies)) = n - 1
        /\ \A i \in 1 .. n - 1 : Tail(replies)[i] = replies[i + 1] /\ i + 1 \in 1 .. n
    BY <1>1, <1>2, <1>3, <1>4, TailOf DEF KeyTypes
  <1>6. /\ knownKeys' = IF r.kind = "inventory" THEN r.state ELSE knownKeys
        /\ override' = IF r.kind = "inventory" THEN "-" ELSE override
    BY <1>5 DEF Prefix!Read
  <1>7. \/ /\ r.kind \notin Changes /\ queue' = queue
           /\ IF r.kind = "inventory" THEN ~inventory' ELSE inventory' = inventory
        \/ /\ r.kind # "inventory" /\ ~inventory /\ inventory' = TRUE
           /\ queue' = Append(queue, Prefix!Inventory)
        \/ /\ r.kind # "inventory" /\ inventory /\ inventory' = TRUE /\ queue' = queue
    <2>1. PICK ask : ask = ((r.kind = "notice" \/ r.kind \in Changes) /\ ~inventory)
      OBVIOUS
    <2>2. /\ inventory' = (r.kind # "inventory" /\ (ask \/ inventory))
          /\ queue' = IF ask THEN Append(queue, Prefix!Inventory) ELSE queue
      BY <1>5, <2>1 DEF Prefix!Read, Prefix!MayChange, Changes
    <2>3. inventory \in BOOLEAN /\ (r.kind \in Changes => r.kind # "inventory")
      BY <1>1 DEF KeyTypes, Changes
    <2>4. CASE ask
      <3>1. r.kind # "inventory" /\ ~inventory
        BY <2>1, <2>3, <2>4
      <3> QED
        BY <2>2, <2>4, <3>1
    <2>5. CASE ~ask /\ inventory /\ r.kind # "inventory"
      BY <2>2, <2>5
    <2>6. CASE ~ask /\ (~inventory \/ r.kind = "inventory")
      <3>1. r.kind \notin Changes /\ queue' = queue
        BY <2>1, <2>2, <2>3, <2>6
      <3>2. IF r.kind = "inventory" THEN ~inventory' ELSE inventory' = inventory
        <4>1. CASE r.kind = "inventory"
          BY <2>2, <4>1
        <4>2. CASE r.kind # "inventory"
          <5>1. ~inventory /\ ~inventory'
            BY <2>2, <2>6, <4>2
          <5>2. inventory' \in BOOLEAN
            BY <2>2
          <5> QED
            BY <2>3, <4>2, <5>1, <5>2
        <4> QED
          BY <4>1, <4>2
      <3> QED
        BY <3>1, <3>2
    <2> QED
      BY <2>4, <2>5, <2>6
  <1>8. inventory' \in BOOLEAN /\ inventory \in BOOLEAN
    <2>1. inventory \in BOOLEAN
      BY <1>1 DEF KeyTypes
    <2>2. inventory' = (r.kind # "inventory" /\ (((r.kind = "notice" \/ Prefix!MayChange(r)) /\ ~inventory) \/ inventory))
      BY <1>5 DEF Prefix!Read
    <2> QED
      BY <2>1, <2>2
  <1>9. r.state \in States
    BY <1>5 DEF Answers
  <1>10. queue \in Seq(Commands) /\ InLine(queue) /\ Pairs(queue)
    BY <1>1 DEF KeyTypes, KeyOrder
  <1>11. /\ queue' \in Seq(Commands) /\ InLine(queue') /\ Pairs(queue')
         /\ \A i \in 1 .. Len(queue') : queue'[i].numbers = <<>> \/ \E j \in 1 .. Len(queue) : queue'[i] = queue[j]
         /\ \A S : Has(queue, S) => Has(queue', S)
    <2>1. CASE queue' = queue
      BY <1>10, <2>1
    <2>2. CASE queue' = Append(queue, Prefix!Inventory)
      <3>1. PICK q : q = queue'
        OBVIOUS
      <3>2. q = Append(queue, Prefix!Inventory)
        BY <2>2, <3>1
      <3>3. q \in Seq(Commands) /\ InLine(q) /\ Pairs(q)
        BY <1>10, <3>2, InventoryJoins
      <3>4. \A i \in 1 .. Len(q) : q[i].numbers = <<>> \/ \E j \in 1 .. Len(queue) : q[i] = queue[j]
        BY <1>10, <3>2, InventoryJoins
      <3>5. \A S : Has(queue, S) => Has(q, S)
        BY <1>10, <3>2, InventoryJoins
      <3> QED
        BY <3>1, <3>3, <3>4, <3>5
    <2> QED
      BY <1>7, <2>1, <2>2
  <1>12. KeyTypes'
    <2>1. knownKeys' \in States
      BY <1>1, <1>6, <1>9 DEF KeyTypes
    <2> QED
      BY <1>1, <1>2, <1>5, <1>8, <1>11, <2>1 DEF KeyTypes
  <1>13. KeyOrder'
    <2>1. Len(<<>>) = 0
      OBVIOUS
    <2>2. UpTo(<<>>, acts) /\ \A s : Before(s, <<>>)
      BY <2>1 DEF UpTo, Before
    <2>3. \A i \in 1 .. Len(queue) :
             /\ UpTo(queue[i].numbers, acts) /\ Before(done, queue[i].numbers)
             /\ \A j \in 1 .. Len(sent) : Before(sent[j].numbers, queue[i].numbers)
      BY <1>1 DEF KeyOrder
    <2>4. \A i \in 1 .. Len(queue') :
             /\ UpTo(queue'[i].numbers, acts) /\ Before(done, queue'[i].numbers)
             /\ \A j \in 1 .. Len(sent) : Before(sent[j].numbers, queue'[i].numbers)
      <3>1. TAKE i \in 1 .. Len(queue')
      <3>2. CASE queue'[i].numbers = <<>>
        BY <2>2, <3>2
      <3>3. CASE \E j \in 1 .. Len(queue) : queue'[i] = queue[j]
        BY <2>3, <3>3
      <3> QED
        BY <1>11, <3>2, <3>3
    <2> QED
      BY <1>1, <1>2, <1>11, <2>4 DEF KeyOrder
  <1>14. \A S : Has(replies, S) /\ r.kind \notin S => Has(Tail(replies), S)
    <2>1. replies \in Seq(Answers)
      BY <1>1 DEF KeyTypes
    <2> QED
      BY <1>2, <1>3, <2>1, HasTail
  \* A later reply of what changes the keys is still later than what is left.
  <1>15. ASSUME NEW i \in 1 .. Len(Tail(replies)), Tail(replies)[i].kind = "inventory"
         PROVE  \/ Tail(replies)[i].state.table = keyServer.table
                \/ \E j \in i + 1 .. Len(Tail(replies)) : Tail(replies)[j].kind \in Changes
    <2>1. i \in 1 .. n - 1 /\ i + 1 \in 1 .. Len(replies) /\ Tail(replies)[i] = replies[i + 1]
      BY <1>4, <1>5
    <2>2. \/ replies[i + 1].state.table = keyServer.table
          \/ \E j \in (i + 1) + 1 .. Len(replies) : replies[j].kind \in Changes
      <3>1. replies[i + 1].kind = "inventory"
        BY <1>15, <2>1
      <3> QED
        BY <1>1, <2>1, <3>1 DEF KeyTables
    <2>3. CASE replies[i + 1].state.table = keyServer.table
      BY <2>1, <2>3
    <2>4. ASSUME NEW j \in (i + 1) + 1 .. Len(replies), replies[j].kind \in Changes
          PROVE  \E k \in i + 1 .. Len(Tail(replies)) : Tail(replies)[k].kind \in Changes
      <3>1. j - 1 \in i + 1 .. n - 1 /\ j - 1 \in 1 .. n - 1 /\ (j - 1) + 1 = j
        BY <1>4, <2>1
      <3>2. Tail(replies)[j - 1] = replies[j]
        BY <1>5, <3>1
      <3> QED
        BY <1>5, <2>4, <3>1, <3>2
    <2> QED
      BY <2>2, <2>3, <2>4
  \* An inventory that is read has the server's table, or what changed it follows.
  <1>16. ASSUME r.kind = "inventory"
         PROVE  r.state.table = keyServer.table \/ Has(Tail(replies), Changes)
    <2>1. \/ r.state.table = keyServer.table
          \/ \E j \in 1 + 1 .. Len(replies) : replies[j].kind \in Changes
      BY <1>1, <1>3, <1>5, <1>16 DEF KeyTables
    <2>2. ASSUME NEW j \in 1 + 1 .. Len(replies), replies[j].kind \in Changes
          PROVE  Has(Tail(replies), Changes)
      <3>1. j - 1 \in 1 .. n - 1 /\ (j - 1) + 1 = j
        BY <1>4
      <3>2. Tail(replies)[j - 1] = replies[j]
        BY <1>5, <3>1
      <3> QED
        BY <1>5, <2>2, <3>1, <3>2 DEF Has
    <2> QED
      BY <2>1, <2>2
  <1>17. ASSUME NEW S, OnItsWay(S), r.kind \notin S PROVE OnItsWay(S)'
    <2>1. CASE Has(queue, S)
      BY <1>11, <2>1 DEF OnItsWay
    <2>2. CASE Has(sent, S)
      BY <1>2, <2>2 DEF OnItsWay
    <2>3. CASE Has(replies, S)
      BY <1>2, <1>14, <1>17, <2>3 DEF OnItsWay
    <2> QED
      BY <1>17, <2>1, <2>2, <2>3 DEF OnItsWay
  <1>18. knownKeys'.table = keyServer'.table \/ inventory' \/ Has(replies', Changes)
    <2>1. CASE r.kind = "inventory"
      BY <1>2, <1>6, <1>16, <2>1
    <2>2. CASE r.kind # "inventory" /\ inventory' = TRUE
      BY <2>2
    <2>3. CASE r.kind # "inventory" /\ r.kind \notin Changes /\ inventory' = inventory
      BY <1>1, <1>2, <1>6, <1>14, <2>3 DEF KeyTables
    <2> QED
      BY <1>7, <2>1, <2>2, <2>3
  <1>19. ~discarded => override' = "-" \/ inventory' \/ OnItsWay(Changes)'
    <2>1. CASE r.kind = "inventory"
      BY <1>6, <2>1
    <2>2. CASE r.kind # "inventory" /\ inventory' = TRUE
      BY <2>2
    <2>3. CASE r.kind # "inventory" /\ r.kind \notin Changes /\ inventory' = inventory
      <3>1. ~discarded => override = "-" \/ inventory \/ OnItsWay(Changes)
        BY <1>1 DEF KeyTables
      <3> QED
        BY <1>6, <1>17, <2>3, <3>1
    <2> QED
      BY <1>7, <2>1, <2>2, <2>3
  <1>20. ~discarded /\ inventory' => OnItsWay({"inventory"})'
    <2>1. CASE inventory /\ r.kind # "inventory"
      <3>1. ~discarded => OnItsWay({"inventory"})
        BY <1>1, <2>1 DEF KeyTables
      <3> QED
        BY <1>17, <2>1, <3>1
    <2>2. CASE queue' = Append(queue, Prefix!Inventory)
      <3>1. Has(queue', {"inventory"})
        BY <1>10, <2>2, InventoryJoins
      <3> QED
        BY <3>1 DEF OnItsWay
    <2>3. CASE ~inventory'
      BY <2>3
    <2> QED
      BY <1>7, <1>8, <2>1, <2>2, <2>3
  <1>21. KeyTables'
    BY <1>2, <1>15, <1>18, <1>19, <1>20 DEF KeyTables
  <1> QED
    BY <1>12, <1>13, <1>21 DEF KeyInv

-----------------------------------------------------------------------------
(* The theorem.                                                            *)

LEMMA KeyInit ==
    ASSUME Prefix!Init
    PROVE  KeyInv
  <1>1. /\ override = "-" /\ queue = <<>> /\ sent = <<>> /\ replies = <<>> /\ acts = 0 /\ done = <<>>
        /\ keyServer = [table |-> "root", active |-> CHOOSE p \in KeyPanes : TRUE, alive |-> KeyPanes]
        /\ knownKeys = keyServer
    BY DEF Prefix!Init
  <1>2. inventory = FALSE /\ discarded = FALSE
    BY DEF Prefix!Init
  <1>3. (CHOOSE p \in KeyPanes : TRUE) \in KeyPanes
    BY KeysAssumption
  <1>4. keyServer \in States
    BY <1>1, <1>3 DEF States
  <1>5. /\ Len(<<>>) = 0 /\ <<>> \in Seq(Commands) /\ <<>> \in Seq(Answers) /\ <<>> \in Seq(Nat)
    OBVIOUS
  <1>6. KeyTypes
    <2>1. inventory \in BOOLEAN /\ discarded \in BOOLEAN
      BY <1>2
    <2>2. Pairs(<<>>)
      BY <1>5 DEF Pairs
    <2> QED
      BY <1>1, <1>4, <1>5, <2>1, <2>2 DEF KeyTypes
  <1>7. KeyOrder
    BY <1>1, <1>5 DEF KeyOrder, Rising, UpTo, Before, InLine
  <1>8. KeyTables
    BY <1>1, <1>2, <1>5 DEF KeyTables
  <1> QED
    BY <1>6, <1>7, <1>8 DEF KeyInv

LEMMA KeyStep ==
    ASSUME KeyInv, [Prefix!Next]_(Prefix!keyVarsTmux)
    PROVE  KeyInv'
  <1>1. KeyTypes
    BY DEF KeyInv
  <1>2. ASSUME NEW key \in Keys, Prefix!Press(key) PROVE KeyInv'
    BY <1>1, <1>2, PressAsks, AskedKeeps
  <1>3. ASSUME Prefix!Expire PROVE KeyInv'
    BY <1>3 DEF Prefix!Expire, KeyInv, KeyTypes, KeyOrder, KeyTables, OnItsWay
  <1>4. CASE Prefix!Drain
    BY <1>4, DrainKeeps
  <1>5. CASE Prefix!Read
    BY <1>5, ReadKeeps
  <1>6. ASSUME NEW yes \in BOOLEAN, Prefix!Answer(yes) PROVE KeyInv'
    BY <1>1, <1>6, AnswerAsks, AskedKeeps
  <1>7. ASSUME NEW ok \in BOOLEAN, Prefix!Execute(ok) PROVE KeyInv'
    BY <1>7, CommandExecuteKeeps
  <1>8. ASSUME NEW pane \in KeyPanes, Prefix!Choose(pane) PROVE KeyInv'
    BY <1>1, <1>8, ChooseAsks, AskedKeeps
  <1>9. CASE UNCHANGED Prefix!keyVarsTmux
    BY <1>9 DEF Prefix!keyVarsTmux, KeyInv, KeyTypes, KeyOrder, KeyTables, OnItsWay
  <1> QED
    BY <1>2, <1>3, <1>4, <1>5, <1>6, <1>7, <1>8, <1>9 DEF Prefix!Next

LEMMA KeyInvExact ==
    ASSUME KeyInv
    PROVE  KeysExact
  <1>1. KeyTypes /\ KeyOrder /\ KeyTables
    BY DEF KeyInv
  <1>2. Prefix!ActsInOrder
    <2>1. done \in Seq(Nat) /\ Rising(done)
      BY <1>1 DEF KeyTypes, KeyOrder
    <2>2. DOMAIN done = 1 .. Len(done)
      BY <2>1
    <2> QED
      BY <2>1, <2>2 DEF Prefix!ActsInOrder, Rising
  <1>3. Prefix!KeysAreCurrent
    <2>1. SUFFICES ASSUME queue = <<>>, sent = <<>>, replies = <<>>, ~discarded
                   PROVE  ~inventory /\ override = "-" /\ knownKeys.table = keyServer.table
      BY DEF Prefix!KeysAreCurrent
    <2>2. Len(<<>>) = 0
      OBVIOUS
    <2>3. \A S : ~OnItsWay(S) /\ ~Has(replies, S)
      BY <2>1, <2>2 DEF OnItsWay, Has
    <2> QED
      BY <1>1, <2>1, <2>3 DEF KeyTables
  <1> QED
    BY <1>2, <1>3 DEF KeysExact

\* The keys act in the order pressed, and are played through tmux's tables once
\* all is answered, for any panes, keys, limit of replies and pieces of input.
THEOREM KeysActInOrder == Prefix!Spec => []KeysExact
  <1>1. Prefix!Init => KeyInv
    BY KeyInit
  <1>2. KeyInv /\ [Prefix!Next]_(Prefix!keyVarsTmux) => KeyInv'
    BY KeyStep
  <1>3. KeyInv => KeysExact
    BY KeyInvExact
  <1> QED
    BY <1>1, <1>2, <1>3, PTL DEF Prefix!Spec

-----------------------------------------------------------------------------
(* The connections: a child is younger than its parent, so a subtree is     *)
(* finished and listed deepest first.                                      *)

\* Connections o with numbers s up to m: a child is younger than its parent.
Tree(o, s, m) ==
    /\ DOMAIN o \subseteq 1 .. MaxIds
    /\ \A i \in DOMAIN o : s[i] \in 0 .. m
    /\ \A i \in DOMAIN o : o[i].parent \in DOMAIN o => s[o[i].parent] < s[i]

\* The recursion of collect_descendants goes down Rank.
Places(o) == (DOMAIN o) \X (0 .. MaxIds)
Below(o, f, p) ==
    IF p[2] = 0 THEN <<>>
    ELSE IF p[2] \in DOMAIN o /\ o[p[2]].parent = p[1]
         THEN f[<<p[1], p[2] - 1>>] \o Append(f[<<p[2], MaxIds>>], p[2])
         ELSE f[<<p[1], p[2] - 1>>]
Rank(s, m, p) == (m - s[p[1]]) * (MaxIds + 1) + p[2]

LEMMA Slots ==
    ASSUME NEW a \in Nat, NEW b \in Nat, NEW k \in Nat, a < b
    PROVE  a * k + k <= b * k
  <1>1. PICK c \in Nat : b = a + 1 + c
    <2>1. b - a - 1 \in Nat /\ b = a + 1 + (b - a - 1)
      OBVIOUS
    <2> QED
      BY <2>1
  <1>2. c * k \in Nat /\ a * k \in Nat
    OBVIOUS
  <1>3. (a + 1 + c) * k = a * k + k + c * k
    OBVIOUS
  <1> QED
    BY <1>1, <1>2, <1>3

LEMMA RankRange ==
    ASSUME NEW o, NEW s, NEW m \in Nat, Tree(o, s, m), NEW p \in Places(o)
    PROVE  Rank(s, m, p) \in 0 .. (m + 1) * (MaxIds + 1)
  <1>1. MaxIds \in Nat
    BY ConnectionsAssumption
  <1>2. PICK i \in DOMAIN o, n \in 0 .. MaxIds : p = <<i, n>>
    BY DEF Places
  <1>3. p[1] = i /\ p[2] = n
    BY <1>2
  <1>4. PICK a \in Nat : a = m - s[i] /\ a <= m
    BY DEF Tree
  <1>5. PICK k \in Nat : k = MaxIds + 1
    BY <1>1
  <1>6. a * k + k <= (m + 1) * k /\ a * k \in Nat
    BY <1>4, <1>5, Slots
  <1>7. n \in Nat /\ n <= k
    BY <1>1, <1>2, <1>5
  <1>8. PICK b \in Nat : b = a * k
    BY <1>6
  <1>9. PICK c \in Nat : c = (m + 1) * k
    BY <1>4, <1>5
  <1>10. b + n \in 0 .. c
    BY <1>6, <1>7, <1>8, <1>9
  <1> QED
    BY <1>3, <1>4, <1>5, <1>8, <1>9, <1>10 DEF Rank

LEMMA RankEarlier ==
    ASSUME NEW o, NEW s, NEW m \in Nat, Tree(o, s, m), NEW i \in DOMAIN o, NEW n \in 1 .. MaxIds
    PROVE  /\ <<i, n - 1>> \in Places(o) /\ <<i, n>> \in Places(o)
           /\ Rank(s, m, <<i, n - 1>>) < Rank(s, m, <<i, n>>)
           /\ n \in DOMAIN o /\ o[n].parent = i
                => <<n, MaxIds>> \in Places(o) /\ Rank(s, m, <<n, MaxIds>>) < Rank(s, m, <<i, n>>)
  <1>1. MaxIds \in Nat
    BY ConnectionsAssumption
  <1>2. <<i, n - 1>> \in Places(o) /\ <<i, n>> \in Places(o)
    BY <1>1 DEF Places
  <1>3. PICK k \in Nat : k = MaxIds + 1
    BY <1>1
  <1>4. PICK a \in Nat : a = m - s[i]
    BY DEF Tree
  <1>5. PICK b \in Nat : b = a * k
    BY <1>3, <1>4
  <1>6. Rank(s, m, <<i, n - 1>>) = b + (n - 1) /\ Rank(s, m, <<i, n>>) = b + n
    BY <1>3, <1>4, <1>5 DEF Rank
  <1>7. b + (n - 1) < b + n
    BY <1>5
  <1>8. ASSUME n \in DOMAIN o, o[n].parent = i
        PROVE  <<n, MaxIds>> \in Places(o) /\ Rank(s, m, <<n, MaxIds>>) < Rank(s, m, <<i, n>>)
    <2>1. <<n, MaxIds>> \in Places(o)
      BY <1>1, <1>8 DEF Places
    <2>2. s[i] < s[n] /\ s[i] \in 0 .. m /\ s[n] \in 0 .. m
      BY <1>8 DEF Tree
    <2>3. PICK c \in Nat : c = m - s[n]
      BY <2>2
    <2>4. c < a
      BY <1>4, <2>2, <2>3
    <2>5. PICK d \in Nat : d = c * k
      BY <1>3, <2>3
    <2>6. d + k <= b
      BY <1>3, <1>4, <1>5, <2>3, <2>4, <2>5, Slots
    <2>7. Rank(s, m, <<n, MaxIds>>) = d + MaxIds
      BY <1>3, <2>3, <2>5 DEF Rank
    <2>8. d + MaxIds < b + n
      BY <1>1, <1>3, <1>5, <2>5, <2>6
    <2> QED
      BY <1>6, <2>1, <2>7, <2>8
  <1> QED
    BY <1>2, <1>6, <1>7, <1>8

LEMMA BelowLooksBack ==
    ASSUME NEW o, NEW s, NEW m \in Nat, Tree(o, s, m), NEW f, NEW g, NEW p \in Places(o),
           \A y \in Places(o) : Rank(s, m, y) < Rank(s, m, p) => f[y] = g[y]
    PROVE  Below(o, f, p) = Below(o, g, p)
  <1>1. MaxIds \in Nat
    BY ConnectionsAssumption
  <1>2. PICK i \in DOMAIN o, n \in 0 .. MaxIds : p = <<i, n>>
    BY DEF Places
  <1>3. p[1] = i /\ p[2] = n
    BY <1>2
  <1>4. CASE n = 0
    BY <1>3, <1>4 DEF Below
  <1>5. CASE n # 0
    <2>1. n \in 1 .. MaxIds
      BY <1>1, <1>5
    <2>2. /\ <<i, n - 1>> \in Places(o) /\ Rank(s, m, <<i, n - 1>>) < Rank(s, m, p)
          /\ n \in DOMAIN o /\ o[n].parent = i
               => <<n, MaxIds>> \in Places(o) /\ Rank(s, m, <<n, MaxIds>>) < Rank(s, m, p)
      BY <1>2, <2>1, RankEarlier
    <2>3. f[<<i, n - 1>>] = g[<<i, n - 1>>]
      BY <2>2
    <2>4. n \in DOMAIN o /\ o[n].parent = i => f[<<n, MaxIds>>] = g[<<n, MaxIds>>]
      BY <2>2
    <2> QED
      BY <1>3, <2>3, <2>4 DEF Below
  <1> QED
    BY <1>4, <1>5

LEMMA DescendantsUnfold ==
    ASSUME NEW o, NEW s, NEW m \in Nat, Tree(o, s, m)
    PROVE  /\ Conns!Descendants(o) \in [Places(o) -> Seq(DOMAIN o)]
           /\ \A p \in Places(o) : Conns!Descendants(o)[p] = Below(o, Conns!Descendants(o), p)
  <1> DEFINE D == Places(o)
             V == Seq(DOMAIN o)
             rank == [p \in D |-> Rank(s, m, p)]
             step == [f \in [D -> V] |-> [p \in D |-> Below(o, f, p)]]
  <1>1. MaxIds \in Nat /\ (m + 1) * (MaxIds + 1) \in Nat
    BY ConnectionsAssumption
  <1>2. rank \in [D -> 0 .. (m + 1) * (MaxIds + 1)]
    BY RankRange
  <1>3. [D -> V] # {}
    <2>1. <<>> \in V
      BY EmptySeq
    <2>2. [p \in D |-> <<>>] \in [D -> V]
      BY <2>1
    <2> QED
      BY <2>2
  <1>4. ASSUME NEW f \in [D -> V], NEW p \in D
        PROVE  Below(o, f, p) \in V
    <2>1. PICK i \in DOMAIN o, n \in 0 .. MaxIds : p = <<i, n>>
      BY DEF Places
    <2>2. p[1] = i /\ p[2] = n
      BY <2>1
    <2>3. CASE n = 0
      BY <2>2, <2>3, EmptySeq DEF Below
    <2>4. CASE n # 0
      <3>1. n \in 1 .. MaxIds
        BY <1>1, <2>4
      <3>2. <<i, n - 1>> \in D
        BY <1>1, <3>1 DEF Places
      <3>3. f[<<i, n - 1>>] \in V
        BY <3>2
      <3>4. CASE n \in DOMAIN o /\ o[n].parent = i
        <4>1. <<n, MaxIds>> \in D
          BY <1>1, <3>4 DEF Places
        <4>2. f[<<n, MaxIds>>] \in V
          BY <4>1
        <4>3. Append(f[<<n, MaxIds>>], n) \in V
          BY <4>2, <3>4, AppendProperties
        <4>4. f[<<i, n - 1>>] \o Append(f[<<n, MaxIds>>], n) \in V
          BY <3>3, <4>3, ConcatProperties
        <4> QED
          BY <2>2, <2>4, <3>4, <4>4 DEF Below
      <3>5. CASE ~(n \in DOMAIN o /\ o[n].parent = i)
        BY <2>2, <2>4, <3>3, <3>5 DEF Below
      <3> QED
        BY <3>4, <3>5
    <2> QED
      BY <2>3, <2>4
  <1>5. step \in [[D -> V] -> [D -> V]]
    BY <1>4
  <1>6. ASSUME NEW f \in [D -> V], NEW g \in [D -> V], NEW p \in D,
               \A y \in D : rank[y] < rank[p] => f[y] = g[y]
        PROVE  step[f][p] = step[g][p]
    <2>1. Below(o, f, p) = Below(o, g, p)
      BY <1>6, BelowLooksBack
    <2> QED
      BY <2>1
  <1>7. PICK top : top = (m + 1) * (MaxIds + 1) /\ top \in Nat
    BY <1>1
  <1>8. PICK f \in [D -> V] : f = step[f]
    <2>1. rank \in [D -> 0 .. top]
      BY <1>2, <1>7
    <2> HIDE DEF D, V, rank, step
    <2>2. \A g, h \in [D -> V] : \A p \in D :
            (\A y \in D : rank[y] < rank[p] => g[y] = h[y]) => step[g][p] = step[h][p]
      BY <1>6
    <2>3. Recursion(D, V, top, rank, step)
      BY <1>3, <1>5, <1>7, <2>1, <2>2 DEF Recursion
    <2> QED
      BY <2>3, RankedRecursion
  <1>9. f = [p \in D |-> Below(o, f, p)]
    BY <1>8
  <1>10. PICK d : d = Conns!Descendants(o)
    OBVIOUS
  <1>11. d = CHOOSE b : b = [p \in D |-> Below(o, b, p)]
    BY <1>10 DEF Conns!Descendants, Below, Places
  <1>12. d = [p \in D |-> Below(o, d, p)]
    BY <1>9, <1>11
  <1> DEFINE F == {k \in Nat : \A p \in D : rank[p] < k => d[p] \in V}
  <1>13. \A p \in D : rank[p] \in Nat /\ rank[p] <= (m + 1) * (MaxIds + 1)
    BY <1>1, <1>2
  <1>14. 0 \in F
    <2>1. \A p \in D : ~(rank[p] < 0)
      BY <1>13
    <2> QED
      BY <2>1
  <1>15. ASSUME NEW k \in Nat, k \in F PROVE k + 1 \in F
    <2>1. PICK g : g = [p \in D |-> IF rank[p] < k THEN d[p] ELSE <<>>]
      OBVIOUS
    <2>2. g \in [D -> V]
      BY <1>15, <2>1, EmptySeq
    <2>3. ASSUME NEW p \in D, rank[p] < k + 1 PROVE d[p] \in V
      <3>1. ASSUME NEW y \in D, rank[y] < rank[p] PROVE d[y] = g[y]
        <4>1. rank[y] < k
          BY <1>13, <2>3, <3>1
        <4> QED
          BY <2>1, <4>1
      <3>2. Below(o, d, p) = Below(o, g, p)
        BY <3>1, BelowLooksBack
      <3> QED
        BY <1>4, <1>12, <2>2, <3>2
    <2> QED
      BY <2>3
  <1>16. \A p \in D : d[p] \in V
    <2> HIDE DEF F
    <2>1. PICK all \in Nat : all = (m + 1) * (MaxIds + 1) + 1
      BY <1>1
    <2>2. \A k \in 0 .. all - 1 : k \in F => k + 1 \in F
      BY <1>15, <2>1
    <2>3. all \in F
      <3>1. \A k \in 0 .. all : k \in F
        BY <1>14, <2>2, CountInduction
      <3> QED
        BY <2>1, <3>1
    <2>4. \A p \in D : rank[p] < all
      BY <1>1, <1>13, <2>1
    <2> QED
      BY <2>3, <2>4 DEF F
  <1> QED
    BY <1>10, <1>12, <1>16


\* Who is in the sequence, the connections carried by it are earlier in it.
Closed(o, q) ==
    \A k \in DOMAIN o, b \in DOMAIN q :
        o[k].parent = q[b] => \E a \in DOMAIN q : a < b /\ q[a] = k
\* The subtrees of the children of p[1] up to p[2].
Grown(o, s, p, q) ==
    /\ q \in Seq(DOMAIN o) /\ Closed(o, q)
    /\ \A k \in DOMAIN o : o[k].parent = p[1] /\ k <= p[2] => \E a \in DOMAIN q : q[a] = k
    /\ \A a \in DOMAIN q : \E c \in DOMAIN o : o[c].parent = p[1] /\ s[c] <= s[q[a]]

Joins(q, r, l, t) ==
    /\ \A a \in DOMAIN q : a \in DOMAIN t /\ t[a] = q[a]
    /\ \A a \in DOMAIN r : l + a \in DOMAIN t /\ t[l + a] = r[a]
    /\ \A b \in DOMAIN t : b \in DOMAIN q \/ \E a \in DOMAIN r : b = l + a

LEMMA JoinedPlaces ==
    ASSUME NEW S, NEW q \in Seq(S), NEW r \in Seq(S)
    PROVE  q \o r \in Seq(S) /\ Joins(q, r, Len(q), q \o r)
  <1>1. PICK m \in Nat, n \in Nat : m = Len(q) /\ n = Len(r) /\ DOMAIN q = 1 .. m /\ DOMAIN r = 1 .. n
    BY LenProperties
  <1>2. PICK t \in Seq(S) : t = q \o r
    BY ConcatProperties
  <1>3. DOMAIN t = 1 .. m + n /\ \A b \in 1 .. m + n : t[b] = IF b <= m THEN q[b] ELSE r[b - m]
    BY <1>1, <1>2, ConcatProperties, LenProperties
  <1>4. \A a \in 1 .. m : a \in 1 .. m + n /\ t[a] = q[a]
    <2>1. \A a \in 1 .. m : a \in 1 .. m + n /\ a <= m
      OBVIOUS
    <2> QED
      BY <1>3, <2>1
  <1>5. \A a \in 1 .. n : m + a \in 1 .. m + n /\ ~(m + a <= m) /\ (m + a) - m = a
    OBVIOUS
  <1>6. \A a \in 1 .. n : m + a \in 1 .. m + n /\ t[m + a] = r[a]
    BY <1>3, <1>5
  <1>7. \A b \in 1 .. m + n : b \in 1 .. m \/ (b - m \in 1 .. n /\ b = m + (b - m))
    OBVIOUS
  <1>8. Joins(q, r, m, t)
    BY <1>1, <1>3, <1>4, <1>6, <1>7 DEF Joins
  <1> QED
    BY <1>1, <1>2, <1>8

LEMMA AddedPlaces ==
    ASSUME NEW S, NEW q \in Seq(S), NEW x \in S
    PROVE  /\ Append(q, x) \in Seq(S)
           /\ \A a \in DOMAIN q : a \in DOMAIN Append(q, x) /\ Append(q, x)[a] = q[a] /\ a < Len(q) + 1
           /\ Len(q) + 1 \in DOMAIN Append(q, x) /\ Append(q, x)[Len(q) + 1] = x
           /\ \A b \in DOMAIN Append(q, x) : b \in DOMAIN q \/ b = Len(q) + 1
  <1>1. PICK m \in Nat : m = Len(q) /\ DOMAIN q = 1 .. m
    BY LenProperties
  <1>2. PICK t \in Seq(S) : t = Append(q, x)
    BY AppendProperties
  <1>3. DOMAIN t = 1 .. m + 1 /\ t[m + 1] = x /\ \A a \in 1 .. m : t[a] = q[a]
    BY <1>1, <1>2, AppendProperties, LenProperties
  <1>4. \A a \in 1 .. m : a \in 1 .. m + 1 /\ a < m + 1
    OBVIOUS
  <1>5. \A b \in 1 .. m + 1 : b \in 1 .. m \/ b = m + 1
    OBVIOUS
  <1>6. m + 1 \in 1 .. m + 1
    OBVIOUS
  <1> QED
    BY <1>1, <1>2, <1>3, <1>4, <1>5, <1>6

LEMMA ClosedJoins ==
    ASSUME NEW o, NEW S, NEW q \in Seq(S), NEW r \in Seq(S), Closed(o, q), Closed(o, r)
    PROVE  Closed(o, q \o r)
  <1>1. PICK t \in Seq(S) : t = q \o r
    BY ConcatProperties
  <1>2. PICK m \in Nat : m = Len(q) /\ DOMAIN q = 1 .. m
    BY LenProperties
  <1>3. DOMAIN r \subseteq Nat
    BY LenProperties
  <1>4. /\ \A a \in DOMAIN q : a \in DOMAIN t /\ t[a] = q[a]
        /\ \A a \in DOMAIN r : m + a \in DOMAIN t /\ t[m + a] = r[a]
        /\ \A b \in DOMAIN t : b \in DOMAIN q \/ \E a \in DOMAIN r : b = m + a
    <2>1. Joins(q, r, m, t)
      BY <1>1, <1>2, JoinedPlaces
    <2> QED
      BY <2>1 DEF Joins
  <1>5. SUFFICES ASSUME NEW k \in DOMAIN o, NEW b \in DOMAIN t, o[k].parent = t[b]
                 PROVE  \E a \in DOMAIN t : a < b /\ t[a] = k
    BY <1>1 DEF Closed
  <1>6. CASE b \in DOMAIN q
    <2>1. PICK a \in DOMAIN q : a < b /\ q[a] = k
      BY <1>4, <1>5, <1>6 DEF Closed
    <2> QED
      BY <1>4, <2>1
  <1>7. CASE \E a \in DOMAIN r : b = m + a
    <2>1. PICK c \in DOMAIN r : b = m + c
      BY <1>7
    <2>2. PICK a \in DOMAIN r : a < c /\ r[a] = k
      BY <1>4, <1>5, <2>1 DEF Closed
    <2>3. m + a < m + c
      BY <1>3, <2>2
    <2> QED
      BY <1>4, <2>1, <2>2, <2>3
  <1> QED
    BY <1>4, <1>6, <1>7

LEMMA ClosedAdds ==
    ASSUME NEW o, NEW S, NEW q \in Seq(S), NEW x \in S, Closed(o, q),
           \A k \in DOMAIN o : o[k].parent = x => \E a \in DOMAIN q : q[a] = k
    PROVE  Closed(o, Append(q, x))
  <1>1. PICK t \in Seq(S) : t = Append(q, x)
    BY AppendProperties
  <1>2. PICK m \in Nat : m = Len(q)
    BY LenProperties
  <1>3. /\ \A a \in DOMAIN q : a \in DOMAIN t /\ t[a] = q[a] /\ a < m + 1
        /\ t[m + 1] = x
        /\ \A b \in DOMAIN t : b \in DOMAIN q \/ b = m + 1
    BY <1>1, <1>2, AddedPlaces
  <1>4. SUFFICES ASSUME NEW k \in DOMAIN o, NEW b \in DOMAIN t, o[k].parent = t[b]
                 PROVE  \E a \in DOMAIN t : a < b /\ t[a] = k
    BY <1>1 DEF Closed
  <1>5. CASE b \in DOMAIN q
    <2>1. PICK a \in DOMAIN q : a < b /\ q[a] = k
      BY <1>3, <1>4, <1>5 DEF Closed
    <2> QED
      BY <1>3, <2>1
  <1>6. CASE b = m + 1
    <2>1. PICK a \in DOMAIN q : q[a] = k
      BY <1>3, <1>4, <1>6
    <2> QED
      BY <1>3, <1>6, <2>1
  <1> QED
    BY <1>3, <1>5, <1>6

LEMMA BelowGrows ==
    ASSUME NEW o, NEW s, NEW m \in Nat, Tree(o, s, m), NEW f, NEW i \in DOMAIN o, NEW n \in 1 .. MaxIds,
           Grown(o, s, <<i, n - 1>>, f[<<i, n - 1>>]),
           n \in DOMAIN o /\ o[n].parent = i => Grown(o, s, <<n, MaxIds>>, f[<<n, MaxIds>>])
    PROVE  Grown(o, s, <<i, n>>, Below(o, f, <<i, n>>))
  <1>1. PICK q : q = f[<<i, n - 1>>]
    OBVIOUS
  <1>2. /\ q \in Seq(DOMAIN o) /\ Closed(o, q)
        /\ \A k \in DOMAIN o : o[k].parent = i /\ k <= n - 1 => \E a \in DOMAIN q : q[a] = k
        /\ \A a \in DOMAIN q : \E c \in DOMAIN o : o[c].parent = i /\ s[c] <= s[q[a]]
    BY <1>1 DEF Grown
  <1>3. \A k \in DOMAIN o : k \in Nat /\ (k <= n => k <= n - 1 \/ k = n)
    BY ConnectionsAssumption DEF Tree
  <1>4. CASE ~(n \in DOMAIN o /\ o[n].parent = i)
    <2>1. Below(o, f, <<i, n>>) = q
      BY <1>1, <1>4 DEF Below
    <2>2. \A k \in DOMAIN o : o[k].parent = i /\ k <= n => k <= n - 1
      BY <1>3, <1>4
    <2> QED
      BY <1>2, <2>1, <2>2 DEF Grown
  <1>5. CASE n \in DOMAIN o /\ o[n].parent = i
    <2>1. PICK r : r = f[<<n, MaxIds>>]
      OBVIOUS
    <2>2. /\ r \in Seq(DOMAIN o) /\ Closed(o, r)
          /\ \A k \in DOMAIN o : o[k].parent = n /\ k <= MaxIds => \E a \in DOMAIN r : r[a] = k
          /\ \A a \in DOMAIN r : \E c \in DOMAIN o : o[c].parent = n /\ s[c] <= s[r[a]]
      BY <1>5, <2>1 DEF Grown
    <2>3. PICK t \in Seq(DOMAIN o) : t = Append(r, n)
      BY <1>5, <2>2, AddedPlaces
    <2>4. Below(o, f, <<i, n>>) = q \o t
      <3>1. <<i, n>>[1] = i /\ <<i, n>>[2] = n /\ n # 0
        OBVIOUS
      <3> QED
        BY <1>1, <1>5, <2>1, <2>3, <3>1 DEF Below
    <2>5. PICK u \in Seq(DOMAIN o) : u = q \o t
      BY <1>2, <2>3, JoinedPlaces
    <2>6. \A k \in DOMAIN o : k <= MaxIds
      BY ConnectionsAssumption DEF Tree
    <2>7. Closed(o, u)
      <3>1. Closed(o, t)
        BY <1>5, <2>2, <2>3, <2>6, ClosedAdds
      <3> QED
        BY <1>2, <2>3, <2>5, <3>1, ClosedJoins
    <2>8. PICK l \in Nat : l = Len(r)
      BY <2>2, LenProperties
    <2>9. /\ \A a \in DOMAIN r : a \in DOMAIN t /\ t[a] = r[a]
          /\ l + 1 \in DOMAIN t /\ t[l + 1] = n
          /\ \A b \in DOMAIN t : b \in DOMAIN r \/ b = l + 1
      BY <1>5, <2>2, <2>3, <2>8, AddedPlaces
    <2>10. PICK h \in Nat : h = Len(q)
      BY <1>2, LenProperties
    <2>11. /\ \A a \in DOMAIN q : a \in DOMAIN u /\ u[a] = q[a]
           /\ \A a \in DOMAIN t : h + a \in DOMAIN u /\ u[h + a] = t[a]
           /\ \A b \in DOMAIN u : b \in DOMAIN q \/ \E a \in DOMAIN t : b = h + a
      <3>1. Joins(q, t, h, u)
        BY <1>2, <2>3, <2>5, <2>10, JoinedPlaces
      <3> QED
        BY <3>1 DEF Joins
    <2>12. ASSUME NEW k \in DOMAIN o, o[k].parent = i, k <= n
           PROVE  \E a \in DOMAIN u : u[a] = k
      <3>1. CASE k <= n - 1
        BY <1>2, <2>11, <2>12, <3>1
      <3>2. CASE k = n
        BY <2>9, <2>11, <3>2
      <3> QED
        BY <1>3, <2>12, <3>1, <3>2
    <2>13. \A k \in DOMAIN o : s[k] \in Int
      BY DEF Tree
    <2>14. ASSUME NEW b \in DOMAIN t PROVE \E c \in DOMAIN o : o[c].parent = i /\ s[c] <= s[t[b]]
      <3>1. CASE b = l + 1
        BY <1>5, <2>9, <2>13, <3>1
      <3>2. CASE b \in DOMAIN r
        <4>1. PICK c \in DOMAIN o : o[c].parent = n /\ s[c] <= s[r[b]]
          BY <2>2, <3>2
        <4>2. s[n] < s[c]
          BY <1>5, <4>1 DEF Tree
        <4>3. r[b] \in DOMAIN o
          BY <2>2, <3>2, ElementOfSeq, LenProperties
        <4>4. s[n] <= s[r[b]]
          BY <1>5, <2>13, <4>1, <4>2, <4>3
        <4> QED
          BY <1>5, <2>9, <3>2, <4>4
      <3> QED
        BY <2>9, <3>1, <3>2
    <2>15. ASSUME NEW b \in DOMAIN u PROVE \E c \in DOMAIN o : o[c].parent = i /\ s[c] <= s[u[b]]
      <3>1. CASE b \in DOMAIN q
        BY <1>2, <2>11, <3>1
      <3>2. CASE \E a \in DOMAIN t : b = h + a
        BY <2>11, <2>14, <3>2
      <3> QED
        BY <2>11, <3>1, <3>2
    <2> QED
      BY <2>4, <2>5, <2>7, <2>12, <2>15 DEF Grown
  <1> QED
    BY <1>4, <1>5

LEMMA DescendantsGrown ==
    ASSUME NEW o, NEW s, NEW m \in Nat, Tree(o, s, m)
    PROVE  \A p \in Places(o) : Grown(o, s, p, Conns!Descendants(o)[p])
  <1>1. PICK d : d = Conns!Descendants(o)
    OBVIOUS
  <1>2. \A p \in Places(o) : d[p] = Below(o, d, p)
    BY <1>1, DescendantsUnfold
  <1>3. PICK top \in Nat : top = (m + 1) * (MaxIds + 1) + 1
    BY ConnectionsAssumption
  <1>4. \A p \in Places(o) : Rank(s, m, p) \in Nat /\ Rank(s, m, p) < top
    <2>1. PICK t \in Nat : t = (m + 1) * (MaxIds + 1)
      BY ConnectionsAssumption
    <2>2. \A p \in Places(o) : Rank(s, m, p) \in 0 .. t
      BY <2>1, RankRange
    <2> QED
      BY <1>3, <2>1, <2>2
  <1> DEFINE F == {k \in Nat : \A p \in Places(o) : Rank(s, m, p) < k => Grown(o, s, p, d[p])}
  <1>5. 0 \in F
    <2>1. \A p \in Places(o) : ~(Rank(s, m, p) < 0)
      BY <1>4
    <2> QED
      BY <2>1
  <1>6. ASSUME NEW k \in Nat, k \in F PROVE k + 1 \in F
    <2>1. ASSUME NEW p \in Places(o), Rank(s, m, p) < k + 1 PROVE Grown(o, s, p, d[p])
      <3>1. PICK i \in DOMAIN o, n \in 0 .. MaxIds : p = <<i, n>>
        BY DEF Places
      <3>2. CASE n = 0
        <4>1. d[p] = <<>>
          BY <1>2, <3>1, <3>2 DEF Below
        <4>2. \A j \in DOMAIN o : ~(j <= 0)
          BY ConnectionsAssumption DEF Tree
        <4>3. <<>> \in Seq(DOMAIN o) /\ DOMAIN <<>> = {}
          BY EmptySeq
        <4> QED
          BY <3>1, <3>2, <4>1, <4>2, <4>3 DEF Grown, Closed
      <3>3. CASE n # 0
        <4>1. n \in 1 .. MaxIds
          BY <3>3, ConnectionsAssumption
        <4>2. /\ <<i, n - 1>> \in Places(o)
              /\ Rank(s, m, <<i, n - 1>>) < Rank(s, m, p)
              /\ n \in DOMAIN o /\ o[n].parent = i
                   => <<n, MaxIds>> \in Places(o) /\ Rank(s, m, <<n, MaxIds>>) < Rank(s, m, p)
          BY <3>1, <4>1, RankEarlier
        <4>3. Grown(o, s, <<i, n - 1>>, d[<<i, n - 1>>])
          BY <1>4, <1>6, <2>1, <4>2
        <4>4. n \in DOMAIN o /\ o[n].parent = i => Grown(o, s, <<n, MaxIds>>, d[<<n, MaxIds>>])
          BY <1>4, <1>6, <2>1, <4>2
        <4>5. Grown(o, s, <<i, n>>, Below(o, d, <<i, n>>))
          BY <4>1, <4>3, <4>4, BelowGrows
        <4> QED
          BY <1>2, <3>1, <4>5
      <3> QED
        BY <3>2, <3>3
    <2> QED
      BY <2>1
  <1> HIDE DEF F
  <1>7. top \in F
    <2>1. \A k \in 0 .. top - 1 : k \in F => k + 1 \in F
      BY <1>3, <1>6
    <2> QED
      BY <1>3, <1>5, <2>1, CountInduction
  <1> QED
    BY <1>1, <1>4, <1>7 DEF F

\* A connection and everything nested in it.
Branch(o, s, i, T) ==
    /\ i \in T /\ T \subseteq DOMAIN o
    /\ \A k \in DOMAIN o : o[k].parent \in T => k \in T
    /\ \A j \in T : s[i] <= s[j]
    /\ \A j \in T \ {i} : \E c \in DOMAIN o : o[c].parent = i /\ s[c] <= s[j]

Teardown(o, s, i, q) ==
    /\ q \in Seq(DOMAIN o) /\ Closed(o, q)
    /\ \E a \in DOMAIN q : q[a] = i
    /\ \A a \in DOMAIN q : q[a] = i \/ \E c \in DOMAIN o : o[c].parent = i /\ s[c] <= s[q[a]]

LEMMA OrderIs ==
    ASSUME NEW o, NEW s, NEW m \in Nat, Tree(o, s, m), NEW i \in DOMAIN o
    PROVE  Teardown(o, s, i, Conns!TeardownOrder(o, i))
  <1> DEFINE q == Conns!TeardownOrder(o, i)
  <1>1. <<i, MaxIds>> \in Places(o)
    BY ConnectionsAssumption DEF Places
  <1>2. PICK d : d = Conns!Descendants(o)[<<i, MaxIds>>]
    OBVIOUS
  <1>3. Grown(o, s, <<i, MaxIds>>, d)
    BY <1>1, <1>2, DescendantsGrown
  <1>4. \A k \in DOMAIN o : k <= MaxIds
    BY ConnectionsAssumption DEF Tree
  <1>5. /\ d \in Seq(DOMAIN o) /\ Closed(o, d)
        /\ \A k \in DOMAIN o : o[k].parent = i => \E a \in DOMAIN d : d[a] = k
        /\ \A a \in DOMAIN d : \E c \in DOMAIN o : o[c].parent = i /\ s[c] <= s[d[a]]
    BY <1>3, <1>4 DEF Grown
  <1>6. q = Append(d, i)
    BY <1>2 DEF Conns!TeardownOrder
  <1> HIDE DEF q
  <1>7. PICK l \in Nat : l = Len(d)
    BY <1>5, LenProperties
  <1>8. /\ q \in Seq(DOMAIN o)
        /\ \A a \in DOMAIN d : a \in DOMAIN q /\ q[a] = d[a]
        /\ l + 1 \in DOMAIN q /\ q[l + 1] = i
        /\ \A b \in DOMAIN q : b \in DOMAIN d \/ b = l + 1
    BY <1>5, <1>6, <1>7, AddedPlaces
  <1>9. Closed(o, q)
    BY <1>5, <1>6, ClosedAdds
  <1>10. Teardown(o, s, i, q)
    BY <1>5, <1>8, <1>9 DEF Teardown
  <1> QED
    BY <1>10 DEF q

LEMMA SubtreeIs ==
    ASSUME NEW o, NEW s, NEW m \in Nat, Tree(o, s, m), NEW i \in DOMAIN o
    PROVE  Branch(o, s, i, Conns!Subtree(o, i))
  <1>1. PICK q : q = Conns!TeardownOrder(o, i)
    OBVIOUS
  <1>2. /\ q \in Seq(DOMAIN o) /\ Closed(o, q)
        /\ \E a \in DOMAIN q : q[a] = i
        /\ \A a \in DOMAIN q : q[a] = i \/ \E c \in DOMAIN o : o[c].parent = i /\ s[c] <= s[q[a]]
    <2>1. Teardown(o, s, i, q)
      BY <1>1, OrderIs
    <2> QED
      BY <2>1 DEF Teardown
  <1>3. PICK T : T = {q[a] : a \in DOMAIN q}
    OBVIOUS
  <1>4. Conns!Subtree(o, i) = T
    BY <1>1, <1>3 DEF Conns!Subtree, Conns!ToSet
  <1>5. \A a \in DOMAIN q : q[a] \in DOMAIN o
    BY <1>2, ElementOfSeq, LenProperties
  <1>6. i \in T /\ T \subseteq DOMAIN o
    BY <1>2, <1>3, <1>5
  <1>7. \A k \in DOMAIN o : o[k].parent \in T => k \in T
    BY <1>2, <1>3 DEF Closed
  <1>8. \A j \in T \ {i} : \E c \in DOMAIN o : o[c].parent = i /\ s[c] <= s[j]
    BY <1>2, <1>3
  <1>9. ASSUME NEW j \in T PROVE s[i] <= s[j]
    <2>1. s[i] \in Int /\ s[j] \in Int
      BY <1>6, <1>9 DEF Tree
    <2>2. CASE j = i
      BY <2>1, <2>2
    <2>3. CASE j # i
      <3>1. PICK c \in DOMAIN o : o[c].parent = i /\ s[c] <= s[j]
        BY <1>8, <1>9, <2>3
      <3>2. s[i] < s[c] /\ s[c] \in Int
        BY <3>1 DEF Tree
      <3> QED
        BY <2>1, <3>1, <3>2
    <2> QED
      BY <2>2, <2>3
  <1> QED
    BY <1>4, <1>6, <1>7, <1>8, <1>9 DEF Branch

-----------------------------------------------------------------------------
(* A cascade.                                                              *)

Cascades == [id : 1 .. MaxIds, remaining : Seq(1 .. MaxIds), awaiting : 0 .. MaxIds, serial : Nat]
\* Of the connections there were when the user asked, those nested in one that
\* is still to be detached come before it.
DeepFirst(o, s, g) ==
    /\ g.awaiting # 0 => \A k \in DOMAIN o : s[k] <= g.serial => o[k].parent # g.awaiting
    /\ \A k \in DOMAIN o, b \in DOMAIN g.remaining :
         s[k] <= g.serial /\ o[k].parent = g.remaining[b]
           => k = g.awaiting \/ \E a \in DOMAIN g.remaining : a < b /\ g.remaining[a] = k
Advanced(o, s, g, a) ==
    /\ a.ask = 0 \/ a.ask \in DOMAIN o
    /\ a.graceful = Conns!None \/ /\ a.graceful \in Cascades /\ a.graceful.awaiting # 0
                                  /\ a.graceful.serial = g.serial
                                  /\ DeepFirst(o, s, a.graceful)

LEMMA AdvanceKeeps ==
    ASSUME NEW o, NEW s, DOMAIN o \subseteq 1 .. MaxIds, NEW g \in Cascades, DeepFirst(o, s, g)
    PROVE  Advanced(o, s, g, Conns!Advance(g, o))
  <1> DEFINE r == g.remaining
             left == {k \in 1 .. Len(g.remaining) : g.remaining[k] \in DOMAIN o}
             at == CHOOSE k \in left : \A j \in left : k <= j
             next == g.remaining[at]
             after == SubSeq(g.remaining, at + 1, Len(g.remaining))
             h == [[g EXCEPT !.remaining = after] EXCEPT !.awaiting = next]
  <1>0. g # Conns!None /\ 0 \notin DOMAIN o
    BY ConnectionsAssumption DEF Cascades, Conns!None
  <1>1. CASE g.awaiting \in DOMAIN o
    <2>1. Conns!Advance(g, o) = [graceful |-> g, ask |-> 0]
      BY <1>1 DEF Conns!Advance
    <2> QED
      BY <1>0, <1>1, <2>1 DEF Advanced
  <1>2. CASE g.awaiting \notin DOMAIN o /\ left = {}
    <2>1. Conns!Advance(g, o) = [graceful |-> Conns!None, ask |-> 0]
      BY <1>0, <1>2 DEF Conns!Advance
    <2> QED
      BY <2>1 DEF Advanced
  <1>3. CASE g.awaiting \notin DOMAIN o /\ left # {}
    <2>1. PICK n \in Nat : n = Len(r) /\ DOMAIN r = 1 .. n
      BY LenProperties DEF Cascades
    <2>2. r \in Seq(1 .. MaxIds) /\ \A k \in 1 .. n : r[k] \in 1 .. MaxIds
      BY <2>1, ElementOfSeq DEF Cascades
    <2>3. left \subseteq 1 .. n /\ IsFiniteSet(left) /\ left \in SUBSET Int
      <3>1. IsFiniteSet(1 .. n)
        BY FS_Interval
      <3> QED
        BY <2>1, <3>1, FS_Subset
    <2>4. at \in left /\ \A j \in left : at <= j
      <3>1. \E k \in left : \A j \in left : k <= j
        BY <1>3, <2>3, SmallestExists
      <3> QED
        BY <3>1
    <2>5. Conns!Advance(g, o) = [graceful |-> h, ask |-> next]
      BY <1>0, <1>3 DEF Conns!Advance
    <2>6. at \in 1 .. n /\ next \in DOMAIN o /\ next \in 1 .. MaxIds
      BY <2>1, <2>2, <2>4
    <2> HIDE DEF at
    <2>7. /\ after \in Seq(1 .. MaxIds) /\ DOMAIN after = 1 .. n - at
          /\ \A b \in 1 .. n - at : after[b] = r[at + b]
      <3>1. \A k \in at + 1 .. n : r[k] \in 1 .. MaxIds
        BY <2>2, <2>6
      <3>2. after = SubSeq(r, at + 1, n)
        BY <2>1
      <3>3. after \in Seq(1 .. MaxIds) /\ Len(after) = n - at /\ \A b \in 1 .. n - at : after[b] = r[at + b]
        BY <2>2, <2>6, <3>1, <3>2, SubSeqProperties
      <3> QED
        BY <3>3, LenProperties
    <2>10. next = r[at]
      OBVIOUS
    <2> HIDE DEF next, after
    <2>8. /\ h \in Cascades /\ h.awaiting = next /\ h.remaining = after /\ h.serial = g.serial
      <3>1. next \in 0 .. MaxIds
        BY <2>6
      <3> QED
        BY <2>7, <3>1 DEF Cascades
    <2> HIDE DEF h
    <2>9. ASSUME NEW k \in DOMAIN o, s[k] <= g.serial, NEW b \in 1 .. n, o[k].parent = r[b]
          PROVE  \E a \in 1 .. n : a < b /\ r[a] = k /\ at <= a
      <3>1. k # g.awaiting
        BY <1>3
      <3>2. PICK a \in 1 .. n : a < b /\ r[a] = k
        BY <2>1, <2>9, <3>1 DEF DeepFirst
      <3>3. a \in left
        BY <2>1, <3>2
      <3> QED
        BY <2>4, <3>2, <3>3
    <2>11. ASSUME NEW k \in DOMAIN o, s[k] <= g.serial PROVE o[k].parent # next
      <3>1. SUFFICES ASSUME o[k].parent = next PROVE FALSE
        OBVIOUS
      <3>2. PICK a \in 1 .. n : a < at /\ r[a] = k /\ at <= a
        BY <2>6, <2>9, <2>10, <2>11, <3>1
      <3> QED
        BY <2>6, <3>2
    <2>12. ASSUME NEW k \in DOMAIN o, NEW b \in 1 .. n - at, s[k] <= g.serial, o[k].parent = after[b]
           PROVE  k = next \/ \E a \in 1 .. n - at : a < b /\ after[a] = k
      <3>1. at + b \in 1 .. n
        BY <2>6
      <3>2. o[k].parent = r[at + b]
        BY <2>7, <2>12
      <3>3. PICK a \in 1 .. n : a < at + b /\ r[a] = k /\ at <= a
        BY <2>9, <2>12, <3>1, <3>2
      <3>4. CASE a = at
        BY <2>10, <3>3, <3>4
      <3>5. CASE a # at
        <4>1. a - at \in 1 .. n - at /\ a - at < b /\ at + (a - at) = a
          BY <2>6, <3>3, <3>5
        <4>2. after[a - at] = k
          BY <2>7, <3>3, <4>1
        <4> QED
          BY <4>1, <4>2
      <3> QED
        BY <3>4, <3>5
    <2>13. DeepFirst(o, s, h)
      BY <2>7, <2>8, <2>11, <2>12 DEF DeepFirst
    <2>14. next # 0
      BY <2>6
    <2> QED
      BY <2>5, <2>6, <2>8, <2>13, <2>14 DEF Advanced
  <1> QED
    BY <1>1, <1>2, <1>3

LEMMA DeepFirstShrinks ==
    ASSUME NEW o, NEW s, NEW g, DeepFirst(o, s, g), NEW p, DOMAIN p \subseteq DOMAIN o,
           \A k \in DOMAIN p : p[k] = o[k]
    PROVE  DeepFirst(p, s, g)
  BY DEF DeepFirst

-----------------------------------------------------------------------------
(* What keeps the tree of connections.                                     *)

Origins == [parent : 0 .. MaxIds, pane : ConnPanes \cup {0}]
Addresses == [id : 1 .. MaxIds, serial : Nat]

\* Every connection is younger than the one that carries it.
ConnTree ==
    /\ starts \in Nat /\ serial \in [1 .. MaxIds -> Nat]
    /\ Tree(origins, serial, starts)
    /\ \A i \in DOMAIN origins : origins[i] \in Origins /\ origins[i].parent \in {0} \cup DOMAIN origins

\* A nested client is read by the gateway of its pane, a gateway reads the
\* client of its pane or none.
Gates(o, gw) ==
    /\ \A i \in DOMAIN o : o[i].parent # 0 =>
         <<o[i].parent, o[i].pane>> \in DOMAIN gw /\ gw[<<o[i].parent, o[i].pane>>] = i
    /\ \A k \in DOMAIN gw :
         /\ k \in (DOMAIN o) \X ConnPanes
         /\ gw[k] # 0 => gw[k] \in DOMAIN o /\ o[gw[k]] = [parent |-> k[1], pane |-> k[2]]

Roster(q, L) ==
    /\ q \in Seq(1 .. MaxIds)
    /\ \A i, j \in DOMAIN q : q[i] = q[j] => i = j
    /\ {q[i] : i \in DOMAIN q} = L
Addressed(q, L, s) ==
    q \in Seq(Addresses) /\ \A a \in DOMAIN q : q[a].id \in L /\ q[a].serial = s[q[a].id]
Named(c, L, s) == c = Conns!None \/ (c \in Addresses /\ c.id \in L /\ c.serial = s[c.id])
Abandoned(a) == a = Conns!None \/ a \in Addresses
Cascading(o, s, m, g) ==
    g = Conns!None \/ (g \in Cascades /\ g.awaiting # 0 /\ g.serial <= m /\ DeepFirst(o, s, g))

ConnInv ==
    /\ ConnTree
    /\ Gates(origins, gateways)
    /\ Roster(conns, DOMAIN origins)
    /\ active \in DOMAIN origins \cup {0}
    /\ Addressed(connCommands, DOMAIN origins, serial)
    /\ Named(confirm, DOMAIN origins, serial)
    /\ Abandoned(connAbandon)
    /\ Cascading(origins, serial, starts, graceful)

LEMMA ConnStarts == Conns!Init => ConnInv
  <1> SUFFICES ASSUME Conns!Init PROVE ConnInv
    OBVIOUS
  <1>1. <<>> \in Seq(1 .. MaxIds) /\ <<>> \in Seq(Addresses) /\ DOMAIN <<>> = {}
    BY EmptySeq
  <1>2. serial \in [1 .. MaxIds -> Nat]
    BY DEF Conns!Init, Conns!Ids
  <1>3. ConnTree
    BY <1>1, <1>2 DEF Conns!Init, ConnTree, Tree
  <1>4. Gates(origins, gateways) /\ Roster(conns, DOMAIN origins)
    BY <1>1 DEF Conns!Init, Gates, Roster
  <1>5. Addressed(connCommands, DOMAIN origins, serial)
    BY <1>1 DEF Conns!Init, Addressed
  <1> QED
    BY <1>3, <1>4, <1>5 DEF Conns!Init, ConnInv, Named, Abandoned, Cascading

LEMMA LiveSerial ==
    ASSUME ConnTree, NEW i \in DOMAIN origins
    PROVE  i \in 1 .. MaxIds /\ serial[i] \in Nat /\ serial[i] <= starts
           /\ Conns!Ref(i) \in Addresses /\ Conns!Ref(i).id = i /\ Conns!Ref(i).serial = serial[i]
  BY DEF ConnTree, Tree, Conns!Ref, Addresses

-----------------------------------------------------------------------------
(* A connection begins.                                                    *)

LEMMA StartingKeeps ==
    ASSUME ConnInv, NEW i \in 1 .. MaxIds, i \notin DOMAIN origins,
           NEW parent \in {0} \cup DOMAIN origins, NEW pane \in ConnPanes \cup {0},
           Conns!Starting(i, parent, pane),
           Gates(Conns!Put(origins, i, [parent |-> parent, pane |-> pane]), gateways')
    PROVE  ConnInv'
  <1> DEFINE new == [parent |-> parent, pane |-> pane]
  <1>1. /\ starts' = starts + 1 /\ origins' = Conns!Put(origins, i, new)
        /\ conns' = Append(conns, i) /\ active' = i
        /\ serial' = [serial EXCEPT ![i] = starts + 1] /\ confirm' = Conns!None
        /\ connCommands' = connCommands /\ connAbandon' = connAbandon /\ graceful' = graceful
    BY DEF Conns!Starting
  <1>2. /\ DOMAIN origins' = DOMAIN origins \cup {i} /\ origins'[i] = new
        /\ \A j \in DOMAIN origins : j # i /\ origins'[j] = origins[j]
    BY <1>1 DEF Conns!Put
  <1>3. /\ starts \in Nat /\ serial \in [1 .. MaxIds -> Nat] /\ DOMAIN origins \subseteq 1 .. MaxIds
        /\ \A j \in DOMAIN origins : serial[j] \in 0 .. starts
        /\ \A j \in DOMAIN origins :
             origins[j].parent \in DOMAIN origins => serial[origins[j].parent] < serial[j]
        /\ \A j \in DOMAIN origins : origins[j] \in Origins /\ origins[j].parent \in {0} \cup DOMAIN origins
    BY DEF ConnInv, ConnTree, Tree
  <1>4. /\ serial' \in [1 .. MaxIds -> Nat] /\ serial'[i] = starts + 1
        /\ \A j \in DOMAIN origins : serial'[j] = serial[j]
    BY <1>1, <1>2, <1>3
  <1>5. new \in Origins /\ new.parent = parent /\ new.pane = pane
    BY <1>3, ConnectionsAssumption DEF Origins
  <1> HIDE DEF new
  <1>6. i # 0 /\ 0 \notin DOMAIN origins
    BY <1>3
  <1>7. ConnTree'
    <2>1. \A j \in DOMAIN origins' : serial'[j] \in 0 .. starts'
      BY <1>1, <1>2, <1>3, <1>4
    <2>2. ASSUME NEW j \in DOMAIN origins', origins'[j].parent \in DOMAIN origins'
          PROVE  serial'[origins'[j].parent] < serial'[j]
      <3>1. CASE j = i
        <4>1. parent \in DOMAIN origins
          BY <1>2, <1>5, <1>6, <2>2, <3>1
        <4>2. serial'[parent] = serial[parent] /\ serial[parent] \in 0 .. starts
          BY <1>3, <1>4, <4>1
        <4> QED
          BY <1>2, <1>3, <1>4, <1>5, <3>1, <4>2
      <3>2. CASE j # i
        <4>1. j \in DOMAIN origins /\ origins'[j] = origins[j]
          BY <1>2, <2>2, <3>2
        <4>2. origins[j].parent \in DOMAIN origins
          BY <1>2, <1>3, <1>6, <2>2, <4>1
        <4> QED
          BY <1>3, <1>4, <4>1, <4>2
      <3> QED
        BY <3>1, <3>2
    <2>3. ASSUME NEW j \in DOMAIN origins'
          PROVE  origins'[j] \in Origins /\ origins'[j].parent \in {0} \cup DOMAIN origins'
      BY <1>2, <1>3, <1>5
    <2>4. DOMAIN origins' \subseteq 1 .. MaxIds /\ starts' \in Nat
      BY <1>1, <1>2, <1>3
    <2> QED
      BY <1>4, <2>1, <2>2, <2>3, <2>4 DEF ConnTree, Tree
  <1>8. Roster(conns, DOMAIN origins)'
    <2>1. PICK q \in Seq(1 .. MaxIds) : q = conns
      BY DEF ConnInv, Roster
    <2>2. PICK l \in Nat : l = Len(q)
      BY LenProperties
    <2>3. PICK t \in Seq(1 .. MaxIds) : t = Append(q, i)
      BY AddedPlaces
    <2>4. /\ \A a \in DOMAIN q : a \in DOMAIN t /\ t[a] = q[a] /\ a < l + 1
          /\ l + 1 \in DOMAIN t /\ t[l + 1] = i
          /\ \A b \in DOMAIN t : b \in DOMAIN q \/ b = l + 1
      BY <2>2, <2>3, AddedPlaces
    <2>5. /\ \A a, b \in DOMAIN q : q[a] = q[b] => a = b
          /\ {q[a] : a \in DOMAIN q} = DOMAIN origins
      BY <2>1 DEF ConnInv, Roster
    <2>6. \A a, b \in DOMAIN t : t[a] = t[b] => a = b
      BY <2>4, <2>5
    <2>7. {t[a] : a \in DOMAIN t} = DOMAIN origins \cup {i}
      BY <2>4, <2>5
    <2> QED
      BY <1>1, <1>2, <2>1, <2>3, <2>6, <2>7 DEF Roster
  <1>9. Addressed(connCommands, DOMAIN origins, serial)'
    BY <1>1, <1>2, <1>4 DEF ConnInv, Addressed
  <1>10. Cascading(origins, serial, starts, graceful)'
    <2>1. CASE graceful = Conns!None
      BY <1>1, <2>1 DEF Cascading
    <2>2. CASE graceful # Conns!None
      <3>1. graceful \in Cascades /\ graceful.awaiting # 0 /\ graceful.serial <= starts
            /\ DeepFirst(origins, serial, graceful)
        BY <2>2 DEF ConnInv, Cascading
      <3>2. graceful.serial \in Nat /\ graceful.serial <= starts + 1
        BY <1>3, <3>1 DEF Cascades
      <3>3. \A k \in DOMAIN origins' :
              serial'[k] <= graceful.serial => k \in DOMAIN origins /\ serial[k] <= graceful.serial
                                                 /\ origins'[k] = origins[k]
        BY <1>2, <1>3, <1>4, <3>1, <3>2
      <3>4. DeepFirst(origins', serial', graceful)
        BY <3>1, <3>3 DEF DeepFirst
      <3> QED
        BY <1>1, <3>1, <3>2, <3>4 DEF Cascading
    <2> QED
      BY <2>1, <2>2
  <1>11. Abandoned(connAbandon)'
    BY <1>1 DEF ConnInv
  <1>12. Gates(origins, gateways)'
    BY <1>1 DEF new
  <1> QED
    BY <1>1, <1>2, <1>7, <1>8, <1>9, <1>10, <1>11, <1>12 DEF ConnInv, Named

\* The oldest connection is the root's.
LEMMA RootLives ==
    ASSUME ConnTree, \A i \in DOMAIN origins : origins[i].parent # 0
    PROVE  DOMAIN origins = {}
  <1> SUFFICES ASSUME DOMAIN origins # {} PROVE FALSE
    OBVIOUS
  <1> DEFINE S == {serial[i] : i \in DOMAIN origins}
  <1>1. DOMAIN origins \subseteq 1 .. MaxIds /\ \A i \in DOMAIN origins : serial[i] \in 0 .. starts
    BY DEF ConnTree, Tree
  <1>2. S \in SUBSET Int /\ S # {} /\ IsFiniteSet(S)
    <2>1. S \subseteq 0 .. starts /\ starts \in Nat
      BY <1>1 DEF ConnTree
    <2>2. IsFiniteSet(0 .. starts)
      BY <2>1, FS_Interval
    <2> QED
      BY <2>1, <2>2, FS_Subset
  <1>3. PICK x \in S : \A y \in S : x <= y
    <2> HIDE DEF S
    <2> QED
      BY <1>2, SmallestExists
  <1>4. PICK i \in DOMAIN origins : \A j \in DOMAIN origins : serial[i] <= serial[j]
    BY <1>3
  <1>5. origins[i].parent \in DOMAIN origins
    BY DEF ConnTree
  <1>6. serial[origins[i].parent] < serial[i]
    BY <1>5 DEF ConnTree, Tree
  <1> QED
    BY <1>1, <1>4, <1>5, <1>6

LEMMA StartRootKeeps == ASSUME ConnInv, Conns!StartRoot PROVE ConnInv'
  <1>1. DOMAIN origins = {}
    BY RootLives DEF ConnInv, Conns!StartRoot, Conns!Live
  <1>2. Gates(Conns!Put(origins, 1, [parent |-> 0, pane |-> 0]), gateways')
    <2>1. PICK o : o = Conns!Put(origins, 1, [parent |-> 0, pane |-> 0])
      OBVIOUS
    <2>2. DOMAIN o = {1} /\ o[1].parent = 0
      BY <1>1, <2>1 DEF Conns!Put
    <2>3. DOMAIN gateways = {} /\ gateways' = gateways
      BY <1>1 DEF ConnInv, Gates, Conns!StartRoot
    <2> QED
      BY <2>1, <2>2, <2>3 DEF Gates
  <1>3. 1 \in 1 .. MaxIds /\ 1 \notin DOMAIN origins
    BY <1>1, ConnectionsAssumption
  <1> QED
    BY <1>2, <1>3, StartingKeeps DEF Conns!StartRoot

LEMMA StartNestedKeeps ==
    ASSUME ConnInv, NEW p \in 1 .. MaxIds, NEW pane \in ConnPanes, Conns!StartNested(p, pane)
    PROVE  ConnInv'
  <1> DEFINE free == {i \in 1 .. MaxIds : i \notin DOMAIN origins}
             key == <<p, pane>>
  <1>1. {conns[i] : i \in DOMAIN conns} = DOMAIN origins /\ DOMAIN origins \subseteq 1 .. MaxIds
    BY DEF ConnInv, Roster, ConnTree, Tree
  <1>2. p \in DOMAIN origins /\ DOMAIN origins # 1 .. MaxIds
        /\ (key \in DOMAIN gateways => gateways[key] = 0)
    BY <1>1 DEF Conns!StartNested, Conns!Live, Conns!ToSet, Conns!Ids
  <1>3. PICK n \in free : \A j \in free : n <= j
    <2>1. free \in SUBSET Int /\ free # {} /\ IsFiniteSet(free)
      <3>1. IsFiniteSet(1 .. MaxIds)
        BY ConnectionsAssumption, FS_Interval
      <3>2. free \subseteq 1 .. MaxIds /\ 1 .. MaxIds \subseteq Int
        BY ConnectionsAssumption
      <3>3. IsFiniteSet(free)
        <4> HIDE DEF free
        <4> QED
          BY <3>1, <3>2, FS_Subset
      <3>4. free # {}
        BY <1>1, <1>2
      <3> QED
        BY <3>2, <3>3, <3>4
    <2> HIDE DEF free
    <2> QED
      BY <2>1, SmallestExists
  <1>4. \A j \in 1 .. n - 1 : j \in DOMAIN origins
    BY <1>3, ConnectionsAssumption
  <1>5. PICK i \in 1 .. MaxIds : i = Conns!NextId /\ i \notin DOMAIN origins
    <2>1. Conns!NextId \in 1 .. MaxIds /\ Conns!NextId \notin DOMAIN origins
      BY <1>1, <1>3, <1>4 DEF Conns!NextId, Conns!ToSet, Conns!Ids
    <2> QED
      BY <2>1
  <1>6. gateways' = Conns!Put(gateways, key, i) /\ Conns!Starting(i, p, pane)
    BY <1>5 DEF Conns!StartNested
  <1>7. PICK o : o = Conns!Put(origins, i, [parent |-> p, pane |-> pane])
    OBVIOUS
  <1>8. /\ DOMAIN o = DOMAIN origins \cup {i} /\ o[i] = [parent |-> p, pane |-> pane]
        /\ \A j \in DOMAIN origins : j # i /\ o[j] = origins[j]
    BY <1>5, <1>7 DEF Conns!Put
  <1>9. /\ DOMAIN gateways' = DOMAIN gateways \cup {key} /\ gateways'[key] = i
        /\ \A k \in DOMAIN gateways : k # key => gateways'[k] = gateways[k]
    BY <1>6 DEF Conns!Put
  <1>10. Gates(o, gateways')
    <2>1. ASSUME NEW j \in DOMAIN o, o[j].parent # 0
          PROVE  /\ <<o[j].parent, o[j].pane>> \in DOMAIN gateways'
                 /\ gateways'[<<o[j].parent, o[j].pane>>] = j
      <3>1. CASE j = i
        BY <1>8, <1>9, <3>1
      <3>2. CASE j # i
        <4>1. PICK k : k = <<origins[j].parent, origins[j].pane>>
          OBVIOUS
        <4>2. j \in DOMAIN origins /\ k \in DOMAIN gateways /\ gateways[k] = j /\ j # 0
              /\ <<o[j].parent, o[j].pane>> = k
          BY <1>1, <1>8, <2>1, <3>2, <4>1 DEF ConnInv, Gates
        <4>3. k # key
          BY <1>2, <4>2
        <4> QED
          BY <1>9, <4>2, <4>3
      <3> QED
        BY <3>1, <3>2
    <2>2. ASSUME NEW k \in DOMAIN gateways'
          PROVE  /\ k \in (DOMAIN o) \X ConnPanes
                 /\ gateways'[k] # 0 => gateways'[k] \in DOMAIN o
                                        /\ o[gateways'[k]] = [parent |-> k[1], pane |-> k[2]]
      <3>1. CASE k = key
        BY <1>2, <1>8, <1>9, <3>1
      <3>2. CASE k # key
        <4>1. k \in DOMAIN gateways /\ gateways'[k] = gateways[k]
          BY <1>9, <2>2, <3>2
        <4>2. /\ k \in (DOMAIN origins) \X ConnPanes
              /\ gateways[k] # 0 => gateways[k] \in DOMAIN origins
                                     /\ origins[gateways[k]] = [parent |-> k[1], pane |-> k[2]]
          BY <4>1 DEF ConnInv, Gates
        <4> QED
          BY <1>8, <4>1, <4>2
      <3> QED
        BY <3>1, <3>2
    <2> QED
      BY <2>1, <2>2 DEF Gates
  <1> QED
    BY <1>2, <1>5, <1>6, <1>7, <1>10, StartingKeeps

-----------------------------------------------------------------------------
(* Connections end.                                                        *)

\* What goes takes what is nested in it along.
Goes(o, R) == R \subseteq DOMAIN o /\ \A k \in DOMAIN o : o[k].parent \in R => k \in R

LEMMA BranchGoes ==
    ASSUME ConnTree, NEW i \in DOMAIN origins
    PROVE  Goes(origins, Conns!Subtree(origins, i)) /\ i \in Conns!Subtree(origins, i)
  <1>1. PICK T : T = Conns!Subtree(origins, i)
    OBVIOUS
  <1>2. Branch(origins, serial, i, T)
    BY <1>1, SubtreeIs DEF ConnTree
  <1> QED
    BY <1>1, <1>2 DEF Branch, Goes

LEMMA RosterLeft ==
    ASSUME NEW q, NEW L, Roster(q, L), NEW R
    PROVE  Roster(Filter(q, (1 .. MaxIds) \ R), L \ R)
  <1>1. /\ q \in Seq(1 .. MaxIds) /\ {q[i] : i \in DOMAIN q} = L
        /\ \A i, j \in DOMAIN q : q[i] = q[j] => i = j
    BY DEF Roster
  <1>2. PICK A : A = (1 .. MaxIds) \ R
    OBVIOUS
  <1>3. PICK t : t = Filter(q, A)
    OBVIOUS
  <1>4. t \in Seq(1 .. MaxIds) /\ t \in Seq((1 .. MaxIds) \cap A)
    BY <1>1, <1>3, FilterType
  <1>5. PICK m \in Nat, n \in Nat : m = Len(q) /\ DOMAIN q = 1 .. m /\ n = Len(t) /\ DOMAIN t = 1 .. n
    BY <1>1, <1>4, LenProperties
  <1>6. PICK p : FilterAt(q, A, p)
    BY <1>1, FilterOrder
  <1>7. /\ \A i \in 1 .. n : p[i] \in 1 .. m /\ t[i] = q[p[i]]
        /\ \A i, j \in 1 .. n : i < j => p[i] < p[j]
    BY <1>3, <1>5, <1>6 DEF FilterAt
  <1>8. \A i \in 1 .. n : t[i] \in (1 .. MaxIds) \cap A
    BY <1>4, <1>5, ElementOfSeq
  <1>9. ASSUME NEW i \in 1 .. n, NEW j \in 1 .. n, t[i] = t[j] PROVE i = j
    <2>1. p[i] = p[j]
      BY <1>1, <1>5, <1>7, <1>9
    <2>2. p[i] \in 1 .. m /\ p[j] \in 1 .. m
      BY <1>7
    <2>3. ~(i < j) /\ ~(j < i)
      BY <1>7, <2>1, <2>2
    <2> QED
      BY <2>3
  <1>10. \A i \in 1 .. n : t[i] \in L \ R
    BY <1>1, <1>2, <1>5, <1>7, <1>8
  <1>11. ASSUME NEW x \in L \ R PROVE \E j \in 1 .. n : t[j] = x
    <2>1. PICK i \in 1 .. m : q[i] = x
      BY <1>1, <1>5
    <2>2. q[i] \in A
      <3>1. q[i] \in 1 .. MaxIds
        BY <1>1, <1>5, ElementOfSeq
      <3> QED
        BY <1>2, <2>1, <3>1
    <2>3. \E j \in 1 .. Len(Filter(q, A)) : Filter(q, A)[j] = q[i]
      BY <1>1, <1>5, <2>2, FilterHas
    <2> QED
      BY <1>3, <1>5, <2>1, <2>3
  <1>12. {t[i] : i \in 1 .. n} = L \ R
    BY <1>10, <1>11
  <1>13. Roster(t, L \ R)
    BY <1>4, <1>5, <1>9, <1>12 DEF Roster
  <1> QED
    BY <1>2, <1>3, <1>13

LEMMA AddressedLeft ==
    ASSUME NEW q, NEW L, NEW s, Addressed(q, L, s), NEW A, NEW R,
           \A a \in DOMAIN q : q[a] \in A => q[a].id \notin R
    PROVE  Addressed(Filter(q, A), L \ R, s)
  <1>1. q \in Seq(Addresses) /\ \A a \in DOMAIN q : q[a].id \in L /\ q[a].serial = s[q[a].id]
    BY DEF Addressed
  <1>2. PICK t : t = Filter(q, A)
    OBVIOUS
  <1>3. t \in Seq(Addresses) /\ t \in Seq(Addresses \cap A)
    BY <1>1, <1>2, FilterType
  <1>4. PICK m \in Nat, n \in Nat : m = Len(q) /\ DOMAIN q = 1 .. m /\ n = Len(t) /\ DOMAIN t = 1 .. n
    BY <1>1, <1>3, LenProperties
  <1>5. PICK p : FilterAt(q, A, p)
    BY <1>1, FilterOrder
  <1>6. \A i \in 1 .. n : p[i] \in 1 .. m /\ t[i] = q[p[i]]
    BY <1>2, <1>4, <1>5 DEF FilterAt
  <1>7. \A i \in 1 .. n : t[i] \in Addresses \cap A
    BY <1>3, <1>4, ElementOfSeq
  <1>8. ASSUME NEW a \in 1 .. n PROVE t[a].id \in L \ R /\ t[a].serial = s[t[a].id]
    <2>1. p[a] \in DOMAIN q /\ t[a] = q[p[a]] /\ q[p[a]] \in A
      BY <1>4, <1>6, <1>7
    <2> QED
      BY <1>1, <2>1
  <1>9. Addressed(t, L \ R, s)
    BY <1>3, <1>4, <1>8 DEF Addressed
  <1> QED
    BY <1>2, <1>9

LEMMA GatesLeft ==
    ASSUME NEW o, NEW R, Goes(o, R), NEW gw,
           \A i \in DOMAIN o \ R : o[i].parent # 0 =>
             <<o[i].parent, o[i].pane>> \in DOMAIN gw /\ gw[<<o[i].parent, o[i].pane>>] = i,
           \A k \in DOMAIN gw :
             /\ k \in (DOMAIN o) \X ConnPanes
             /\ gw[k] # 0 => gw[k] \in DOMAIN o /\ o[gw[k]] = [parent |-> k[1], pane |-> k[2]]
    PROVE  Gates(Conns!Without(o, R), Conns!Cleaned(gw, R))
  <1>1. PICK p : p = Conns!Without(o, R)
    OBVIOUS
  <1>2. DOMAIN p = DOMAIN o \ R /\ \A k \in DOMAIN o \ R : p[k] = o[k]
    BY <1>1 DEF Conns!Without, Conns!Restrict
  <1>3. PICK h : h = Conns!Cleaned(gw, R)
    OBVIOUS
  <1>4. /\ DOMAIN h = {k \in DOMAIN gw : k[1] \notin R}
        /\ \A k \in DOMAIN h : h[k] = IF gw[k] \in R THEN 0 ELSE gw[k]
    BY <1>3 DEF Conns!Cleaned
  <1>5. ASSUME NEW i \in DOMAIN p, p[i].parent # 0
        PROVE  <<p[i].parent, p[i].pane>> \in DOMAIN h /\ h[<<p[i].parent, p[i].pane>>] = i
    <2>1. PICK k : k = <<o[i].parent, o[i].pane>>
      OBVIOUS
    <2>2. i \in DOMAIN o \ R /\ p[i] = o[i] /\ k \in DOMAIN gw /\ gw[k] = i
      BY <1>2, <1>5, <2>1
    <2>3. k[1] \notin R
      BY <2>1, <2>2 DEF Goes
    <2> QED
      BY <1>4, <2>1, <2>2, <2>3
  <1>6. ASSUME NEW k \in DOMAIN h
        PROVE  /\ k \in (DOMAIN p) \X ConnPanes
               /\ h[k] # 0 => h[k] \in DOMAIN p /\ p[h[k]] = [parent |-> k[1], pane |-> k[2]]
    <2>1. k \in DOMAIN gw /\ k[1] \notin R /\ k \in (DOMAIN o) \X ConnPanes
      BY <1>4, <1>6
    <2>2. k \in (DOMAIN p) \X ConnPanes
      BY <1>2, <2>1
    <2>3. ASSUME h[k] # 0 PROVE h[k] \in DOMAIN p /\ p[h[k]] = [parent |-> k[1], pane |-> k[2]]
      <3>1. h[k] = gw[k] /\ gw[k] \notin R
        BY <1>4, <2>3
      <3>2. gw[k] \in DOMAIN o /\ o[gw[k]] = [parent |-> k[1], pane |-> k[2]]
        BY <2>1, <2>3, <3>1
      <3> QED
        BY <1>2, <3>1, <3>2
    <2> QED
      BY <2>2, <2>3
  <1> QED
    BY <1>1, <1>3, <1>5, <1>6 DEF Gates

LEMMA TreeLeft ==
    ASSUME ConnTree, NEW R, Goes(origins, R), origins' = Conns!Without(origins, R),
           serial' = serial, starts' = starts
    PROVE  ConnTree' /\ DOMAIN origins' = DOMAIN origins \ R
           /\ \A k \in DOMAIN origins' : origins'[k] = origins[k]
  <1>1. /\ DOMAIN origins' = DOMAIN origins \ R
        /\ \A k \in DOMAIN origins' : origins'[k] = origins[k]
    BY DEF Conns!Without, Conns!Restrict
  <1>2. /\ starts \in Nat /\ serial \in [1 .. MaxIds -> Nat] /\ DOMAIN origins \subseteq 1 .. MaxIds
        /\ \A j \in DOMAIN origins : serial[j] \in 0 .. starts
        /\ \A j \in DOMAIN origins :
             origins[j].parent \in DOMAIN origins => serial[origins[j].parent] < serial[j]
        /\ \A j \in DOMAIN origins : origins[j] \in Origins /\ origins[j].parent \in {0} \cup DOMAIN origins
    BY DEF ConnTree, Tree
  <1>3. \A j \in DOMAIN origins' : origins'[j] \in Origins /\ origins'[j].parent \in {0} \cup DOMAIN origins'
    BY <1>1, <1>2 DEF Goes
  <1>4. Tree(origins', serial', starts')
    BY <1>1, <1>2 DEF Tree
  <1> QED
    BY <1>1, <1>2, <1>3, <1>4 DEF ConnTree

\* What no removal can disturb besides the cascade.
Unbroken ==
    ConnTree /\ Gates(origins, gateways) /\ Roster(conns, DOMAIN origins)

LEMMA RemovalKeeps ==
    ASSUME ConnInv, NEW R, Goes(origins, R), NEW gw,
           \A i \in DOMAIN origins \ R : origins[i].parent # 0 =>
             <<origins[i].parent, origins[i].pane>> \in DOMAIN gw
               /\ gw[<<origins[i].parent, origins[i].pane>>] = i,
           \A k \in DOMAIN gw :
             /\ k \in (DOMAIN origins) \X ConnPanes
             /\ gw[k] # 0 => gw[k] \in DOMAIN origins
                             /\ origins[gw[k]] = [parent |-> k[1], pane |-> k[2]],
           origins' = Conns!Without(origins, R), conns' = Conns!Others(R),
           gateways' = Conns!Cleaned(gw, R), serial' = serial, starts' = starts
    PROVE  Unbroken'
  <1>1. ConnTree' /\ DOMAIN origins' = DOMAIN origins \ R
    BY TreeLeft DEF ConnInv
  <1>2. Gates(origins', gateways')
    BY GatesLeft
  <1>3. Conns!Others(R) = Filter(conns, (1 .. MaxIds) \ R)
    BY DEF Conns!Others, Conns!Only, Conns!Ids, Filter
  <1>4. Roster(conns', DOMAIN origins')
    BY <1>1, <1>3, RosterLeft DEF ConnInv
  <1> QED
    BY <1>1, <1>2, <1>4 DEF Unbroken

LEMMA CommandsLeft ==
    ASSUME ConnInv, NEW R
    PROVE  Addressed(Conns!CommandsOfOthers(R), DOMAIN origins \ R, serial)
  <1>1. PICK A : A = {c \in {connCommands[a] : a \in DOMAIN connCommands} : c.id \notin R}
    OBVIOUS
  <1>2. Conns!CommandsOfOthers(R) = Filter(connCommands, A)
    BY <1>1 DEF Conns!CommandsOfOthers, Conns!Only, Conns!ToSet, Filter
  <1>3. \A a \in DOMAIN connCommands : connCommands[a] \in A => connCommands[a].id \notin R
    BY <1>1
  <1>4. Addressed(connCommands, DOMAIN origins, serial)
    BY DEF ConnInv
  <1>5. Addressed(Filter(connCommands, A), DOMAIN origins \ R, serial)
    BY <1>3, <1>4, AddressedLeft
  <1> QED
    BY <1>2, <1>5

LEMMA AskKeeps ==
    ASSUME ConnTree, NEW L \in SUBSET (DOMAIN origins), NEW q, Addressed(q, L, serial), NEW i,
           i = 0 \/ i \in L, Conns!Ask(i, q)
    PROVE  Addressed(connCommands', L, serial)
  <1>1. CASE i = 0
    BY <1>1 DEF Conns!Ask
  <1>2. CASE i # 0
    <2>1. PICK c \in Addresses : c = Conns!Ref(i) /\ c.id = i /\ c.serial = serial[i]
      BY <1>2, LiveSerial
    <2>2. q \in Seq(Addresses) /\ \A a \in DOMAIN q : q[a].id \in L /\ q[a].serial = serial[q[a].id]
      BY DEF Addressed
    <2>3. PICK t \in Seq(Addresses) : t = Append(q, c)
      BY <2>2, AddedPlaces
    <2>4. PICK l \in Nat : l = Len(q)
      BY <2>2, LenProperties
    <2>5. /\ \A a \in DOMAIN q : a \in DOMAIN t /\ t[a] = q[a]
          /\ l + 1 \in DOMAIN t /\ t[l + 1] = c
          /\ \A b \in DOMAIN t : b \in DOMAIN q \/ b = l + 1
      BY <2>2, <2>3, <2>4, AddedPlaces
    <2>6. \A b \in DOMAIN t : t[b].id \in L /\ t[b].serial = serial[t[b].id]
      BY <1>2, <2>1, <2>2, <2>5
    <2>7. connCommands' = t
      BY <1>2, <2>1, <2>3 DEF Conns!Ask
    <2> QED
      BY <2>3, <2>6, <2>7 DEF Addressed
  <1> QED
    BY <1>1, <1>2

LEMMA AdvanceFrom ==
    ASSUME NEW o, DOMAIN o \subseteq 1 .. MaxIds, NEW s, NEW m \in Nat, NEW g, Cascading(o, s, m, g),
           NEW p, DOMAIN p \subseteq DOMAIN o, \A k \in DOMAIN p : p[k] = o[k]
    PROVE  /\ Cascading(p, s, m, Conns!Advance(g, p).graceful)
           /\ Conns!Advance(g, p).ask = 0 \/ Conns!Advance(g, p).ask \in DOMAIN p
  <1>1. CASE g = Conns!None
    <2>1. Conns!Advance(g, p) = [graceful |-> g, ask |-> 0]
      BY <1>1 DEF Conns!Advance
    <2> QED
      BY <1>1, <2>1 DEF Cascading
  <1>2. CASE g # Conns!None
    <2>1. g \in Cascades /\ g.serial <= m /\ DeepFirst(o, s, g)
      BY <1>2 DEF Cascading
    <2>2. DeepFirst(p, s, g)
      BY <2>1, DeepFirstShrinks
    <2>3. PICK a : a = Conns!Advance(g, p)
      OBVIOUS
    <2>4. Advanced(p, s, g, a)
      BY <2>1, <2>2, <2>3, AdvanceKeeps
    <2> QED
      BY <2>1, <2>3, <2>4 DEF Advanced, Cascading
  <1> QED
    BY <1>1, <1>2

LEMMA NamedLeft ==
    ASSUME NEW c, NEW L, NEW s, NEW R, Named(c, L, s)
    PROVE  Named(IF c.id \in R THEN Conns!None ELSE c, L \ R, s)
  BY DEF Named

LEMMA EndKeeps ==
    ASSUME ConnInv, NEW i \in DOMAIN origins, NEW R, R = Conns!Subtree(origins, i), NEW gw, NEW strays,
           \A j \in DOMAIN origins \ R : origins[j].parent # 0 =>
             <<origins[j].parent, origins[j].pane>> \in DOMAIN gw
               /\ gw[<<origins[j].parent, origins[j].pane>>] = j,
           \A k \in DOMAIN gw :
             /\ k \in (DOMAIN origins) \X ConnPanes
             /\ gw[k] # 0 => gw[k] \in DOMAIN origins
                             /\ origins[gw[k]] = [parent |-> k[1], pane |-> k[2]],
           Conns!End(i, gw, strays)
    PROVE  ConnInv'
  <1>1. Goes(origins, R)
    BY BranchGoes DEF ConnInv
  <1>2. PICK o : o = Conns!Without(origins, R)
    OBVIOUS
  <1>3. PICK a : a = Conns!Advance(graceful, o)
    OBVIOUS
  <1>4. PICK cs : cs = Conns!Others(R)
    OBVIOUS
  <1>5. /\ origins' = o /\ conns' = cs /\ gateways' = Conns!Cleaned(gw, R)
        /\ connAbandon' = IF connAbandon.id \in R THEN Conns!None ELSE connAbandon
        /\ confirm' = IF confirm.id \in R THEN Conns!None ELSE confirm
        /\ active' = IF active = 0 \/ active \in Conns!ToSet(cs) THEN active
                     ELSE IF cs = <<>> THEN 0 ELSE Conns!Last(cs)
        /\ graceful' = a.graceful /\ Conns!Ask(a.ask, Conns!CommandsOfOthers(R))
        /\ serial' = serial /\ starts' = starts
    BY <1>2, <1>3, <1>4 DEF Conns!End
  <1>6. /\ ConnTree' /\ DOMAIN origins' = DOMAIN origins \ R
        /\ \A k \in DOMAIN origins' : origins'[k] = origins[k]
    BY <1>1, <1>2, <1>5, TreeLeft DEF ConnInv
  <1>7. Unbroken'
    BY <1>1, <1>2, <1>4, <1>5, RemovalKeeps
  <1>8. DOMAIN o = DOMAIN origins \ R /\ \A k \in DOMAIN o : o[k] = origins[k]
    BY <1>5, <1>6
  <1>9. Cascading(o, serial, starts, a.graceful) /\ (a.ask = 0 \/ a.ask \in DOMAIN o)
    <2>1. /\ DOMAIN origins \subseteq 1 .. MaxIds /\ starts \in Nat
          /\ Cascading(origins, serial, starts, graceful)
      BY DEF ConnInv, ConnTree, Tree
    <2>2. DOMAIN o \subseteq DOMAIN origins
      BY <1>8
    <2> QED
      BY <1>3, <1>8, <2>1, <2>2, AdvanceFrom
  <1>10. Addressed(connCommands', DOMAIN origins \ R, serial)
    <2>1. Addressed(Conns!CommandsOfOthers(R), DOMAIN origins \ R, serial)
      BY CommandsLeft
    <2>2. ConnTree /\ DOMAIN origins \ R \in SUBSET (DOMAIN origins)
      BY DEF ConnInv
    <2>3. a.ask = 0 \/ a.ask \in DOMAIN origins \ R
      BY <1>8, <1>9
    <2> QED
      BY <1>5, <2>1, <2>2, <2>3, AskKeeps
  <1>11. active' \in DOMAIN origins' \cup {0}
    <2>1. Roster(cs, DOMAIN origins')
      BY <1>5, <1>7 DEF Unbroken
    <2>2. cs \in Seq(1 .. MaxIds) /\ {cs[b] : b \in DOMAIN cs} = DOMAIN origins'
      BY <2>1 DEF Roster
    <2>3. Conns!ToSet(cs) = DOMAIN origins'
      BY <2>2 DEF Conns!ToSet
    <2>4. cs # <<>> => Conns!Last(cs) \in DOMAIN origins'
      <3>1. ASSUME cs # <<>> PROVE Len(cs) \in DOMAIN cs
        <4>1. PICK n \in Nat : n = Len(cs) /\ DOMAIN cs = 1 .. n
          BY <2>2, LenProperties
        <4>2. n # 0
          BY <2>2, <3>1, <4>1, EmptySeq
        <4> QED
          BY <4>1, <4>2
      <3> QED
        BY <2>2, <3>1 DEF Conns!Last
    <2> QED
      BY <1>5, <2>3, <2>4
  <1>12. Named(confirm', DOMAIN origins \ R, serial)
    BY <1>5, NamedLeft DEF ConnInv
  <1>13. Abandoned(connAbandon')
    BY <1>5 DEF ConnInv, Abandoned
  <1> QED
    BY <1>5, <1>6, <1>7, <1>9, <1>10, <1>11, <1>12, <1>13 DEF ConnInv, Unbroken

LEMMA ClientGoneKeeps ==
    ASSUME ConnInv, NEW i \in 1 .. MaxIds, Conns!ClientGone(i)
    PROVE  ConnInv'
  <1>1. PICK gw : gw = gateways
    OBVIOUS
  <1>6. PICK strays : strays = FALSE
    OBVIOUS
  <1>2. i \in DOMAIN origins /\ Conns!End(i, gw, strays) /\ Gates(origins, gw)
    BY <1>1, <1>6 DEF Conns!ClientGone, Conns!Live, ConnInv
  <1>3. PICK R : R = Conns!Subtree(origins, i)
    OBVIOUS
  <1>4. \A j \in DOMAIN origins \ R : origins[j].parent # 0 =>
          <<origins[j].parent, origins[j].pane>> \in DOMAIN gw
            /\ gw[<<origins[j].parent, origins[j].pane>>] = j
    BY <1>2 DEF Gates
  <1>5. \A k \in DOMAIN gw :
          /\ k \in (DOMAIN origins) \X ConnPanes
          /\ gw[k] # 0 => gw[k] \in DOMAIN origins
                          /\ origins[gw[k]] = [parent |-> k[1], pane |-> k[2]]
    BY <1>2 DEF Gates
  <1> QED
    BY <1>2, <1>3, <1>4, <1>5, EndKeeps

LEMMA ExpireAbandonKeeps == ASSUME ConnInv, Conns!ExpireAbandon PROVE ConnInv'
  <1>1. CASE connAbandon.id \notin DOMAIN origins
    <2>1. connAbandon' = Conns!None
          /\ UNCHANGED <<origins, conns, gateways, active, connCommands, confirm, graceful, serial, starts>>
      BY <1>1 DEF Conns!ExpireAbandon, Conns!Live
    <2> QED
      BY <2>1 DEF ConnInv, ConnTree, Abandoned
  <1>2. CASE connAbandon.id \in DOMAIN origins
    <2>1. PICK i \in DOMAIN origins : i = connAbandon.id
      BY <1>2
    <2>2. PICK key : key = <<origins[i].parent, origins[i].pane>>
      OBVIOUS
    <2>3. PICK gw : gw = IF origins[i].parent = 0 THEN gateways ELSE Conns!Put(gateways, key, 0)
      OBVIOUS
    <2>4. Conns!End(i, gw, Conns!Younger(i, connAbandon.serial))
      BY <1>2, <2>1, <2>2, <2>3 DEF Conns!ExpireAbandon, Conns!Live
    <2>5. PICK R : R = Conns!Subtree(origins, i) /\ i \in R
      BY BranchGoes DEF ConnInv
    <2>6. /\ \A j \in DOMAIN origins : origins[j].parent # 0 =>
               <<origins[j].parent, origins[j].pane>> \in DOMAIN gateways
                 /\ gateways[<<origins[j].parent, origins[j].pane>>] = j
          /\ \A k \in DOMAIN gateways :
               /\ k \in (DOMAIN origins) \X ConnPanes
               /\ gateways[k] # 0 => gateways[k] \in DOMAIN origins
                                     /\ origins[gateways[k]] = [parent |-> k[1], pane |-> k[2]]
      BY DEF ConnInv, Gates
    <2>7. \/ gw = gateways
          \/ /\ key \in DOMAIN gateways /\ gateways[key] = i /\ DOMAIN gw = DOMAIN gateways
             /\ \A k \in DOMAIN gateways : gw[k] = IF k = key THEN 0 ELSE gateways[k]
      <3>1. CASE origins[i].parent = 0
        BY <2>3, <3>1
      <3>2. CASE origins[i].parent # 0
        <4>1. key \in DOMAIN gateways /\ gateways[key] = i
          BY <2>2, <2>6, <3>2
        <4>2. gw = Conns!Put(gateways, key, 0)
          BY <2>3, <3>2
        <4>3. DOMAIN gw = DOMAIN gateways
              /\ \A k \in DOMAIN gateways : gw[k] = IF k = key THEN 0 ELSE gateways[k]
          BY <4>1, <4>2 DEF Conns!Put
        <4> QED
          BY <4>1, <4>3
      <3> QED
        BY <3>1, <3>2
    <2>8. ASSUME NEW j \in DOMAIN origins \ R, origins[j].parent # 0
          PROVE  <<origins[j].parent, origins[j].pane>> \in DOMAIN gw
                 /\ gw[<<origins[j].parent, origins[j].pane>>] = j
      <3>1. PICK k : k = <<origins[j].parent, origins[j].pane>>
        OBVIOUS
      <3>2. k \in DOMAIN gateways /\ gateways[k] = j /\ j # i
        BY <2>5, <2>6, <2>8, <3>1
      <3> QED
        BY <2>7, <3>1, <3>2
    <2>9. ASSUME NEW k \in DOMAIN gw
          PROVE  /\ k \in (DOMAIN origins) \X ConnPanes
                 /\ gw[k] # 0 => gw[k] \in DOMAIN origins
                                 /\ origins[gw[k]] = [parent |-> k[1], pane |-> k[2]]
      <3>1. k \in DOMAIN gateways /\ (gw[k] # 0 => gw[k] = gateways[k])
        BY <2>7, <2>9
      <3> QED
        BY <2>6, <3>1
    <2> QED
      BY <2>4, <2>5, <2>8, <2>9, EndKeeps
  <1> QED
    BY <1>1, <1>2

LEMMA DestroyPaneKeeps ==
    ASSUME ConnInv, NEW p \in 1 .. MaxIds, NEW pane \in ConnPanes, Conns!DestroyPane(p, pane)
    PROVE  ConnInv'
  <1>1. PICK key : key = <<p, pane>>
    OBVIOUS
  <1>2. PICK roots : roots = {i \in DOMAIN origins : origins[i] = [parent |-> p, pane |-> pane]}
    OBVIOUS
  <1>3. PICK R : R = UNION {Conns!Subtree(origins, i) : i \in roots}
    OBVIOUS
  <1>4. PICK gw : gw = Conns!Restrict(gateways, DOMAIN gateways \ {key})
    OBVIOUS
  <1>5. PICK cs : cs = Conns!Others(R)
    OBVIOUS
  <1>6. /\ p \in DOMAIN origins
        /\ origins' = Conns!Without(origins, R) /\ conns' = cs
        /\ gateways' = Conns!Cleaned(gw, R) /\ connCommands' = Conns!CommandsOfOthers(R)
        /\ confirm' = IF confirm.id \in R THEN Conns!None ELSE confirm
        /\ active' = IF active \in R THEN p ELSE active
        /\ connAbandon' = connAbandon /\ graceful' = graceful /\ serial' = serial /\ starts' = starts
    BY <1>1, <1>2, <1>3, <1>4, <1>5 DEF Conns!DestroyPane, Conns!Live
  <1>7. \A i \in roots : Branch(origins, serial, i, Conns!Subtree(origins, i))
    <2>1. TAKE i \in roots
    <2>2. i \in DOMAIN origins /\ starts \in Nat /\ Tree(origins, serial, starts)
      BY <1>2 DEF ConnInv, ConnTree
    <2> QED
      BY <2>2, SubtreeIs
  <1>8. Goes(origins, R)
    <2>1. R \subseteq DOMAIN origins
      BY <1>3, <1>7 DEF Branch
    <2>2. ASSUME NEW k \in DOMAIN origins, origins[k].parent \in R PROVE k \in R
      <3>1. PICK i \in roots : origins[k].parent \in Conns!Subtree(origins, i)
        BY <1>3, <2>2
      <3>2. k \in Conns!Subtree(origins, i)
        BY <1>7, <3>1 DEF Branch
      <3> QED
        BY <1>3, <3>2
    <2> QED
      BY <2>1, <2>2 DEF Goes
  <1>9. p \notin R
    <2>1. SUFFICES ASSUME NEW i \in roots, p \in Conns!Subtree(origins, i) PROVE FALSE
      BY <1>3
    <2>2. i \in DOMAIN origins /\ origins[i].parent = p
      BY <1>2
    <2>3. serial[i] <= serial[p]
      BY <1>7, <2>1 DEF Branch
    <2>4. serial[p] < serial[i] /\ serial[p] \in Nat /\ serial[i] \in Nat
      BY <1>6, <2>2, LiveSerial DEF ConnInv, ConnTree, Tree
    <2> QED
      BY <2>3, <2>4
  <1>10. \A i \in roots : i \in R
    BY <1>3, <1>7 DEF Branch
  <1>11. /\ \A j \in DOMAIN origins : origins[j].parent # 0 =>
               <<origins[j].parent, origins[j].pane>> \in DOMAIN gateways
                 /\ gateways[<<origins[j].parent, origins[j].pane>>] = j
         /\ \A k \in DOMAIN gateways :
               /\ k \in (DOMAIN origins) \X ConnPanes
               /\ gateways[k] # 0 => gateways[k] \in DOMAIN origins
                                     /\ origins[gateways[k]] = [parent |-> k[1], pane |-> k[2]]
    BY DEF ConnInv, Gates
  <1>12. DOMAIN gw = DOMAIN gateways \ {key} /\ \A k \in DOMAIN gw : gw[k] = gateways[k]
    BY <1>4 DEF Conns!Restrict
  <1>13. ASSUME NEW j \in DOMAIN origins \ R, origins[j].parent # 0
         PROVE  <<origins[j].parent, origins[j].pane>> \in DOMAIN gw
                /\ gw[<<origins[j].parent, origins[j].pane>>] = j
    <2>1. PICK k : k = <<origins[j].parent, origins[j].pane>>
      OBVIOUS
    <2>2. k \in DOMAIN gateways /\ gateways[k] = j
      BY <1>11, <1>13, <2>1
    <2>3. k # key
      <3>1. SUFFICES ASSUME k = key PROVE FALSE
        OBVIOUS
      <3>2. origins[j].parent = p /\ origins[j].pane = pane
        BY <1>1, <2>1, <3>1
      <3>3. origins[j] = [parent |-> origins[j].parent, pane |-> origins[j].pane]
        BY DEF ConnInv, ConnTree, Origins
      <3>4. j \in roots
        BY <1>2, <3>2, <3>3
      <3> QED
        BY <1>10, <1>13, <3>4
    <2> QED
      BY <1>12, <2>1, <2>2, <2>3
  <1>14. \A k \in DOMAIN gw :
           /\ k \in (DOMAIN origins) \X ConnPanes
           /\ gw[k] # 0 => gw[k] \in DOMAIN origins
                           /\ origins[gw[k]] = [parent |-> k[1], pane |-> k[2]]
    BY <1>11, <1>12
  <1>15. Unbroken'
    BY <1>5, <1>6, <1>8, <1>13, <1>14, RemovalKeeps
  <1>16. DOMAIN origins' = DOMAIN origins \ R /\ \A k \in DOMAIN origins' : origins'[k] = origins[k]
    BY <1>6, <1>8, TreeLeft DEF ConnInv
  <1>17. Addressed(connCommands', DOMAIN origins \ R, serial)
    BY <1>6, CommandsLeft
  <1>18. Named(confirm', DOMAIN origins \ R, serial)
    BY <1>6, NamedLeft DEF ConnInv
  <1>19. active' \in DOMAIN origins' \cup {0}
    BY <1>6, <1>9, <1>16 DEF ConnInv
  <1>20. PICK o : o = origins'
    OBVIOUS
  <1>21. Cascading(o, serial, starts, graceful)
    <2>1. DOMAIN o \subseteq DOMAIN origins /\ \A k \in DOMAIN o : o[k] = origins[k]
      BY <1>16, <1>20
    <2>2. DeepFirst(origins, serial, graceful) => DeepFirst(o, serial, graceful)
      BY <2>1, DeepFirstShrinks
    <2> QED
      BY <2>2 DEF ConnInv, Cascading
  <1> QED
    BY <1>6, <1>15, <1>16, <1>17, <1>18, <1>19, <1>20, <1>21 DEF ConnInv, Unbroken

-----------------------------------------------------------------------------
(* Requests, and what reaches the clients.                                 *)

LEMMA RequestDetachKeeps ==
    ASSUME ConnInv, NEW i \in 1 .. MaxIds, Conns!RequestDetach(i)
    PROVE  ConnInv'
  <1>1. PICK q : q = Conns!TeardownOrder(origins, i)
    OBVIOUS
  <1>2. PICK g : g = [id |-> i, remaining |-> q, awaiting |-> 0, serial |-> starts]
    OBVIOUS
  <1>3. PICK a : a = Conns!Advance(g, origins)
    OBVIOUS
  <1>4. /\ i \in DOMAIN origins /\ graceful' = a.graceful /\ connAbandon' = Conns!None
        /\ Conns!Ask(a.ask, connCommands)
        /\ UNCHANGED <<origins, conns, gateways, active, confirm, serial, starts>>
    BY <1>1, <1>2, <1>3 DEF Conns!RequestDetach, Conns!Live
  <1>5. /\ starts \in Nat /\ Tree(origins, serial, starts) /\ DOMAIN origins \subseteq 1 .. MaxIds
    BY DEF ConnInv, ConnTree, Tree
  <1>6. Teardown(origins, serial, i, q)
    BY <1>1, <1>4, <1>5, OrderIs
  <1>7. q \in Seq(DOMAIN origins) /\ Closed(origins, q)
    BY <1>6 DEF Teardown
  <1>8. g \in Cascades
    <2>1. q \in Seq(1 .. MaxIds)
      BY <1>5, <1>7, SeqMonotonic
    <2>2. 0 \in 0 .. MaxIds
      BY ConnectionsAssumption
    <2> QED
      BY <1>2, <1>5, <2>1, <2>2 DEF Cascades
  <1>9. DeepFirst(origins, serial, g)
    BY <1>2, <1>7 DEF DeepFirst, Closed
  <1>10. PICK o : o = origins
    OBVIOUS
  <1>11. Advanced(o, serial, g, a)
    BY <1>3, <1>5, <1>8, <1>9, <1>10, AdvanceKeeps
  <1>12. Cascading(origins, serial, starts, a.graceful) /\ (a.ask = 0 \/ a.ask \in DOMAIN origins)
    BY <1>2, <1>5, <1>10, <1>11 DEF Advanced, Cascading
  <1>13. PICK L : L = DOMAIN origins
    OBVIOUS
  <1>14. Addressed(connCommands', L, serial)
    <2>1. L \in SUBSET (DOMAIN origins) /\ ConnTree /\ Addressed(connCommands, L, serial)
      BY <1>13 DEF ConnInv
    <2>2. a.ask = 0 \/ a.ask \in L
      BY <1>12, <1>13
    <2> QED
      BY <1>4, <2>1, <2>2, AskKeeps
  <1> QED
    BY <1>4, <1>12, <1>13, <1>14 DEF ConnInv, ConnTree, Abandoned

LEMMA RequestAbandonKeeps ==
    ASSUME ConnInv, NEW i \in 1 .. MaxIds, Conns!RequestAbandon(i)
    PROVE  ConnInv'
  <1>1. i \in DOMAIN origins
        /\ UNCHANGED <<origins, conns, gateways, active, connCommands, connAbandon, graceful, serial, starts>>
    BY DEF Conns!RequestAbandon, Conns!Live
  <1>2. PICK T : T = Conns!Subtree(origins, i)
    OBVIOUS
  <1>3. T \subseteq DOMAIN origins
    BY <1>1, <1>2, BranchGoes DEF ConnInv, Goes
  <1>4. \E k \in DOMAIN origins : confirm' = Conns!Ref(k)
    BY <1>1, <1>2, <1>3 DEF Conns!RequestAbandon
  <1>5. Named(confirm', DOMAIN origins, serial)
    BY <1>4, LiveSerial DEF Named, ConnInv
  <1> QED
    BY <1>1, <1>5 DEF ConnInv, ConnTree

LEMMA AcceptAbandonKeeps == ASSUME ConnInv, Conns!AcceptAbandon PROVE ConnInv'
  <1>1. /\ confirm' = Conns!None
        /\ UNCHANGED <<origins, conns, gateways, active, connCommands, serial, starts>>
        /\ \/ graceful' = Conns!None /\ connAbandon' = Conns!Ref(confirm.id) /\ confirm.id \in DOMAIN origins
           \/ UNCHANGED <<graceful, connAbandon>>
    BY DEF Conns!AcceptAbandon, Conns!Live
  <1>2. confirm.id \in DOMAIN origins => Conns!Ref(confirm.id) \in Addresses
    BY LiveSerial DEF ConnInv
  <1>3. Abandoned(connAbandon')
    BY <1>1, <1>2 DEF ConnInv, Abandoned
  <1>4. Cascading(origins, serial, starts, graceful')
    BY <1>1 DEF ConnInv, Cascading
  <1> QED
    BY <1>1, <1>3, <1>4 DEF ConnInv, ConnTree, Named

LEMMA RecoverKeeps ==
    ASSUME ConnInv, NEW i \in 1 .. MaxIds, Conns!Recover(i)
    PROVE  ConnInv'
  <1>1. PICK R : R = Conns!Subtree(origins, i)
    OBVIOUS
  <1>2. /\ i \in DOMAIN origins /\ connCommands' = Conns!CommandsOfOthers(R)
        /\ connAbandon' = Conns!Ref(i)
        /\ UNCHANGED <<origins, conns, gateways, active, confirm, graceful, serial, starts>>
    BY <1>1 DEF Conns!Recover, Conns!Live
  <1>3. Addressed(connCommands', DOMAIN origins \ R, serial)
    BY <1>2, CommandsLeft
  <1>4. Addressed(connCommands', DOMAIN origins, serial)
    BY <1>3 DEF Addressed
  <1>5. Abandoned(connAbandon')
    BY <1>2, LiveSerial DEF ConnInv, Abandoned
  <1> QED
    BY <1>2, <1>4, <1>5 DEF ConnInv, ConnTree

LEMMA DrainCommandKeeps == ASSUME ConnInv, Conns!DrainCommand PROVE ConnInv'
  <1>1. /\ connCommands # <<>> /\ connCommands' = Tail(connCommands)
        /\ UNCHANGED <<origins, conns, gateways, active, confirm, connAbandon, graceful, serial, starts>>
    BY DEF Conns!DrainCommand
  <1>2. PICK q \in Seq(Addresses) : q = connCommands
    BY DEF ConnInv, Addressed
  <1>3. PICK n \in Nat : n = Len(q) /\ DOMAIN q = 1 .. n
    BY LenProperties
  <1>4. PICK t : t = Tail(q)
    OBVIOUS
  <1>5. t \in Seq(Addresses) /\ Len(t) = n - 1 /\ \A a \in 1 .. n - 1 : t[a] = q[a + 1]
    BY <1>1, <1>2, <1>3, <1>4, HeadTailProperties
  <1>6. DOMAIN t = 1 .. n - 1 /\ \A a \in 1 .. n - 1 : a + 1 \in 1 .. n
    BY <1>5, LenProperties
  <1>7. \A a \in DOMAIN t : \E b \in DOMAIN q : t[a] = q[b]
    BY <1>3, <1>5, <1>6
  <1>8. Addressed(t, DOMAIN origins, serial)
    BY <1>2, <1>5, <1>7 DEF ConnInv, Addressed
  <1> QED
    BY <1>1, <1>2, <1>4, <1>8 DEF ConnInv, ConnTree

LEMMA ActivateKeeps ==
    ASSUME ConnInv, NEW i, Conns!Activate(i)
    PROVE  ConnInv'
  <1>1. active' \in DOMAIN origins \cup {0}
        /\ UNCHANGED <<origins, conns, gateways, connCommands, confirm, connAbandon, graceful, serial, starts>>
    BY DEF Conns!Activate, Conns!Live
  <1> QED
    BY <1>1 DEF ConnInv, ConnTree

LEMMA ConnStep == ConnInv /\ [Conns!Next]_connVars => ConnInv'
  <1> SUFFICES ASSUME ConnInv, [Conns!Next]_connVars PROVE ConnInv'
    OBVIOUS
  <1>1. CASE UNCHANGED connVars
    BY <1>1 DEF connVars, ConnInv, ConnTree
  <1>2. CASE Conns!StartRoot
    BY <1>2, StartRootKeeps
  <1>3. CASE Conns!AcceptAbandon
    BY <1>3, AcceptAbandonKeeps
  <1>4. CASE Conns!ExpireAbandon
    BY <1>4, ExpireAbandonKeeps
  <1>5. CASE Conns!DrainCommand
    BY <1>5, DrainCommandKeeps
  <1>6. ASSUME NEW i \in 1 .. MaxIds,
               \/ Conns!RequestDetach(i) \/ Conns!RequestAbandon(i) \/ Conns!Recover(i) \/ Conns!ClientGone(i)
               \/ \E pane \in ConnPanes : Conns!StartNested(i, pane) \/ Conns!DestroyPane(i, pane)
        PROVE  ConnInv'
    <2>1. CASE Conns!RequestDetach(i)
      BY <2>1, RequestDetachKeeps
    <2>2. CASE Conns!RequestAbandon(i)
      BY <2>2, RequestAbandonKeeps
    <2>3. CASE Conns!Recover(i)
      BY <2>3, RecoverKeeps
    <2>4. CASE Conns!ClientGone(i)
      BY <2>4, ClientGoneKeeps
    <2>5. ASSUME NEW pane \in ConnPanes, Conns!StartNested(i, pane) PROVE ConnInv'
      BY <2>5, StartNestedKeeps
    <2>6. ASSUME NEW pane \in ConnPanes, Conns!DestroyPane(i, pane) PROVE ConnInv'
      BY <2>6, DestroyPaneKeeps
    <2> QED
      BY <1>6, <2>1, <2>2, <2>3, <2>4, <2>5, <2>6
  <1>7. ASSUME NEW i, Conns!Activate(i) PROVE ConnInv'
    BY <1>7, ActivateKeeps
  <1> QED
    BY <1>1, <1>2, <1>3, <1>4, <1>5, <1>6, <1>7 DEF Conns!Next, Conns!Ids

LEMMA ConnInvExact == ConnInv => ConnectionsExact
  <1> SUFFICES ASSUME ConnInv PROVE ConnectionsExact
    OBVIOUS
  <1>1. PICK q : q = conns /\ q \in Seq(1 .. MaxIds)
                 /\ (\A i, j \in DOMAIN q : q[i] = q[j] => i = j)
                 /\ {q[i] : i \in DOMAIN q} = DOMAIN origins
    BY DEF ConnInv, Roster
  <1>4. Conns!ToSet(conns) = DOMAIN origins /\ Conns!IsInjective(conns)
    BY <1>1 DEF Conns!ToSet, Conns!IsInjective
  <1>5. \A i \in DOMAIN origins : origins[i].parent # 0 =>
          /\ origins[i].parent \in DOMAIN origins
          /\ gateways[<<origins[i].parent, origins[i].pane>>] = i
    BY DEF ConnInv, ConnTree, Gates
  <1>6. \A k \in DOMAIN gateways :
          /\ k[1] \in DOMAIN origins
          /\ gateways[k] # 0 => gateways[k] \in DOMAIN origins
                                /\ origins[gateways[k]] = [parent |-> k[1], pane |-> k[2]]
    BY DEF ConnInv, Gates
  <1>7. \A c \in Conns!ToSet(connCommands) \cup {confirm} :
          c # Conns!None => c.id \in DOMAIN origins /\ c.serial = serial[c.id]
    BY DEF ConnInv, Addressed, Named, Conns!ToSet
  <1>8. Conns!NothingDangling
    <2>1. active \in DOMAIN origins \cup {0}
      BY DEF ConnInv
    <2>2. Conns!ToSet(conns) = Conns!Live /\ Conns!IsInjective(conns)
      BY <1>4 DEF Conns!Live
    <2>3. \A i \in Conns!Live : origins[i].parent # 0 =>
            /\ origins[i].parent \in Conns!Live
            /\ gateways[<<origins[i].parent, origins[i].pane>>] = i
      BY <1>5 DEF Conns!Live
    <2>4. \A k \in DOMAIN gateways :
            /\ k[1] \in Conns!Live
            /\ gateways[k] # 0 => gateways[k] \in Conns!Live
                                  /\ origins[gateways[k]] = [parent |-> k[1], pane |-> k[2]]
      BY <1>6 DEF Conns!Live
    <2>5. \A c \in Conns!ToSet(connCommands) \cup {confirm} :
            c # Conns!None => c.id \in Conns!Live /\ c.serial = serial[c.id]
      BY <1>7 DEF Conns!Live
    <2>6. active \in Conns!Live \cup {0}
      BY <2>1 DEF Conns!Live
    <2> QED
      BY <2>2, <2>3, <2>4, <2>5, <2>6 DEF Conns!NothingDangling
  <1>9. Conns!DeepestFirst
    <2>1. PICK w : w = graceful.awaiting
      OBVIOUS
    <2>2. SUFFICES ASSUME graceful # Conns!None, w \in DOMAIN origins, serial[w] <= graceful.serial,
                          NEW j \in Conns!Subtree(origins, w), j # w
                   PROVE  serial[j] > graceful.serial
      BY <2>1 DEF Conns!DeepestFirst, Conns!Live
    <2>3. PICK T : T = Conns!Subtree(origins, w)
      OBVIOUS
    <2>4. Branch(origins, serial, w, T)
      BY <2>2, <2>3, SubtreeIs DEF ConnInv, ConnTree
    <2>5. PICK c \in DOMAIN origins : origins[c].parent = w /\ serial[c] <= serial[j]
      BY <2>2, <2>3, <2>4 DEF Branch
    <2>6. graceful.serial \in Nat /\ DeepFirst(origins, serial, graceful) /\ w # 0
      BY <2>1, <2>2 DEF ConnInv, Cascading, Cascades
    <2>7. ~(serial[c] <= graceful.serial)
      BY <2>1, <2>5, <2>6 DEF DeepFirst
    <2>8. serial[c] \in Nat /\ serial[j] \in Nat
      <3>1. j \in DOMAIN origins
        BY <2>2, <2>3, <2>4 DEF Branch
      <3> QED
        BY <2>5, <3>1, LiveSerial DEF ConnInv
    <2> QED
      BY <2>5, <2>6, <2>7, <2>8
  <1> QED
    BY <1>8, <1>9 DEF ConnectionsExact

\* However connections start, end, lose their pane or are abandoned, nothing names
\* one that is gone or another that took its identifier, every nested client is read
\* by exactly the gateway of its pane, and a cascade asks a connection to detach only
\* when what was nested in it has gone (app/pty.rs, end_tmux_connection and
\* resolve_destroyed_tmux_gateways; tmux_lifecycle.rs, teardown_order;
\* app/tmux_interaction.rs, advance_graceful_tmux_teardown), for any identifiers.
THEOREM ConnectionsHold == Conns!Spec => []ConnectionsExact
  <1>1. Conns!Init => ConnInv
    BY ConnStarts
  <1>2. ConnInv /\ [Conns!Next]_connVars => ConnInv'
    BY ConnStep
  <1>3. ConnInv => ConnectionsExact
    BY ConnInvExact
  <1> QED
    BY <1>1, <1>2, <1>3, PTL DEF Conns!Spec, Conns!connVars, connVars
=============================================================================
