------------------------ MODULE FailoverConfigProofs ------------------------
(***************************************************************************)
(* TLAPS proofs about FailoverConfig, for any sets of clients and tunnels: *)
(* the inductive invariant IndInv and, from it, every safety property of   *)
(* the module.                                                             *)
(*                                                                         *)
(* Each mutation of the config first gets a lemma that says, field by      *)
(* field, what it returns; the invariance proof of an action then uses the *)
(* lemma and never looks into the mutation.                                *)
(***************************************************************************)
EXTENDS FailoverConfig, TLAPS

-----------------------------------------------------------------------------
(* What the mutations return                                               *)

\* DetachFailoverClient changes nothing but the two records, and takes the
\* addresses out of every list of them.
LEMMA DetachFacts ==
    ASSUME NEW f \in Config, NEW D \in SUBSET Client
    PROVE  LET g == DetachFailoverClients(f, D)
           IN  /\ g \in Config
               /\ g.xray = f.xray /\ g.keys = f.keys /\ g.tun = f.tun
               /\ g.paused = f.paused /\ g.active = f.active
               /\ f.fo = Nil <=> g.fo = Nil
               /\ f.pend = Nil <=> g.pend = Nil
               /\ f.fo # Nil =>
                     /\ g.fo \in FailoverRecord
                     /\ g.fo.tunnel = f.fo.tunnel
                     /\ g.fo.clients = f.fo.clients \ D
                     /\ g.fo.added = f.fo.added \ D
                     /\ g.fo.legacy = f.fo.legacy
                     /\ g.fo.committed = f.fo.committed
               /\ f.pend # Nil =>
                     /\ g.pend \in PendingRecord
                     /\ g.pend.snapshot.clients = f.pend.snapshot.clients \ D
                     /\ g.pend.snapshot.added = f.pend.snapshot.added \ D
                     /\ g.pend.snapshot.legacy = f.pend.snapshot.legacy
<1> USE ConstantsAssumption
<1> DEFINE detach(s) == [s EXCEPT !.clients = s.clients \ D, !.added = s.added \ D]
           h  == IF f.fo = Nil THEN Nil ELSE detach(f.fo)
           p  == IF f.pend = Nil THEN Nil
                 ELSE [f.pend EXCEPT !.snapshot = detach(f.pend.snapshot),
                                     !.restored = f.pend.restored \ D]
           g  == DetachFailoverClients(f, D)
<1>1. g = [f EXCEPT !.fo = h, !.pend = p]
  BY DEF DetachFailoverClients
<1>2. f.fo # Nil =>
         /\ h \in FailoverRecord
         /\ h.tunnel = f.fo.tunnel /\ h.clients = f.fo.clients \ D /\ h.added = f.fo.added \ D
         /\ h.legacy = f.fo.legacy /\ h.committed = f.fo.committed
  BY DEF Config, FailoverRecord
<1>3. f.pend # Nil =>
         /\ p \in PendingRecord
         /\ p.snapshot.clients = f.pend.snapshot.clients \ D
         /\ p.snapshot.added = f.pend.snapshot.added \ D
         /\ p.snapshot.legacy = f.pend.snapshot.legacy
  BY DEF Config, FailoverRecord, PendingRecord
<1>4. (f.fo = Nil <=> h = Nil) /\ (f.pend = Nil <=> p = Nil)
  BY <1>2, <1>3
<1>5. /\ g.fo = h /\ g.pend = p
      /\ g.xray = f.xray /\ g.keys = f.keys /\ g.tun = f.tun
      /\ g.paused = f.paused /\ g.active = f.active
  <2> HIDE DEF h, p
  <2> QED BY <1>1 DEF Config
<1>6. g \in Config
  <2> HIDE DEF h, p
  <2> QED BY <1>1, <1>2, <1>3, <1>4 DEF Config
<1> HIDE DEF h, p
<1> QED BY <1>2, <1>3, <1>4, <1>5, <1>6

\* A stage that does anything records exactly the clients it moved.
LEMMA StageFacts ==
    ASSUME NEW f \in Config, NEW t \in Tunnel
    PROVE  LET g == StageXrayClientsToTunnel(f, t)
               m == CarriableXrayClients(f)
           IN  \/ g = f
               \/ /\ f.fo = Nil /\ t \in f.keys
                  /\ g \in Config
                  /\ g.xray = f.xray /\ g.keys = f.keys /\ g.paused = f.paused
                  /\ g.pend = f.pend /\ g.active = f.active
                  /\ g.tun = PutOn(f.tun, t, m)
                  /\ g.fo \in FailoverRecord
                  /\ g.fo.tunnel = t /\ g.fo.clients = m /\ g.fo.added = m \ f.tun[t]
                  /\ g.fo.legacy = FALSE /\ g.fo.committed = FALSE
<1> DEFINE m == CarriableXrayClients(f)
           h == [tunnel |-> t, clients |-> m, added |-> m \ f.tun[t],
                 legacy |-> FALSE, committed |-> FALSE]
           u == PutOn(f.tun, t, m)
           g == StageXrayClientsToTunnel(f, t)
<1>1. CASE f.fo # Nil \/ t \notin f.keys \/ m = {}
  BY <1>1 DEF StageXrayClientsToTunnel
<1>2. CASE ~(f.fo # Nil \/ t \notin f.keys \/ m = {})
  <2>1. g = [f EXCEPT !.tun = u, !.fo = h]
    BY <1>2 DEF StageXrayClientsToTunnel
  <2>2. m \in SUBSET Client
    BY DEF CarriableXrayClients, EffectiveXrayClients, Config
  <2>3. h \in FailoverRecord /\ u \in [Tunnel -> SUBSET Client]
    BY <2>2 DEF FailoverRecord, Config, PutOn
  <2>4. g \in Config /\ g.tun = u /\ g.fo = h
        /\ g.xray = f.xray /\ g.keys = f.keys /\ g.paused = f.paused
        /\ g.pend = f.pend /\ g.active = f.active
    <3> HIDE DEF u, h, m
    <3> QED BY <2>1, <2>3 DEF Config
  <2> QED BY <1>2, <2>3, <2>4
<1> QED BY <1>1, <1>2

\* A restore puts what is still lent back on Xray and takes off the tunnel what
\* the failover had put there.
LEMMA RestoreFacts ==
    ASSUME NEW f \in Config, f.fo # Nil
    PROVE  LET g == RestoreXrayClientsFromFailover(f)
               d == IF f.fo.legacy THEN snapshotOnTunnel(f) ELSE f.fo.added
           IN  /\ g \in Config
               /\ g.xray = f.xray \cup snapshotOnTunnel(f)
               /\ g.tun = TakeOff(f.tun, f.fo.tunnel, d)
               /\ g.keys = f.keys /\ g.paused = f.paused
               /\ g.pend = f.pend /\ g.active = f.active /\ g.fo = Nil
<1> DEFINE s == snapshotOnTunnel(f)
           d == IF f.fo.legacy THEN s ELSE f.fo.added
           u == TakeOff(f.tun, f.fo.tunnel, d)
           g == RestoreXrayClientsFromFailover(f)
<1>1. f.fo \in FailoverRecord /\ f.fo.tunnel \in Tunnel
  BY DEF Config, FailoverRecord
<1>2. s \in SUBSET Client /\ u \in [Tunnel -> SUBSET Client]
  BY <1>1 DEF snapshotOnTunnel, Config, FailoverRecord, TakeOff
<1>3. g = [f EXCEPT !.xray = f.xray \cup s, !.tun = u, !.fo = Nil]
  BY DEF RestoreXrayClientsFromFailover
<1>4. /\ g \in Config /\ g.tun = u /\ g.fo = Nil /\ g.xray = f.xray \cup s
      /\ g.keys = f.keys /\ g.paused = f.paused /\ g.pend = f.pend /\ g.active = f.active
  <2> HIDE DEF u, s
  <2> QED BY <1>2, <1>3 DEF Config
<1> QED BY <1>4

-----------------------------------------------------------------------------
(* Steps that leave the assignment alone                                   *)

\* A write that changes no route and no failover, and at most ends a pending
\* restore, keeps the invariant.
LEMMA SameRoutesStep ==
    ASSUME IndInv,
           cfg' \in Config,
           cfg'.xray = cfg.xray, cfg'.keys = cfg.keys, cfg'.tun = cfg.tun,
           cfg'.fo = cfg.fo, cfg'.pend = cfg.pend \/ cfg'.pend = Nil,
           bot' \in BotOp \cup {Nil},
           want' = want, shared' = shared
    PROVE  IndInv'
<1>1. TypeOK'
  BY DEF IndInv, TypeOK
<1>2. XrayChoiceKept' /\ TunnelChoiceKept' /\ NoResidue' /\ StagedStillOnXray'
  BY DEF IndInv, XrayChoiceKept, TunnelChoiceKept, NoResidue, StagedStillOnXray, snapshotOnTunnel
<1>3. OneRecord' /\ RecordsHonest'
  BY DEF IndInv, OneRecord, RecordsHonest
<1> QED BY <1>1, <1>2, <1>3 DEF IndInv

\* A user's write of one client: it leaves both records, and the routes it is
\* on afterwards are the ones the user chose.
LEMMA OneClientStep ==
    ASSUME IndInv,
           NEW c \in Client, NEW f \in Config, NEW W \in SUBSET Route,
           f.fo = cfg.fo, f.pend = cfg.pend,
           cfg.keys \subseteq f.keys,
           \A t \in Tunnel \ f.keys : f.tun[t] = {},
           \A d \in Client \ {c} : /\ d \in f.xray <=> d \in cfg.xray
                                   /\ \A t \in Tunnel : d \in f.tun[t] <=> d \in cfg.tun[t],
           "xray" \in W <=> c \in f.xray,
           \A t \in Tunnel : t \in W <=> c \in f.tun[t],
           cfg' = DetachFailoverClients(f, {c}),
           bot' \in BotOp \cup {Nil},
           want' = [want EXCEPT ![c] = W],
           shared' = shared \/ shared' = shared \cup {c},
           c \notin shared' => ~Several(W)
    PROVE  IndInv'
<1> USE ConstantsAssumption
<1>0. /\ cfg \in Config
      /\ cfg.fo # Nil => cfg.fo \in FailoverRecord
      /\ want \in [Client -> SUBSET Route]
      /\ shared \in SUBSET Client
  BY DEF IndInv, TypeOK, Config
<1>1. /\ cfg' \in Config
      /\ cfg'.xray = f.xray /\ cfg'.keys = f.keys /\ cfg'.tun = f.tun
      /\ cfg.fo = Nil <=> cfg'.fo = Nil
      /\ cfg.pend = Nil <=> cfg'.pend = Nil
      /\ cfg.fo # Nil =>
            /\ cfg'.fo \in FailoverRecord
            /\ cfg'.fo.tunnel = cfg.fo.tunnel
            /\ cfg'.fo.clients = cfg.fo.clients \ {c}
            /\ cfg'.fo.added = cfg.fo.added \ {c}
            /\ cfg'.fo.legacy = cfg.fo.legacy
            /\ cfg'.fo.committed = cfg.fo.committed
      /\ cfg.pend # Nil =>
            /\ cfg'.pend.snapshot.clients = cfg.pend.snapshot.clients \ {c}
            /\ cfg'.pend.snapshot.added = cfg.pend.snapshot.added \ {c}
            /\ cfg'.pend.snapshot.legacy = cfg.pend.snapshot.legacy
  BY DetachFacts
<1>2. /\ want' \in [Client -> SUBSET Route]
      /\ want'[c] = W
      /\ \A d \in Client \ {c} : want'[d] = want[d]
      /\ shared \subseteq shared' /\ shared' \in SUBSET Client
  BY <1>0
<1>3. TypeOK'
  BY <1>1, <1>2, SMTT(30) DEF IndInv, TypeOK
<1>4. XrayChoiceKept'
  <2> SUFFICES ASSUME NEW d \in Client
               PROVE ("xray" \in want[d])' <=> (d \in cfg.xray \cup snapshotOnTunnel(cfg))'
    BY DEF XrayChoiceKept
  <2>1. CASE d = c
    BY <2>1, <1>1, <1>2 DEF snapshotOnTunnel
  <2>2. CASE d # c
    BY <2>2, <1>0, <1>1, <1>2 DEF IndInv, XrayChoiceKept, snapshotOnTunnel, FailoverRecord
  <2> QED BY <2>1, <2>2
<1>5. TunnelChoiceKept'
  BY <1>1, <1>2 DEF IndInv, TunnelChoiceKept
<1>6. NoResidue'
  <2> SUFFICES ASSUME NEW d \in Client \ shared', NEW t \in Tunnel, d \in cfg'.tun[t]
               PROVE  \/ t \in want'[d]
                      \/ /\ cfg'.fo # Nil
                         /\ t = cfg'.fo.tunnel
                         /\ d \in IF cfg'.fo.legacy THEN cfg'.fo.clients ELSE cfg'.fo.added
    BY DEF NoResidue
  <2>1. CASE d = c
    BY <2>1, <1>1, <1>2
  <2>2. CASE d # c
    <3>1. \/ t \in want[d]
          \/ /\ cfg.fo # Nil
             /\ t = cfg.fo.tunnel
             /\ d \in IF cfg.fo.legacy THEN cfg.fo.clients ELSE cfg.fo.added
      BY <2>2, <1>1, <1>2 DEF IndInv, NoResidue
    <3> QED BY <3>1, <2>2, <1>1, <1>2, ZenonT(40)
  <2> QED BY <2>1, <2>2
<1>7. OneRecord'
  BY <1>1 DEF IndInv, OneRecord
<1>8. StagedStillOnXray'
  BY <1>0, <1>1 DEF IndInv, StagedStillOnXray, snapshotOnTunnel, FailoverRecord
<1>9. RecordsHonest'
  <2>1. ASSUME cfg'.fo # Nil
        PROVE  /\ cfg'.fo.clients \subseteq Carriable
               /\ \A d \in cfg'.fo.clients : "xray" \in want'[d]
               /\ cfg'.fo.added \subseteq cfg'.fo.clients
               /\ ~cfg'.fo.legacy => cfg'.fo.clients \ shared' \subseteq cfg'.fo.added
    <3>1. /\ cfg.fo # Nil
          /\ cfg.fo.clients \subseteq Client
          /\ cfg.fo.clients \subseteq Carriable
          /\ \A d \in cfg.fo.clients : "xray" \in want[d]
          /\ cfg.fo.added \subseteq cfg.fo.clients
          /\ ~cfg.fo.legacy => cfg.fo.clients \ shared \subseteq cfg.fo.added
      BY <2>1, <1>0, <1>1 DEF IndInv, RecordsHonest, FailoverRecord
    <3> QED BY <3>1, <1>1, <1>2
  <2>2. ASSUME cfg'.pend # Nil
        PROVE  /\ cfg'.pend.snapshot.added \subseteq cfg'.pend.snapshot.clients
               /\ ~cfg'.pend.snapshot.legacy =>
                     cfg'.pend.snapshot.clients \ shared' \subseteq cfg'.pend.snapshot.added
    <3>1. /\ cfg.pend # Nil
          /\ cfg.pend.snapshot.added \subseteq cfg.pend.snapshot.clients
          /\ ~cfg.pend.snapshot.legacy =>
                cfg.pend.snapshot.clients \ shared \subseteq cfg.pend.snapshot.added
      BY <2>2, <1>1 DEF IndInv, RecordsHonest
    <3> QED BY <3>1, <1>1, <1>2
  <2>3. \A d \in Client \ shared' : ~Several(want'[d])
    BY <1>2 DEF IndInv, RecordsHonest
  <2> QED BY <2>1, <2>2, <2>3 DEF RecordsHonest
<1> QED BY <1>3, <1>4, <1>5, <1>6, <1>7, <1>8, <1>9 DEF IndInv

-----------------------------------------------------------------------------
(* The user's steps                                                        *)

\* OntoRoute, field by field.
LEMMA OntoFacts ==
    ASSUME NEW f \in Config, NEW c \in Client, NEW r \in Route
    PROVE  LET g == OntoRoute(f, c, r)
           IN  /\ g \in Config
               /\ g.fo = f.fo /\ g.pend = f.pend
               /\ g.paused = f.paused /\ g.active = f.active
               /\ r = "xray" => g.xray = f.xray \cup {c} /\ g.keys = f.keys /\ g.tun = f.tun
               /\ r # "xray" => /\ g.xray = f.xray /\ g.keys = f.keys \cup {r}
                               /\ g.tun = PutOn(f.tun, r, {c})
<1>1. CASE r = "xray"
  BY <1>1 DEF OntoRoute, Config
<1>2. CASE r # "xray"
  <2>1. r \in Tunnel
    BY <1>2 DEF Route
  <2>2. PutOn(f.tun, r, {c}) \in [Tunnel -> SUBSET Client]
    BY <2>1 DEF PutOn, Config
  <2> QED BY <1>2, <2>1, <2>2 DEF OntoRoute, Config
<1> QED BY <1>1, <1>2

\* OffRoute, field by field.
LEMMA OffFacts ==
    ASSUME NEW f \in Config, NEW c \in Client, NEW r \in Route
    PROVE  LET g == OffRoute(f, c, r)
           IN  /\ g \in Config
               /\ g.fo = f.fo /\ g.pend = f.pend /\ g.keys = f.keys
               /\ g.paused = f.paused /\ g.active = f.active
               /\ r = "xray" => g.xray = f.xray \ {c} /\ g.tun = f.tun
               /\ r # "xray" => g.xray = f.xray /\ g.tun = TakeOff(f.tun, r, {c})
<1>1. CASE r = "xray"
  BY <1>1 DEF OffRoute, Config
<1>2. CASE r # "xray"
  <2>1. r \in Tunnel
    BY <1>2 DEF Route
  <2>2. TakeOff(f.tun, r, {c}) \in [Tunnel -> SUBSET Client]
    BY <2>1 DEF TakeOff, Config
  <2> QED BY <1>2, <2>1, <2>2 DEF OffRoute, Config
<1> QED BY <1>1, <1>2

\* OffEveryRoute, field by field.
LEMMA OffEveryFacts ==
    ASSUME NEW f \in Config, NEW c \in Client
    PROVE  LET g == OffEveryRoute(f, c)
           IN  /\ g \in Config
               /\ g.fo = f.fo /\ g.pend = f.pend /\ g.keys = f.keys
               /\ g.paused = f.paused /\ g.active = f.active
               /\ g.xray = f.xray \ {c}
               /\ g.tun = [t \in Tunnel |-> f.tun[t] \ {c}]
BY DEF OffEveryRoute, Config

\* Putting a client on a route and detaching it may be done in either order.
LEMMA OntoDetachCommute ==
    ASSUME NEW f \in Config, NEW c \in Client, NEW r \in Route
    PROVE  OntoRoute(DetachFailoverClients(f, {c}), c, r)
             = DetachFailoverClients(OntoRoute(f, c, r), {c})
<1> DEFINE a == DetachFailoverClients(f, {c})
           b == OntoRoute(f, c, r)
           detach(s) == [s EXCEPT !.clients = s.clients \ {c}, !.added = s.added \ {c}]
           h == IF f.fo = Nil THEN Nil ELSE detach(f.fo)
           q == IF f.pend = Nil THEN Nil
                ELSE [f.pend EXCEPT !.snapshot = detach(f.pend.snapshot),
                                    !.restored = f.pend.restored \ {c}]
<1>1. a = [f EXCEPT !.fo = h, !.pend = q]
  BY DEF DetachFailoverClients
<1>2. b.fo = f.fo /\ b.pend = f.pend
  BY OntoFacts
<1>3. DetachFailoverClients(b, {c}) = [b EXCEPT !.fo = h, !.pend = q]
  <2> HIDE DEF b
  <2> QED BY <1>2 DEF DetachFailoverClients
<1> HIDE DEF h, q
<1>4. CASE r = "xray"
  BY <1>1, <1>3, <1>4 DEF OntoRoute, Config
<1>5. CASE r # "xray"
  BY <1>1, <1>3, <1>5 DEF OntoRoute, Config
<1> QED BY <1>4, <1>5

\* The Web UI's add keeps the invariant.
LEMMA AddStep == \A c \in Client, r \in Route : IndInv /\ AddClient(c, r) => IndInv'
<1> SUFFICES ASSUME NEW c \in Client, NEW r \in Route, IndInv, AddClient(c, r)
             PROVE  IndInv'
  OBVIOUS
<1> USE ConstantsAssumption
<1> DEFINE f == OntoRoute(cfg, c, r)
<1>t. cfg \in Config
  BY DEF IndInv, TypeOK
<1>0. \A t \in Tunnel \ cfg.keys : cfg.tun[t] = {}
  BY DEF IndInv, TypeOK
<1>1. cfg' = DetachFailoverClients(f, {c})
  BY <1>t, OntoDetachCommute DEF AddClient
<1>2. c \notin cfg.xray /\ \A t \in Tunnel : c \notin cfg.tun[t]
  BY DEF AddClient, ClientRoutes, Route
<1>3. /\ f \in Config /\ f.fo = cfg.fo /\ f.pend = cfg.pend
      /\ r = "xray" => f.xray = cfg.xray \cup {c} /\ f.keys = cfg.keys /\ f.tun = cfg.tun
      /\ r # "xray" => /\ f.xray = cfg.xray /\ f.keys = cfg.keys \cup {r}
                      /\ f.tun = PutOn(cfg.tun, r, {c})
  BY <1>t, OntoFacts, ZenonT(40)
<1>4. /\ r \in Tunnel => f.tun[r] = cfg.tun[r] \cup {c}
      /\ \A t \in Tunnel \ {r} : f.tun[t] = cfg.tun[t]
  <2> HIDE DEF f
  <2> QED BY <1>t, <1>3 DEF PutOn, Config, Route
<1>5. {r} \in SUBSET Route /\ ~Several({r})
  BY DEF Several
<1>6. bot' \in BotOp \cup {Nil} /\ want' = [want EXCEPT ![c] = {r}] /\ shared' = shared
  BY DEF AddClient, IndInv, TypeOK
<1> HIDE DEF f
<1>7. /\ \A t \in Tunnel \ f.keys : f.tun[t] = {}
      /\ cfg.keys \subseteq f.keys
      /\ \A d \in Client \ {c} : /\ d \in f.xray <=> d \in cfg.xray
                                 /\ \A t \in Tunnel : d \in f.tun[t] <=> d \in cfg.tun[t]
      /\ "xray" \in {r} <=> c \in f.xray
      /\ \A t \in Tunnel : t \in {r} <=> c \in f.tun[t]
  BY <1>0, <1>2, <1>3, <1>4 DEF Route
<1> QED BY <1>1, <1>3, <1>5, <1>6, <1>7, OneClientStep

\* A move, in the Web UI or the bot, keeps the invariant.
LEMMA MoveStep == \A c \in Client, r \in Route : IndInv /\ MoveClient(c, r) => IndInv'
<1> SUFFICES ASSUME NEW c \in Client, NEW r \in Route, IndInv, MoveClient(c, r)
             PROVE  IndInv'
  OBVIOUS
<1> USE ConstantsAssumption
<1> DEFINE e == OffEveryRoute(cfg, c)
           f == OntoRoute(e, c, r)
<1>0. cfg \in Config /\ \A t \in Tunnel \ cfg.keys : cfg.tun[t] = {}
  BY DEF IndInv, TypeOK
<1>1. cfg' = DetachFailoverClients(f, {c})
  BY DEF MoveClient
<1>2. /\ e \in Config /\ e.fo = cfg.fo /\ e.pend = cfg.pend /\ e.keys = cfg.keys
      /\ e.xray = cfg.xray \ {c}
      /\ e.tun = [t \in Tunnel |-> cfg.tun[t] \ {c}]
  BY <1>0, OffEveryFacts
<1> HIDE DEF e
<1>3. /\ f \in Config /\ f.fo = cfg.fo /\ f.pend = cfg.pend
      /\ r = "xray" => f.xray = e.xray \cup {c} /\ f.keys = cfg.keys /\ f.tun = e.tun
      /\ r # "xray" => /\ f.xray = e.xray /\ f.keys = cfg.keys \cup {r}
                      /\ f.tun = PutOn(e.tun, r, {c})
  BY <1>2, OntoFacts
<1>4. /\ r \in Tunnel => f.tun[r] = (cfg.tun[r] \ {c}) \cup {c}
      /\ \A t \in Tunnel \ {r} : f.tun[t] = cfg.tun[t] \ {c}
  <2> HIDE DEF f
  <2> QED BY <1>0, <1>2, <1>3 DEF PutOn, Config, Route
<1>5. {r} \in SUBSET Route /\ ~Several({r})
  BY DEF Several
<1>6. bot' \in BotOp \cup {Nil} /\ want' = [want EXCEPT ![c] = {r}] /\ shared' = shared
  BY DEF MoveClient, IndInv, TypeOK
<1> HIDE DEF f
<1>7. /\ \A t \in Tunnel \ f.keys : f.tun[t] = {}
      /\ cfg.keys \subseteq f.keys
      /\ \A d \in Client \ {c} : /\ d \in f.xray <=> d \in cfg.xray
                                 /\ \A t \in Tunnel : d \in f.tun[t] <=> d \in cfg.tun[t]
      /\ "xray" \in {r} <=> c \in f.xray
      /\ \A t \in Tunnel : t \in {r} <=> c \in f.tun[t]
  BY <1>0, <1>2, <1>3, <1>4 DEF Route
<1> QED BY <1>1, <1>3, <1>5, <1>6, <1>7, OneClientStep

\* The Web UI's delete keeps the invariant.
LEMMA DeleteStep == \A c \in Client : IndInv /\ DeleteClient(c) => IndInv'
<1> SUFFICES ASSUME NEW c \in Client, IndInv, DeleteClient(c) PROVE IndInv'
  OBVIOUS
<1> USE ConstantsAssumption
<1> DEFINE e == OffEveryRoute(cfg, c)
           f == [e EXCEPT !.paused = e.paused \ {c}]
           W == {r \in Route : FALSE}
<1>0. cfg \in Config /\ \A t \in Tunnel \ cfg.keys : cfg.tun[t] = {}
  BY DEF IndInv, TypeOK
<1>1. cfg' = DetachFailoverClients(f, {c})
  BY DEF DeleteClient
<1>2. /\ e \in Config /\ e.fo = cfg.fo /\ e.pend = cfg.pend /\ e.keys = cfg.keys
      /\ e.xray = cfg.xray \ {c}
      /\ e.tun = [t \in Tunnel |-> cfg.tun[t] \ {c}]
  BY <1>0, OffEveryFacts
<1> HIDE DEF e
<1>3. /\ f \in Config /\ f.fo = cfg.fo /\ f.pend = cfg.pend /\ f.keys = cfg.keys
      /\ f.xray = cfg.xray \ {c}
      /\ \A t \in Tunnel : f.tun[t] = cfg.tun[t] \ {c}
  BY <1>2 DEF Config
<1>6. /\ bot' \in BotOp \cup {Nil} /\ want' = [want EXCEPT ![c] = W] /\ shared' = shared
      /\ ~Several(W)
  BY DEF DeleteClient, IndInv, TypeOK, Several
<1> HIDE DEF f
<1>7. /\ \A t \in Tunnel \ f.keys : f.tun[t] = {}
      /\ \A d \in Client \ {c} : /\ d \in f.xray <=> d \in cfg.xray
                                 /\ \A t \in Tunnel : d \in f.tun[t] <=> d \in cfg.tun[t]
      /\ "xray" \in W <=> c \in f.xray
      /\ \A t \in Tunnel : t \in W <=> c \in f.tun[t]
      /\ cfg.keys \subseteq f.keys
      /\ W \in SUBSET Route
  BY <1>0, <1>3
<1> HIDE DEF W
<1> QED BY <1>1, <1>3, <1>6, <1>7, OneClientStep

\* Pauses, resumes, server selections, the bot's reads and the end of a pending
\* restore change no route.
LEMMA QuietSteps ==
    ASSUME IndInv,
           \/ \E c \in Client : PauseClient(c) \/ ResumeClient(c)
           \/ RecordActiveServer
           \/ \E o \in BotOp : BotReads(o)
           \/ \E ready \in BOOLEAN : FinishRestore(ready)
           \/ DiscardRestore
    PROVE  IndInv'
<1>0. cfg \in Config /\ bot \in BotOp \cup {Nil}
  BY DEF IndInv, TypeOK
<1>1. ASSUME NEW c \in Client, PauseClient(c) PROVE IndInv'
  <2>1. cfg' = [cfg EXCEPT !.paused = cfg.paused \cup {c}] /\ UNCHANGED <<bot, want, shared>>
    BY <1>1 DEF PauseClient
  <2>2. /\ cfg' \in Config /\ cfg'.xray = cfg.xray /\ cfg'.keys = cfg.keys
        /\ cfg'.tun = cfg.tun /\ cfg'.fo = cfg.fo /\ cfg'.pend = cfg.pend
    BY <1>0, <2>1 DEF Config
  <2> QED BY <1>0, <2>1, <2>2, SameRoutesStep
<1>2. ASSUME NEW c \in Client, ResumeClient(c) PROVE IndInv'
  <2>1. cfg' = [cfg EXCEPT !.paused = cfg.paused \ {c}] /\ UNCHANGED <<bot, want, shared>>
    BY <1>2 DEF ResumeClient
  <2>2. /\ cfg' \in Config /\ cfg'.xray = cfg.xray /\ cfg'.keys = cfg.keys
        /\ cfg'.tun = cfg.tun /\ cfg'.fo = cfg.fo /\ cfg'.pend = cfg.pend
    BY <1>0, <2>1 DEF Config
  <2> QED BY <1>0, <2>1, <2>2, SameRoutesStep
<1>3. CASE RecordActiveServer
  <2>1. cfg' = [cfg EXCEPT !.active = cfg.active + 1] /\ UNCHANGED <<bot, want, shared>>
    BY <1>3 DEF RecordActiveServer
  <2>2. /\ cfg' \in Config /\ cfg'.xray = cfg.xray /\ cfg'.keys = cfg.keys
        /\ cfg'.tun = cfg.tun /\ cfg'.fo = cfg.fo /\ cfg'.pend = cfg.pend
    BY <1>0, <2>1 DEF Config
  <2> QED BY <1>0, <2>1, <2>2, SameRoutesStep
<1>4. ASSUME NEW o \in BotOp, BotReads(o) PROVE IndInv'
  <2>1. UNCHANGED <<cfg, want, shared>> /\ bot' = o
    BY <1>4 DEF BotReads
  <2> QED BY <1>0, <1>4, <2>1, SameRoutesStep
<1>5. ASSUME (\E ready \in BOOLEAN : FinishRestore(ready)) \/ DiscardRestore PROVE IndInv'
  <2>1. cfg' = [cfg EXCEPT !.pend = Nil] /\ UNCHANGED <<bot, want, shared>>
    BY <1>5 DEF FinishRestore, DiscardRestore
  <2>2. /\ cfg' \in Config /\ cfg'.xray = cfg.xray /\ cfg'.keys = cfg.keys
        /\ cfg'.tun = cfg.tun /\ cfg'.fo = cfg.fo /\ cfg'.pend = Nil
    BY <1>0, <2>1 DEF Config
  <2> QED BY <1>0, <2>1, <2>2, SameRoutesStep
<1> QED BY <1>1, <1>2, <1>3, <1>4, <1>5

\* The bot's locked write keeps the invariant, whatever changed since its read.
LEMMA BotWritesStep == IndInv /\ BotWrites => IndInv'
<1> SUFFICES ASSUME IndInv, BotWrites PROVE IndInv'
  OBVIOUS
<1> USE ConstantsAssumption
<1> DEFINE c == bot.client
           r == bot.route
           W == ClientRoutes(cfg', c)
<1>t. cfg \in Config
  BY DEF IndInv, TypeOK
<1>0. /\ \A t \in Tunnel \ cfg.keys : cfg.tun[t] = {}
      /\ bot \in BotOp /\ c \in Client /\ r \in Route
      /\ bot.op \in {"add", "remove", "pause", "resume"}
      /\ want \in [Client -> SUBSET Route]
  BY DEF IndInv, TypeOK, BotWrites, BotOp
<1>1. cfg' = BotWritten(cfg, bot) /\ bot' = Nil
  BY DEF BotWrites
<1>2. ASSUME bot.op \in {"add", "remove"}
      PROVE /\ want' = [want EXCEPT ![c] = W]
            /\ shared' = shared \/ shared' = shared \cup {c}
            /\ c \notin shared' => ~Several(W)
  BY <1>2 DEF BotWrites
<1>w. /\ W \in SUBSET Route
      /\ "xray" \in W <=> c \in cfg'.xray
      /\ \A t \in Tunnel : t \in W <=> c \in cfg'.tun[t]
  BY DEF ClientRoutes, Route
<1> HIDE DEF W
<1>3. CASE bot.op = "add"
  <2> DEFINE f == OntoRoute(cfg, c, r)
  <2>0. c \in Client /\ r \in Route
    BY <1>0
  <2>1. cfg' = DetachFailoverClients(f, {c})
    <3>1. cfg' = OntoRoute(DetachFailoverClients(cfg, {c}), c, r)
      BY <1>1, <1>3 DEF BotWritten
    <3> QED BY <3>1, <1>t, <2>0, OntoDetachCommute
  <2> HIDE DEF c, r
  <2>2. /\ f \in Config /\ f.fo = cfg.fo /\ f.pend = cfg.pend
        /\ r = "xray" => f.xray = cfg.xray \cup {c} /\ f.keys = cfg.keys /\ f.tun = cfg.tun
        /\ r # "xray" => /\ f.xray = cfg.xray /\ f.keys = cfg.keys \cup {r}
                        /\ f.tun = PutOn(cfg.tun, r, {c})
    BY <1>t, <2>0, OntoFacts, ZenonT(40)
  <2> HIDE DEF f
  <2>3. cfg'.xray = f.xray /\ cfg'.tun = f.tun
    BY <2>0, <2>1, <2>2, DetachFacts
  <2>4. /\ r \in Tunnel => f.tun[r] = cfg.tun[r] \cup {c}
        /\ \A t \in Tunnel \ {r} : f.tun[t] = cfg.tun[t]
    BY <1>t, <2>0, <2>2 DEF PutOn, Config, Route
  <2>5. /\ \A t \in Tunnel \ f.keys : f.tun[t] = {}
        /\ cfg.keys \subseteq f.keys
        /\ \A d \in Client \ {c} : /\ d \in f.xray <=> d \in cfg.xray
                                   /\ \A t \in Tunnel : d \in f.tun[t] <=> d \in cfg.tun[t]
    BY <1>0, <2>0, <2>2, <2>4 DEF Route
  <2>6. /\ "xray" \in W <=> c \in f.xray
        /\ \A t \in Tunnel : t \in W <=> c \in f.tun[t]
    BY <1>w, <2>3
  <2> QED BY <1>1, <1>2, <1>3, <1>w, <2>0, <2>1, <2>2, <2>5, <2>6, OneClientStep
<1>4. CASE bot.op = "remove"
  <2> DEFINE e == OffRoute(cfg, c, r)
             f == [e EXCEPT !.paused = e.paused \ {c}]
  <2>0. c \in Client /\ r \in Route
    BY <1>0
  <2>1. cfg' = DetachFailoverClients(f, {c})
    BY <1>1, <1>4 DEF BotWritten
  <2> HIDE DEF c, r
  <2>2. /\ e \in Config /\ e.fo = cfg.fo /\ e.pend = cfg.pend /\ e.keys = cfg.keys
        /\ r = "xray" => e.xray = cfg.xray \ {c} /\ e.tun = cfg.tun
        /\ r # "xray" => e.xray = cfg.xray /\ e.tun = TakeOff(cfg.tun, r, {c})
    BY <1>t, <2>0, OffFacts, ZenonT(40)
  <2> HIDE DEF e
  <2>3. /\ f \in Config /\ f.fo = cfg.fo /\ f.pend = cfg.pend /\ f.keys = cfg.keys
        /\ f.xray = e.xray /\ f.tun = e.tun
    BY <2>2 DEF Config
  <2> HIDE DEF f
  <2>4. /\ r \in Tunnel => f.tun[r] = cfg.tun[r] \ {c}
        /\ \A t \in Tunnel \ {r} : f.tun[t] = cfg.tun[t]
    BY <1>t, <2>0, <2>2, <2>3 DEF TakeOff, Config, Route
  <2>5. /\ \A t \in Tunnel \ f.keys : f.tun[t] = {}
        /\ cfg.keys \subseteq f.keys
        /\ \A d \in Client \ {c} : /\ d \in f.xray <=> d \in cfg.xray
                                   /\ \A t \in Tunnel : d \in f.tun[t] <=> d \in cfg.tun[t]
    BY <1>0, <2>0, <2>2, <2>3, <2>4 DEF Route
  <2>6. cfg'.xray = f.xray /\ cfg'.tun = f.tun
    BY <2>0, <2>1, <2>3, DetachFacts
  <2>7. /\ "xray" \in W <=> c \in f.xray
        /\ \A t \in Tunnel : t \in W <=> c \in f.tun[t]
    BY <1>w, <2>6
  <2> QED BY <1>1, <1>2, <1>4, <1>w, <2>0, <2>1, <2>3, <2>5, <2>7, OneClientStep
<1>5. CASE bot.op \in {"pause", "resume"}
  <2>1. want' = want /\ shared' = shared
    BY <1>5 DEF BotWrites
  <2>2. PICK P \in SUBSET Client : cfg' = [cfg EXCEPT !.paused = P]
    <3>1. \/ cfg' = [cfg EXCEPT !.paused = cfg.paused \cup {c}]
          \/ cfg' = [cfg EXCEPT !.paused = cfg.paused \ {c}]
      BY <1>1, <1>5 DEF BotWritten
    <3>2. cfg.paused \cup {c} \in SUBSET Client /\ cfg.paused \ {c} \in SUBSET Client
      BY <1>0, <1>t DEF Config
    <3> QED BY <3>1, <3>2
  <2>3. /\ cfg' \in Config /\ cfg'.xray = cfg.xray /\ cfg'.keys = cfg.keys
        /\ cfg'.tun = cfg.tun /\ cfg'.fo = cfg.fo /\ cfg'.pend = cfg.pend
    BY <1>t, <2>2 DEF Config
  <2> QED BY <1>1, <2>1, <2>3, SameRoutesStep
<1> QED BY <1>0, <1>3, <1>4, <1>5

-----------------------------------------------------------------------------
(* The watch's steps                                                       *)

\* A config without a failover that says exactly what the user chose.
Settled(f) ==
    /\ f \in Config
    /\ f.fo = Nil
    /\ \A t \in Tunnel \ f.keys : f.tun[t] = {}
    /\ \A c \in Client : "xray" \in want[c] <=> c \in f.xray
    /\ \A c \in Client \ shared, t \in Tunnel : t \in want[c] <=> c \in f.tun[t]

\* Without a failover the invariant leaves nothing but the user's choice.
LEMMA NoFailoverSettled == IndInv /\ cfg.fo = Nil => Settled(cfg)
BY DEF IndInv, TypeOK, XrayChoiceKept, TunnelChoiceKept, NoResidue, snapshotOnTunnel, Settled

\* Undoing a failover leads back to the user's choice.
LEMMA RestoreSettles ==
    ASSUME IndInv, cfg.fo # Nil
    PROVE  Settled(RestoreXrayClientsFromFailover(cfg))
<1> USE ConstantsAssumption
<1> DEFINE f == RestoreXrayClientsFromFailover(cfg)
           d == IF cfg.fo.legacy THEN snapshotOnTunnel(cfg) ELSE cfg.fo.added
<1>0. /\ cfg \in Config /\ cfg.fo \in FailoverRecord /\ cfg.fo.tunnel \in Tunnel
      /\ cfg.tun \in [Tunnel -> SUBSET Client]
      /\ want \in [Client -> SUBSET Route]
      /\ \A t \in Tunnel \ cfg.keys : cfg.tun[t] = {}
  BY DEF IndInv, TypeOK, Config, FailoverRecord
<1>1. /\ f \in Config /\ f.fo = Nil /\ f.keys = cfg.keys
      /\ f.xray = cfg.xray \cup snapshotOnTunnel(cfg)
      /\ f.tun = TakeOff(cfg.tun, cfg.fo.tunnel, d)
  BY <1>0, RestoreFacts
<1> HIDE DEF f
<1>2. /\ f.tun[cfg.fo.tunnel] = cfg.tun[cfg.fo.tunnel] \ d
      /\ \A t \in Tunnel \ {cfg.fo.tunnel} : f.tun[t] = cfg.tun[t]
  <2> HIDE DEF d
  <2> QED BY <1>0, <1>1 DEF TakeOff
<1>3. \A t \in Tunnel \ f.keys : f.tun[t] = {}
  BY <1>0, <1>1, <1>2
<1>4. \A c \in Client : "xray" \in want[c] <=> c \in f.xray
  BY <1>1 DEF IndInv, XrayChoiceKept
<1>5. ASSUME NEW c \in Client \ shared, NEW t \in Tunnel
      PROVE  t \in want[c] <=> c \in f.tun[t]
  <2>1. c \in d => "xray" \in want[c]
    BY DEF IndInv, RecordsHonest, snapshotOnTunnel
  <2>2. c \in d => t \notin want[c]
    BY <1>0, <2>1 DEF IndInv, RecordsHonest, Several
  <2>3. t \in want[c] => c \in cfg.tun[t]
    BY DEF IndInv, TunnelChoiceKept
  <2>4. c \in cfg.tun[t] => t \in want[c] \/ (t = cfg.fo.tunnel /\ c \in d)
    BY DEF IndInv, NoResidue, snapshotOnTunnel
  <2> HIDE DEF d
  <2> QED BY <1>0, <1>2, <2>2, <2>3, <2>4
<1>6. Settled(f)
  BY <1>1, <1>3, <1>4, <1>5 DEF Settled
<1> QED BY <1>6 DEF f

\* A write that settles the config keeps the invariant, if the restore it
\* leaves pending is an honest one.
LEMMA SettledStep ==
    ASSUME IndInv, Settled(cfg)', UNCHANGED <<bot, want, shared>>,
           cfg'.pend # Nil =>
              /\ cfg'.pend.snapshot.added \subseteq cfg'.pend.snapshot.clients
              /\ ~cfg'.pend.snapshot.legacy =>
                    cfg'.pend.snapshot.clients \ shared \subseteq cfg'.pend.snapshot.added
    PROVE  IndInv'
<1>1. TypeOK'
  BY DEF IndInv, TypeOK, Settled
<1>2. XrayChoiceKept' /\ TunnelChoiceKept' /\ NoResidue' /\ StagedStillOnXray' /\ OneRecord'
  BY DEF Settled, XrayChoiceKept, TunnelChoiceKept, NoResidue, StagedStillOnXray, OneRecord,
         snapshotOnTunnel
<1>3. RecordsHonest'
  BY DEF IndInv, Settled, RecordsHonest
<1> QED BY <1>1, <1>2, <1>3 DEF IndInv

\* Staging the clients of a settled config keeps the invariant, whether or not
\* there is anything to stage.
LEMMA StageStep ==
    ASSUME IndInv, NEW f, Settled(f), NEW t \in Tunnel,
           cfg' = [StageXrayClientsToTunnel(f, t) EXCEPT !.pend = Nil],
           UNCHANGED <<bot, want, shared>>
    PROVE  IndInv'
<1> USE ConstantsAssumption
<1> DEFINE g == StageXrayClientsToTunnel(f, t)
           m == CarriableXrayClients(f)
<1>0. f \in Config /\ f.tun \in [Tunnel -> SUBSET Client]
      /\ f.xray \in SUBSET Client
      /\ m \in SUBSET Client /\ m \subseteq f.xray /\ m \subseteq Carriable
  BY DEF Settled, Config, CarriableXrayClients, EffectiveXrayClients
<1>1. \/ g = f
      \/ /\ f.fo = Nil /\ t \in f.keys
         /\ g \in Config
         /\ g.xray = f.xray /\ g.keys = f.keys
         /\ g.tun = PutOn(f.tun, t, m)
         /\ g.fo \in FailoverRecord
         /\ g.fo.tunnel = t /\ g.fo.clients = m /\ g.fo.added = m \ f.tun[t]
         /\ g.fo.legacy = FALSE /\ g.fo.committed = FALSE
  <2>1. f \in Config
    BY <1>0
  <2> QED BY <2>1, StageFacts, ZenonT(40)
<1> HIDE DEF g, m
<1>2. g \in Config
  BY <1>0, <1>1
<1>3. /\ cfg' \in Config /\ cfg'.pend = Nil
      /\ cfg'.xray = g.xray /\ cfg'.keys = g.keys /\ cfg'.tun = g.tun /\ cfg'.fo = g.fo
  <2>1. cfg' = [g EXCEPT !.pend = Nil]
    BY DEF g
  <2> QED BY <1>2, <2>1 DEF Config
<1>4. CASE g = f
  <2>1. Settled(cfg)'
    BY <1>3, <1>4 DEF Settled
  <2> QED BY <1>3, <2>1, SettledStep
<1>5. CASE g # f
  <2>1. /\ cfg'.xray = f.xray /\ cfg'.keys = f.keys /\ t \in f.keys
        /\ cfg'.fo \in FailoverRecord /\ cfg'.fo # Nil
        /\ cfg'.fo.tunnel = t /\ cfg'.fo.clients = m /\ cfg'.fo.added = m \ f.tun[t]
        /\ cfg'.fo.legacy = FALSE /\ cfg'.fo.committed = FALSE
    BY <1>1, <1>3, <1>5
  <2>2. /\ cfg'.tun[t] = f.tun[t] \cup m
        /\ \A u \in Tunnel \ {t} : cfg'.tun[u] = f.tun[u]
    BY <1>0, <1>1, <1>3, <1>5 DEF PutOn
  <2>s. snapshotOnTunnel(cfg)' = m
    BY <2>1, <2>2 DEF snapshotOnTunnel
  <2>3. TypeOK'
    BY <1>3, <2>1, <2>2 DEF IndInv, TypeOK, Settled
  <2>4. XrayChoiceKept' /\ StagedStillOnXray'
    BY <1>0, <2>1, <2>s DEF Settled, XrayChoiceKept, StagedStillOnXray
  <2>5. TunnelChoiceKept'
    BY <2>2 DEF Settled, TunnelChoiceKept
  <2>6. NoResidue'
    BY <2>1, <2>2 DEF Settled, NoResidue
  <2>7. OneRecord'
    BY <1>3 DEF OneRecord
  <2>8. RecordsHonest'
    <3>1. \A c \in m : "xray" \in want[c]
      BY <1>0 DEF Settled
    <3>2. \A c \in m \ shared : c \notin f.tun[t]
      <4> SUFFICES ASSUME NEW c \in m \ shared, c \in f.tun[t] PROVE FALSE
        OBVIOUS
      <4>1. "xray" \in want[c] /\ t \in want[c] /\ c \in Client \ shared
        BY <1>0, <3>1 DEF Settled
      <4> QED BY <4>1 DEF IndInv, RecordsHonest, Several
    <3> QED BY <1>0, <1>3, <2>1, <3>1, <3>2 DEF IndInv, RecordsHonest
  <2> QED BY <2>3, <2>4, <2>5, <2>6, <2>7, <2>8 DEF IndInv
<1> QED BY <1>4, <1>5

\* failOutbound keeps the invariant.
LEMMA FailOutboundStep == \A t \in Tunnel : IndInv /\ FailOutbound(t) => IndInv'
<1> SUFFICES ASSUME NEW t \in Tunnel, IndInv, FailOutbound(t) PROVE IndInv'
  OBVIOUS
<1>0. cfg \in Config /\ bot \in BotOp \cup {Nil}
  BY DEF IndInv, TypeOK
<1>1. /\ cfg' = [StageXrayClientsToTunnel(cfg, t) EXCEPT !.pend = Nil]
      /\ UNCHANGED <<bot, want, shared>>
  BY DEF FailOutbound
<1>2. CASE cfg.fo = Nil
  BY <1>1, <1>2, NoFailoverSettled, StageStep
<1>3. CASE cfg.fo # Nil
  <2>1. cfg' = [cfg EXCEPT !.pend = Nil]
    BY <1>1, <1>3 DEF StageXrayClientsToTunnel
  <2>2. /\ cfg' \in Config /\ cfg'.xray = cfg.xray /\ cfg'.keys = cfg.keys
        /\ cfg'.tun = cfg.tun /\ cfg'.fo = cfg.fo /\ cfg'.pend = Nil
    BY <1>0, <2>1 DEF Config
  <2> QED BY <1>0, <1>1, <2>2, SameRoutesStep
<1> QED BY <1>2, <1>3

\* retryOrSwitchFallback and watchFallback keep the invariant.
LEMMA RetargetStep == \A n \in Tunnel \cup {Nil} : IndInv /\ RetargetFailover(n) => IndInv'
<1> SUFFICES ASSUME NEW n \in Tunnel \cup {Nil}, IndInv, RetargetFailover(n) PROVE IndInv'
  OBVIOUS
<1> DEFINE f == RestoreXrayClientsFromFailover(cfg)
<1>1. /\ cfg.fo # Nil
      /\ cfg' = IF n = Nil THEN f ELSE StageXrayClientsToTunnel(f, n)
      /\ UNCHANGED <<bot, want, shared>>
  BY DEF RetargetFailover
<1>2. Settled(f)
  BY <1>1, RestoreSettles
<1>3. cfg \in Config /\ f \in Config /\ f.pend = Nil
  BY <1>1, RestoreFacts DEF IndInv, TypeOK, OneRecord
<1> HIDE DEF f
<1>4. CASE n = Nil
  <2>1. Settled(cfg)' /\ cfg'.pend = Nil
    BY <1>1, <1>2, <1>3, <1>4 DEF Settled
  <2> QED BY <1>1, <2>1, SettledStep
<1>5. CASE n # Nil
  <2>1. n \in Tunnel
    BY <1>5
  <2>2. cfg' = StageXrayClientsToTunnel(f, n)
    BY <1>1, <1>5
  <2>3. cfg' \in Config /\ cfg'.pend = Nil
    BY <1>3, <2>1, <2>2, StageFacts
  <2>4. cfg' = [StageXrayClientsToTunnel(f, n) EXCEPT !.pend = Nil]
    BY <2>2, <2>3 DEF Config
  <2> QED BY <1>1, <1>2, <2>1, <2>4, StageStep
<1> QED BY <1>4, <1>5

\* commitRestore's second write keeps the invariant.
LEMMA BeginRestoreStep == IndInv /\ BeginRestore => IndInv'
<1> SUFFICES ASSUME IndInv, BeginRestore PROVE IndInv'
  OBVIOUS
<1> USE ConstantsAssumption
<1> DEFINE f == RestoreXrayClientsFromFailover(cfg)
           s == [cfg.fo EXCEPT !.committed = FailoverCommitted(cfg)]
           q == [snapshot |-> s, restored |-> snapshotOnTunnel(cfg), active |-> cfg.active]
<1>0. cfg \in Config /\ cfg.fo \in FailoverRecord /\ cfg.fo # Nil /\ cfg.pend = Nil
  BY DEF IndInv, TypeOK, Config, BeginRestore
<1>1. cfg' = [f EXCEPT !.pend = q] /\ UNCHANGED <<bot, want, shared>>
  BY <1>0 DEF BeginRestore, BeginXrayRestore
<1>2. Settled(f)
  BY <1>0, RestoreSettles
<1>3. /\ s \in FailoverRecord /\ s.clients = cfg.fo.clients
      /\ s.added = cfg.fo.added /\ s.legacy = cfg.fo.legacy
  <2>1. FailoverCommitted(cfg) \in BOOLEAN
    BY DEF FailoverCommitted
  <2> HIDE DEF FailoverCommitted
  <2> QED BY <1>0, <2>1 DEF FailoverRecord
<1>4. snapshotOnTunnel(cfg) \in SUBSET Client
  BY <1>0 DEF snapshotOnTunnel, FailoverRecord
<1> HIDE DEF s, f
<1>5. q \in PendingRecord /\ q.snapshot = s
  BY <1>0, <1>3, <1>4 DEF PendingRecord, Config
<1> HIDE DEF q
<1>6. /\ cfg' \in Config /\ cfg'.pend = q /\ cfg'.fo = Nil
      /\ cfg'.xray = f.xray /\ cfg'.keys = f.keys /\ cfg'.tun = f.tun
  BY <1>1, <1>2, <1>5 DEF Settled, Config
<1>7. Settled(cfg)'
  BY <1>1, <1>2, <1>6 DEF Settled
<1>8. /\ q.snapshot.added \subseteq q.snapshot.clients
      /\ ~q.snapshot.legacy => q.snapshot.clients \ shared \subseteq q.snapshot.added
  BY <1>0, <1>3, <1>5 DEF IndInv, RecordsHonest
<1> QED BY <1>1, <1>6, <1>7, <1>8, SettledStep

\* A write that moves clients of the failover between "on both lists" and "on
\* the tunnel only", and says so in the record, keeps the invariant: the commit
\* and the stage of a restore.
LEMMA SameFailoverStep ==
    ASSUME IndInv, cfg.fo # Nil, NEW X \in SUBSET Client, NEW b \in BOOLEAN,
           cfg' = [cfg EXCEPT !.xray = X, !.fo = [cfg.fo EXCEPT !.committed = b]],
           cfg.xray \ snapshotOnTunnel(cfg) \subseteq X,
           X \subseteq cfg.xray \cup snapshotOnTunnel(cfg),
           ~b /\ ~cfg.fo.legacy => snapshotOnTunnel(cfg) \subseteq X,
           UNCHANGED <<bot, want, shared>>
    PROVE  IndInv'
<1> USE ConstantsAssumption
<1> DEFINE s == [cfg.fo EXCEPT !.committed = b]
<1>0. /\ cfg \in Config /\ cfg.fo \in FailoverRecord
      /\ want \in [Client -> SUBSET Route] /\ shared \in SUBSET Client
  BY DEF IndInv, TypeOK, Config
<1>1. /\ s \in FailoverRecord /\ s # Nil /\ s.tunnel = cfg.fo.tunnel
      /\ s.clients = cfg.fo.clients /\ s.added = cfg.fo.added
      /\ s.legacy = cfg.fo.legacy /\ s.committed = b
  BY <1>0 DEF FailoverRecord
<1>2. cfg' = [cfg EXCEPT !.xray = X, !.fo = s]
  OBVIOUS
<1> HIDE DEF s
<1>3. /\ cfg' \in Config /\ cfg'.xray = X /\ cfg'.fo = s
      /\ cfg'.keys = cfg.keys /\ cfg'.tun = cfg.tun /\ cfg'.pend = cfg.pend
  BY <1>0, <1>1, <1>2 DEF Config
<1>4. snapshotOnTunnel(cfg)' = snapshotOnTunnel(cfg)
  BY <1>1, <1>3 DEF snapshotOnTunnel
<1>5. TypeOK'
  BY <1>3 DEF IndInv, TypeOK
<1>6. XrayChoiceKept' /\ StagedStillOnXray'
  BY <1>1, <1>3, <1>4 DEF IndInv, XrayChoiceKept, StagedStillOnXray
<1>7. TunnelChoiceKept' /\ OneRecord'
  BY <1>1, <1>3 DEF IndInv, TunnelChoiceKept, OneRecord
<1>8. NoResidue'
  BY <1>1, <1>3 DEF IndInv, NoResidue
<1>9. RecordsHonest'
  BY <1>1, <1>3 DEF IndInv, RecordsHonest
<1> QED BY <1>5, <1>6, <1>7, <1>8, <1>9 DEF IndInv

\* applyFailover's commit keeps the invariant.
LEMMA CommitStep == IndInv /\ CommitFailover => IndInv'
<1> SUFFICES ASSUME IndInv, CommitFailover PROVE IndInv'
  OBVIOUS
<1> DEFINE X == cfg.xray \ (snapshotOnTunnel(cfg) \ cfg.paused)
<1>1. /\ cfg.fo # Nil
      /\ cfg' = [cfg EXCEPT !.xray = X, !.fo = [cfg.fo EXCEPT !.committed = TRUE]]
      /\ UNCHANGED <<bot, want, shared>>
  BY DEF CommitFailover, CommitXrayFailover
<1>2. /\ X \in SUBSET Client /\ X \subseteq cfg.xray \cup snapshotOnTunnel(cfg)
      /\ cfg.xray \ snapshotOnTunnel(cfg) \subseteq X
  BY DEF IndInv, TypeOK, Config
<1> HIDE DEF X
<1> QED BY <1>1, <1>2, SameFailoverStep

\* commitRestore's first write keeps the invariant: a client it stages again
\* while it is paused was committed before.
LEMMA StageRestoreStep == IndInv /\ StageRestore => IndInv'
<1> SUFFICES ASSUME IndInv, StageRestore PROVE IndInv'
  OBVIOUS
<1> DEFINE X == cfg.xray \cup (snapshotOnTunnel(cfg) \ cfg.paused)
           b == FailoverCommitted(cfg)
<1>1. /\ cfg.fo # Nil
      /\ cfg' = [cfg EXCEPT !.xray = X, !.fo = [cfg.fo EXCEPT !.committed = b]]
      /\ UNCHANGED <<bot, want, shared>>
  BY DEF StageRestore, EnsureFailoverStaged
<1>2. cfg \in Config /\ cfg.fo \in FailoverRecord
  BY <1>1 DEF IndInv, TypeOK, Config
<1>3. /\ X \in SUBSET Client /\ X \subseteq cfg.xray \cup snapshotOnTunnel(cfg)
      /\ cfg.xray \ snapshotOnTunnel(cfg) \subseteq X
  BY <1>1, <1>2 DEF Config, FailoverRecord, snapshotOnTunnel
<1>4. ~b /\ ~cfg.fo.legacy => snapshotOnTunnel(cfg) \subseteq X
  BY <1>1, <1>2 DEF FailoverCommitted, IndInv, StagedStillOnXray
<1>5. b \in BOOLEAN
  BY DEF FailoverCommitted
<1> HIDE DEF X, b
<1> QED BY <1>1, <1>3, <1>4, <1>5, SameFailoverStep

\* extendFailover keeps the invariant.
LEMMA ExtendStep == IndInv /\ ExtendFailover => IndInv'
<1> SUFFICES ASSUME IndInv, ExtendFailover PROVE IndInv'
  OBVIOUS
<1> USE ConstantsAssumption
<1> DEFINE O   == XrayClientsOutsideFailover(cfg)
           t   == cfg.fo.tunnel
           put == O \ cfg.tun[t]
           a   == IF cfg.fo.legacy THEN {} ELSE put
           s   == [cfg.fo EXCEPT !.clients = cfg.fo.clients \cup O, !.added = cfg.fo.added \cup a]
           u   == PutOn(cfg.tun, t, put)
<1>1. cfg.fo # Nil /\ t \in cfg.keys /\ O = CarriableXrayClients(cfg) \ snapshotOnTunnel(cfg)
  BY DEF ExtendFailover, XrayClientsOutsideFailover
<1>2. cfg' = [cfg EXCEPT !.tun = u, !.fo = s] /\ UNCHANGED <<bot, want, shared>>
  BY DEF ExtendFailover, ExtendXrayFailover
<1>3. /\ cfg \in Config /\ cfg.fo \in FailoverRecord /\ t \in Tunnel
      /\ cfg.tun \in [Tunnel -> SUBSET Client]
      /\ want \in [Client -> SUBSET Route] /\ shared \in SUBSET Client
  BY <1>1 DEF IndInv, TypeOK, Config, FailoverRecord
<1>4. /\ O \in SUBSET Client /\ O \subseteq cfg.xray /\ O \subseteq Carriable
      /\ put \in SUBSET Client /\ a \in SUBSET Client
  BY <1>1, <1>3 DEF CarriableXrayClients, EffectiveXrayClients, Config
<1> HIDE DEF O
<1>5. /\ s \in FailoverRecord /\ s # Nil /\ s.tunnel = t
      /\ s.clients = cfg.fo.clients \cup O /\ s.added = cfg.fo.added \cup a
      /\ s.legacy = cfg.fo.legacy /\ s.committed = cfg.fo.committed
  <2> DEFINE o  == cfg.fo
             C1 == o.clients \cup O
             A1 == o.added \cup a
  <2>1. o \in FailoverRecord /\ s = [o EXCEPT !.clients = C1, !.added = A1]
    BY <1>3
  <2>2. C1 \in SUBSET Client /\ A1 \in SUBSET Client
    <3> HIDE DEF a, o, s
    <3> QED BY <1>4, <2>1 DEF FailoverRecord
  <2> HIDE DEF a, o, s, C1, A1
  <2>3. /\ s \in FailoverRecord /\ s.tunnel = o.tunnel
        /\ s.clients = C1 /\ s.added = A1
        /\ s.legacy = o.legacy /\ s.committed = o.committed
    BY <2>1, <2>2 DEF FailoverRecord
  <2> QED BY <2>3 DEF o, C1, A1
<1>6. /\ u \in [Tunnel -> SUBSET Client]
      /\ u[t] = cfg.tun[t] \cup put
      /\ \A v \in Tunnel \ {t} : u[v] = cfg.tun[v]
  BY <1>3, <1>4 DEF PutOn
<1> HIDE DEF s, u
<1>7. /\ cfg' \in Config /\ cfg'.tun = u /\ cfg'.fo = s
      /\ cfg'.xray = cfg.xray /\ cfg'.keys = cfg.keys /\ cfg'.pend = cfg.pend
  BY <1>2, <1>3, <1>5, <1>6 DEF Config
<1>8. snapshotOnTunnel(cfg)' = snapshotOnTunnel(cfg) \cup O
  <2>1. snapshotOnTunnel(cfg)' = s.clients \cap u[t]
    BY <1>5, <1>7 DEF snapshotOnTunnel
  <2>2. snapshotOnTunnel(cfg) = cfg.fo.clients \cap cfg.tun[t]
    BY <1>1 DEF snapshotOnTunnel
  <2>3. \A c \in cfg.fo.clients \cap put : c \in O
    OBVIOUS
  <2> QED BY <1>5, <1>6, <2>1, <2>2, <2>3
<1>9. TypeOK'
  BY <1>1, <1>2, <1>6, <1>7 DEF IndInv, TypeOK
<1>10. XrayChoiceKept' /\ StagedStillOnXray' /\ OneRecord'
  BY <1>1, <1>2, <1>4, <1>5, <1>7, <1>8 DEF IndInv, XrayChoiceKept, StagedStillOnXray, OneRecord
<1>11. TunnelChoiceKept'
  BY <1>2, <1>6, <1>7 DEF IndInv, TunnelChoiceKept
<1>12. NoResidue'
  BY <1>1, <1>2, <1>5, <1>6, <1>7 DEF IndInv, NoResidue
<1>13. RecordsHonest'
  <2>1. \A c \in O : "xray" \in want[c]
    BY <1>4 DEF IndInv, XrayChoiceKept
  <2>2. ASSUME ~cfg.fo.legacy, NEW c \in O \ shared PROVE c \in cfg.fo.added \cup a
    <3>1. CASE c \in put
      BY <2>2, <3>1
    <3>2. CASE c \in cfg.tun[t]
      <4>1. t \notin want[c]
        BY <1>3, <1>4, <2>1 DEF IndInv, RecordsHonest, Several
      <4> QED BY <1>3, <1>4, <2>2, <3>2, <4>1 DEF IndInv, NoResidue
    <3> QED BY <3>1, <3>2
  <2>3. a \subseteq O
    OBVIOUS
  <2> HIDE DEF a, put
  <2> QED BY <1>1, <1>2, <1>4, <1>5, <1>7, <2>1, <2>2, <2>3 DEF IndInv, RecordsHonest, OneRecord
<1> QED BY <1>9, <1>10, <1>11, <1>12, <1>13 DEF IndInv

\* finalizeRestore's reinstatement keeps the invariant.
LEMMA ReinstateStep == IndInv /\ ReinstateFailover => IndInv'
<1> SUFFICES ASSUME IndInv, ReinstateFailover PROVE IndInv'
  OBVIOUS
<1> USE ConstantsAssumption
<1> DEFINE p    == cfg.pend
           kept == {c \in p.restored : StillRestored(p, cfg, c)}
           add  == p.snapshot.added \cap kept
           s    == [p.snapshot EXCEPT !.clients = kept, !.added = add]
           X    == IF p.snapshot.committed THEN cfg.xray \ kept ELSE cfg.xray
           u    == PutOn(cfg.tun, s.tunnel, kept)
<1>1. /\ p # Nil /\ cfg.fo = Nil
      /\ FailoverSnapshot(p, cfg) # Nil
      /\ FailoverSnapshot(p, cfg).tunnel \in cfg.keys
      /\ cfg' = [ApplyFailoverSnapshot(cfg, FailoverSnapshot(p, cfg)) EXCEPT !.pend = Nil]
      /\ UNCHANGED <<bot, want, shared>>
  BY DEF ReinstateFailover, pendingRestoreGuard
<1>2. FailoverSnapshot(p, cfg) = s
  BY <1>1 DEF FailoverSnapshot
<1>3. /\ cfg \in Config /\ p \in PendingRecord /\ p.snapshot \in FailoverRecord
      /\ cfg.tun \in [Tunnel -> SUBSET Client] /\ cfg.xray \in SUBSET Client
      /\ want \in [Client -> SUBSET Route] /\ shared \in SUBSET Client
  BY <1>1 DEF IndInv, TypeOK, Config, PendingRecord
<1>4. /\ kept \in SUBSET Client /\ kept \subseteq cfg.xray /\ kept \subseteq Carriable
      /\ kept \subseteq p.snapshot.clients
      /\ add \in SUBSET Client /\ add \subseteq kept
  BY <1>3 DEF StillRestored, PendingRecord
<1>5. Settled(cfg)
  BY <1>1, NoFailoverSettled
<1> HIDE DEF kept
<1>6. /\ s \in FailoverRecord /\ s # Nil /\ s.tunnel = p.snapshot.tunnel /\ s.tunnel \in Tunnel
      /\ s.clients = kept /\ s.added = add
      /\ s.legacy = p.snapshot.legacy /\ s.committed = p.snapshot.committed
  <2> DEFINE o == p.snapshot
  <2>1. o \in FailoverRecord /\ s = [o EXCEPT !.clients = kept, !.added = add]
    BY <1>3
  <2> HIDE DEF add, o, s
  <2>2. /\ s \in FailoverRecord /\ s.tunnel = o.tunnel /\ s.tunnel \in Tunnel
        /\ s.clients = kept /\ s.added = add
        /\ s.legacy = o.legacy /\ s.committed = o.committed
    BY <1>4, <2>1 DEF FailoverRecord
  <2> QED BY <2>2 DEF o
<1> HIDE DEF s, add
<1>7. /\ u \in [Tunnel -> SUBSET Client]
      /\ u[s.tunnel] = cfg.tun[s.tunnel] \cup kept
      /\ \A v \in Tunnel \ {s.tunnel} : u[v] = cfg.tun[v]
      /\ X \in SUBSET Client
  BY <1>3, <1>4, <1>6 DEF PutOn
<1>8. cfg' = [[cfg EXCEPT !.tun = u, !.xray = X, !.fo = s] EXCEPT !.pend = Nil]
  BY <1>1, <1>2, <1>6 DEF ApplyFailoverSnapshot
<1>x. X \subseteq cfg.xray /\ cfg.xray \ kept \subseteq X /\ (~s.committed => X = cfg.xray)
  BY <1>6
<1> HIDE DEF u, X
<1>9. /\ cfg' \in Config /\ cfg'.tun = u /\ cfg'.fo = s /\ cfg'.xray = X
      /\ cfg'.keys = cfg.keys /\ cfg'.pend = Nil
  BY <1>3, <1>6, <1>7, <1>8 DEF Config
<1>10. snapshotOnTunnel(cfg)' = kept
  BY <1>6, <1>7, <1>9 DEF snapshotOnTunnel
<1>11. TypeOK'
  BY <1>1, <1>2, <1>3, <1>6, <1>7, <1>9 DEF IndInv, TypeOK
<1>12. XrayChoiceKept' /\ StagedStillOnXray' /\ OneRecord'
  BY <1>1, <1>4, <1>5, <1>9, <1>10, <1>x
     DEF Settled, XrayChoiceKept, StagedStillOnXray, OneRecord
<1>13. TunnelChoiceKept'
  BY <1>1, <1>5, <1>7, <1>9 DEF Settled, TunnelChoiceKept
<1>14. ~s.legacy => kept \ shared \subseteq add
  <2>1. ~p.snapshot.legacy => p.snapshot.clients \ shared \subseteq p.snapshot.added
    BY <1>1 DEF IndInv, RecordsHonest
  <2> QED BY <1>4, <1>6, <2>1 DEF add
<1>15. NoResidue'
  BY <1>1, <1>4, <1>5, <1>6, <1>7, <1>9, <1>14 DEF Settled, NoResidue
<1>16. RecordsHonest'
  BY <1>1, <1>4, <1>5, <1>6, <1>9, <1>14 DEF IndInv, Settled, RecordsHonest
<1> QED BY <1>11, <1>12, <1>13, <1>15, <1>16 DEF IndInv

\* The bot's wizard keeps the invariant.
LEMMA WizardStep == \A a \in WizardLists : IndInv /\ WizardApply(a) => IndInv'
<1> SUFFICES ASSUME NEW a \in WizardLists, IndInv, WizardApply(a) PROVE IndInv'
  OBVIOUS
<1> USE ConstantsAssumption
<1> DEFINE f == Assigned(cfg, a)
           D == f.fo.clients \ f.xray
<1>0. /\ cfg \in Config /\ a \in [Client -> SUBSET Route]
      /\ bot \in BotOp \cup {Nil} /\ shared \in SUBSET Client
  BY DEF IndInv, TypeOK, WizardLists
<1>1. /\ f \in Config /\ f.fo = cfg.fo /\ f.pend = cfg.pend
      /\ f.xray = {c \in Client : "xray" \in a[c]}
      /\ f.keys = {t \in Tunnel : \E c \in Client : t \in a[c]}
      /\ f.tun = [t \in Tunnel |-> {c \in Client : t \in a[c]}]
  <2> DEFINE X == {c \in Client : "xray" \in a[c]}
             K == {t \in Tunnel : \E c \in Client : t \in a[c]}
             T == [t \in Tunnel |-> {c \in Client : t \in a[c]}]
  <2>1. f = [cfg EXCEPT !.xray = X, !.keys = K, !.tun = T]
    BY DEF Assigned
  <2>2. X \in SUBSET Client /\ K \in SUBSET Tunnel /\ T \in [Tunnel -> SUBSET Client]
    OBVIOUS
  <2>3. /\ f \in Config /\ f.fo = cfg.fo /\ f.pend = cfg.pend
        /\ f.xray = X /\ f.keys = K /\ f.tun = T
    <3> HIDE DEF X, K, T, f
    <3> QED BY <1>0, <2>1, <2>2 DEF Config
  <2> QED BY <2>3
<1>2. /\ cfg' = IF f.fo = Nil THEN f ELSE DetachFailoverClients(f, D)
      /\ want' = a /\ shared' = shared \cup {c \in Client : Several(a[c])} /\ bot' = bot
  BY DEF WizardApply
<1> HIDE DEF f
<1>3. /\ cfg' \in Config
      /\ cfg'.xray = f.xray /\ cfg'.keys = f.keys /\ cfg'.tun = f.tun
      /\ cfg.fo = Nil => cfg'.fo = Nil /\ cfg'.pend = cfg.pend
      /\ cfg.fo # Nil => /\ cfg'.fo # Nil /\ cfg'.pend = Nil
                         /\ cfg'.fo.clients = cfg.fo.clients \ D
                         /\ cfg'.fo.added = cfg.fo.added \ D
                         /\ cfg'.fo.legacy = cfg.fo.legacy
  <2>1. CASE cfg.fo = Nil
    BY <1>1, <1>2, <2>1
  <2>2. CASE cfg.fo # Nil
    <3>1. cfg' = DetachFailoverClients(f, D)
      BY <1>1, <1>2, <2>2
    <3>2. f.pend = Nil /\ f.fo # Nil
      BY <1>1, <2>2 DEF IndInv, OneRecord
    <3>3. D \in SUBSET Client /\ f \in Config
      BY <1>1, <3>2 DEF Config, FailoverRecord
    <3> HIDE DEF D
    <3> QED BY <1>1, <2>2, <3>1, <3>2, <3>3, DetachFacts
  <2> QED BY <2>1, <2>2
<1>4. snapshotOnTunnel(cfg)' \subseteq cfg'.xray
  BY <1>1, <1>3 DEF snapshotOnTunnel
<1>p. \A t \in Tunnel : f.tun[t] = {c \in Client : t \in a[c]}
  <2> HIDE DEF D
  <2> QED BY <1>1
<1>q. \A c \in Client, t \in Tunnel : c \in f.tun[t] <=> t \in a[c]
  BY <1>p
<1>5. TypeOK'
  <2>1. \A t \in Tunnel \ f.keys : f.tun[t] = {}
    BY <1>1, <1>p
  <2>2. shared' \in SUBSET Client
    BY <1>0, <1>2
  <2> QED BY <1>0, <1>2, <1>3, <2>1, <2>2 DEF TypeOK
<1>6. XrayChoiceKept' /\ StagedStillOnXray' /\ OneRecord'
  BY <1>1, <1>2, <1>3, <1>4 DEF XrayChoiceKept, StagedStillOnXray, OneRecord
<1>7. TunnelChoiceKept' /\ NoResidue'
  BY <1>2, <1>3, <1>q DEF TunnelChoiceKept, NoResidue
<1>8. RecordsHonest'
  <2>1. \A c \in Client \ shared' : ~Several(want'[c])
    BY <1>2
  <2>2. CASE cfg.fo = Nil
    BY <1>2, <1>3, <2>1, <2>2 DEF IndInv, RecordsHonest
  <2>3. CASE cfg.fo # Nil
    BY <1>1, <1>2, <1>3, <2>1, <2>3 DEF IndInv, RecordsHonest
  <2> QED BY <2>2, <2>3
<1> QED BY <1>5, <1>6, <1>7, <1>8 DEF IndInv

-----------------------------------------------------------------------------
(* The theorems                                                            *)

\* The invariant holds of every config the daemons may find.
LEMMA InitInv == Init => IndInv
<1> SUFFICES ASSUME Init PROVE IndInv
  OBVIOUS
<1> USE ConstantsAssumption
<1>0. /\ want \in [Client -> SUBSET Route] /\ bot = Nil
      /\ shared = {c \in Client : Several(want[c])}
      /\ \A c \in Client \ Carriable, t \in Tunnel : t \notin want[c]
  BY DEF Init, UserLists, MayTake
<1>1. PICK p \in SUBSET Client :
         LET f == InitialAssignment(want, p)
         IN  \/ cfg = f
             \/ \E t \in f.keys, C \in SUBSET CarriableXrayClients(f) :
                   \E off \in {{}, C} : cfg = LegacyFailover(f, t, C, off)
  BY DEF Init
<1> DEFINE X == {c \in Client : "xray" \in want[c]}
           K == {t \in Tunnel : \E c \in Client : t \in want[c]}
           T == [t \in Tunnel |-> {c \in Client : t \in want[c]}]
           f == InitialAssignment(want, p)
<1>2. f = [xray |-> X, keys |-> K, tun |-> T, paused |-> p,
           fo |-> Nil, pend |-> Nil, active |-> 0]
  <2> HIDE DEF X, K, T
  <2>1. f = [[xray |-> {}, keys |-> {}, tun |-> [t \in Tunnel |-> {}],
              paused |-> p, fo |-> Nil, pend |-> Nil, active |-> 0]
                EXCEPT !.xray = X, !.keys = K, !.tun = T]
    BY DEF InitialAssignment, Assigned, X, K, T
  <2> HIDE DEF f
  <2> QED BY <2>1
<1>3. /\ f \in Config /\ f.xray = X /\ f.keys = K /\ f.tun = T
      /\ f.fo = Nil /\ f.pend = Nil
  <2>1. X \in SUBSET Client /\ K \in SUBSET Tunnel /\ T \in [Tunnel -> SUBSET Client]
    OBVIOUS
  <2> HIDE DEF X, K, T, f
  <2> QED BY <1>2, <2>1 DEF Config
<1> HIDE DEF f
<1>x. \A c \in Client, t \in Tunnel : c \in T[t] <=> t \in want[c]
  OBVIOUS
<1>4. CASE cfg = f
  <2>1. TypeOK /\ XrayChoiceKept /\ TunnelChoiceKept /\ NoResidue
    BY <1>0, <1>3, <1>4
       DEF TypeOK, XrayChoiceKept, TunnelChoiceKept, NoResidue, snapshotOnTunnel
  <2>2. OneRecord /\ StagedStillOnXray /\ RecordsHonest
    BY <1>0, <1>3, <1>4 DEF OneRecord, StagedStillOnXray, RecordsHonest
  <2> QED BY <2>1, <2>2 DEF IndInv
<1>5. ASSUME NEW t \in f.keys, NEW C \in SUBSET CarriableXrayClients(f), NEW off \in {{}, C},
             cfg = LegacyFailover(f, t, C, off)
      PROVE  IndInv
  <2> DEFINE s == [tunnel |-> t, clients |-> C, added |-> {},
                   legacy |-> TRUE, committed |-> FALSE]
             u == PutOn(f.tun, t, C)
  <2>1. /\ C \in SUBSET Client /\ C \subseteq X /\ C \subseteq Carriable /\ t \in Tunnel
        /\ off \subseteq C
    BY <1>3 DEF CarriableXrayClients, EffectiveXrayClients
  <2>2. /\ u \in [Tunnel -> SUBSET Client] /\ u[t] = T[t] \cup C
        /\ \A v \in Tunnel \ {t} : u[v] = T[v]
    <3>1. f.tun = T /\ T \in [Tunnel -> SUBSET Client]
      BY <1>3
    <3> HIDE DEF T
    <3> QED BY <2>1, <3>1 DEF PutOn
  <2>3. /\ s \in FailoverRecord /\ s # Nil /\ s.tunnel = t /\ s.clients = C
        /\ s.added = {} /\ s.legacy = TRUE
    <3>1. s \in FailoverRecord
      <4> HIDE DEF X, K, T, u
      <4> QED BY <2>1 DEF FailoverRecord
    <3> QED BY <3>1
  <2>4. cfg = [f EXCEPT !.xray = f.xray \ off, !.tun = u, !.fo = s]
    BY <1>5 DEF LegacyFailover
  <2> HIDE DEF u
  <2>5. /\ cfg \in Config /\ cfg.xray = X \ off /\ cfg.keys = K /\ cfg.tun = u
        /\ cfg.fo = s /\ cfg.pend = Nil
    <3> HIDE DEF s, X, K, T
    <3> QED BY <1>3, <2>2, <2>3, <2>4 DEF Config
  <2> HIDE DEF s, T
  <2>6. snapshotOnTunnel(cfg) = C
    BY <2>2, <2>3, <2>5 DEF snapshotOnTunnel
  <2>7. TypeOK
    BY <1>0, <1>3, <1>x, <2>2, <2>5 DEF TypeOK, T
  <2>8. XrayChoiceKept /\ TunnelChoiceKept
    BY <1>x, <2>1, <2>2, <2>5, <2>6 DEF XrayChoiceKept, TunnelChoiceKept
  <2>9. NoResidue
    BY <1>x, <2>2, <2>3, <2>5 DEF NoResidue
  <2>10. OneRecord /\ StagedStillOnXray /\ RecordsHonest
    BY <1>0, <2>1, <2>3, <2>5 DEF OneRecord, StagedStillOnXray, RecordsHonest
  <2> QED BY <2>7, <2>8, <2>9, <2>10 DEF IndInv
<1> QED BY <1>1, <1>4, <1>5 DEF f

\* Every step, of the user or of the watch, keeps the invariant.
LEMMA NextInv == IndInv /\ [Next]_vars => IndInv'
<1> SUFFICES ASSUME IndInv, [Next]_vars PROVE IndInv'
  OBVIOUS
<1>1. CASE UNCHANGED vars
  <2>1. cfg \in Config /\ bot \in BotOp \cup {Nil}
    BY DEF IndInv, TypeOK
  <2> QED BY <1>1, <2>1, SameRoutesStep DEF vars
<1>2. CASE UserNext
  BY <1>2, AddStep, MoveStep, DeleteStep, WizardStep, BotWritesStep, QuietSteps DEF UserNext
<1>3. CASE WatchNext
  BY <1>3, FailOutboundStep, CommitStep, ExtendStep, RetargetStep, StageRestoreStep,
     BeginRestoreStep, ReinstateStep, QuietSteps DEF WatchNext
<1> QED BY <1>1, <1>2, <1>3 DEF Next

\* The inductive invariant is an invariant.
THEOREM Invariance == Spec => []IndInv
BY InitInv, NextInv, PTL DEF Spec

\* Type correctness: every write leaves a well-formed config, and no tunnel
\* without an entry has clients.
THEOREM TypeCorrect == Spec => []TypeOK
<1>1. IndInv => TypeOK
  BY DEF IndInv
<1> QED BY <1>1, Invariance, PTL

\* No interleaving of the user's writes with the failover's stage, commit,
\* restore and reinstatement loses a client of Xray, or adds one.
THEOREM XrayChoiceIsKept == Spec => []XrayChoiceKept
<1>1. IndInv => XrayChoiceKept
  BY DEF IndInv
<1> QED BY <1>1, Invariance, PTL

\* No restore takes a client off a tunnel the user put it on.
THEOREM TunnelChoiceIsKept == Spec => []TunnelChoiceKept
<1>1. IndInv => TunnelChoiceKept
  BY DEF IndInv
<1> QED BY <1>1, Invariance, PTL

\* No failover leaves a client behind on its tunnel.
THEOREM NoResidueIsLeft == Spec => []NoResidue
<1>1. IndInv => NoResidue
  BY DEF IndInv
<1> QED BY <1>1, Invariance, PTL

\* Clients are on the tunnels the user put them on, and on no other but by the
\* failover's record.
THEOREM TunnelsAreAsChosen == Spec => []TunnelsAsChosen
<1>1. TunnelChoiceKept /\ NoResidue => TunnelsAsChosen
  BY DEF TunnelsAsChosen
<1> QED BY <1>1, TunnelChoiceIsKept, NoResidueIsLeft, PTL

\* A failover and a pending restore never stand together.
THEOREM OneRecordAtATime == Spec => []OneRecord
<1>1. IndInv => OneRecord
  BY DEF IndInv
<1> QED BY <1>1, Invariance, PTL

\* A client no tunnel can carry never leaves Xray.
THEOREM UncarriableNeverLeaves == Spec => []UncarriableStays
<1>1. IndInv => UncarriableStays
  BY DEF IndInv, TypeOK, Config, FailoverRecord, XrayChoiceKept, RecordsHonest,
         UncarriableStays, snapshotOnTunnel
<1> QED BY <1>1, Invariance, PTL

\* An uncommitted failover has all its clients still on Xray.
THEOREM StagedIsOnXray == Spec => []StagedStillOnXray
<1>1. IndInv => StagedStillOnXray
  BY DEF IndInv
<1> QED BY <1>1, Invariance, PTL

\* No step of the watch takes a paused client off Xray.
LEMMA WatchKeepsPaused ==
    ASSUME TypeOK, WatchNext
    PROVE  cfg.xray \cap cfg.paused \subseteq cfg'.xray
<1>0. cfg \in Config
  BY DEF TypeOK
<1>1. ASSUME NEW t \in Tunnel, FailOutbound(t) PROVE cfg'.xray = cfg.xray
  <2> DEFINE g == StageXrayClientsToTunnel(cfg, t)
  <2>1. cfg' = [g EXCEPT !.pend = Nil]
    BY <1>1 DEF FailOutbound
  <2>2. g \in Config /\ g.xray = cfg.xray
    BY <1>0, StageFacts
  <2> HIDE DEF g
  <2> QED BY <2>1, <2>2 DEF Config
<1>2. CASE CommitFailover
  <2> DEFINE s == [cfg.fo EXCEPT !.committed = TRUE]
             X == cfg.xray \ (snapshotOnTunnel(cfg) \ cfg.paused)
  <2>1. cfg' = [cfg EXCEPT !.xray = X, !.fo = s]
    BY <1>2 DEF CommitFailover, CommitXrayFailover
  <2>2. cfg'.xray = X
    <3> HIDE DEF s, X
    <3> QED BY <1>0, <2>1 DEF Config
  <2> QED BY <2>2
<1>3. CASE ExtendFailover
  <2>1. \E u, s : cfg' = [cfg EXCEPT !.tun = u, !.fo = s]
    BY <1>3 DEF ExtendFailover, ExtendXrayFailover
  <2> QED BY <1>0, <2>1 DEF Config
<1>4. ASSUME NEW n \in Tunnel \cup {Nil}, RetargetFailover(n) PROVE cfg.xray \subseteq cfg'.xray
  <2> DEFINE f == RestoreXrayClientsFromFailover(cfg)
  <2>1. cfg.fo # Nil /\ cfg' = IF n = Nil THEN f ELSE StageXrayClientsToTunnel(f, n)
    BY <1>4 DEF RetargetFailover
  <2>2. f \in Config /\ f.xray = cfg.xray \cup snapshotOnTunnel(cfg)
    BY <1>0, <2>1, RestoreFacts
  <2> HIDE DEF f
  <2>3. n \in Tunnel => StageXrayClientsToTunnel(f, n).xray = f.xray
    BY <2>2, StageFacts
  <2> QED BY <2>1, <2>2, <2>3
<1>5. CASE StageRestore
  <2> DEFINE s == [cfg.fo EXCEPT !.committed = FailoverCommitted(cfg)]
             X == cfg.xray \cup (snapshotOnTunnel(cfg) \ cfg.paused)
  <2>1. cfg' = [cfg EXCEPT !.xray = X, !.fo = s]
    BY <1>5 DEF StageRestore, EnsureFailoverStaged
  <2>2. cfg'.xray = X
    <3> HIDE DEF s, X
    <3> QED BY <1>0, <2>1 DEF Config
  <2> QED BY <2>2
<1>6. CASE BeginRestore
  <2> DEFINE f == RestoreXrayClientsFromFailover(cfg)
             q == [snapshot |-> [cfg.fo EXCEPT !.committed = FailoverCommitted(cfg)],
                   restored |-> snapshotOnTunnel(cfg), active |-> cfg.active]
  <2>1. cfg.fo # Nil /\ cfg' = [f EXCEPT !.pend = q]
    BY <1>6 DEF BeginRestore, BeginXrayRestore
  <2>2. f \in Config /\ f.xray = cfg.xray \cup snapshotOnTunnel(cfg)
    BY <1>0, <2>1, RestoreFacts
  <2> HIDE DEF f, q
  <2> QED BY <2>1, <2>2 DEF Config
<1>7. ASSUME (\E ready \in BOOLEAN : FinishRestore(ready)) \/ DiscardRestore
      PROVE  cfg'.xray = cfg.xray
  <2>1. cfg' = [cfg EXCEPT !.pend = Nil]
    BY <1>7 DEF FinishRestore, DiscardRestore
  <2> QED BY <1>0, <2>1 DEF Config
<1>8. CASE ReinstateFailover
  <2> DEFINE p == cfg.pend
             s == FailoverSnapshot(p, cfg)
             kept == {c \in p.restored : StillRestored(p, cfg, c)}
             X == IF s.committed THEN cfg.xray \ s.clients ELSE cfg.xray
             u == PutOn(cfg.tun, s.tunnel, s.clients)
  <2>1. /\ p # Nil /\ s # Nil
        /\ cfg' = [[cfg EXCEPT !.tun = u, !.xray = X, !.fo = s] EXCEPT !.pend = Nil]
    BY <1>8 DEF ReinstateFailover, pendingRestoreGuard, ApplyFailoverSnapshot
  <2>2. s.clients = kept
    <3> DEFINE o == p.snapshot
               a == o.added \cap kept
    <3>1. p \in PendingRecord /\ o \in FailoverRecord
      BY <1>0, <2>1 DEF Config, PendingRecord
    <3>2. s = [o EXCEPT !.clients = kept, !.added = a]
      BY <2>1 DEF FailoverSnapshot
    <3> HIDE DEF s, o, kept, a
    <3> QED BY <3>1, <3>2 DEF FailoverRecord
  <2>3. \A c \in kept : c \notin cfg.paused
    BY DEF StillRestored
  <2>4. cfg'.xray = X
    <3> HIDE DEF s, u, X
    <3> QED BY <1>0, <2>1 DEF Config
  <2> HIDE DEF s, kept
  <2> QED BY <2>2, <2>3, <2>4
<1> QED BY <1>1, <1>2, <1>3, <1>4, <1>5, <1>6, <1>7, <1>8 DEF WatchNext

\* The watch writes nothing the user wanted.
LEMMA WatchLeavesWants == WatchNext => want' = want
BY DEF WatchNext, FailOutbound, CommitFailover, ExtendFailover, RetargetFailover, StageRestore,
       BeginRestore, FinishRestore, ReinstateFailover, DiscardRestore

\* The watch takes off Xray no paused client and none Tunnel Director cannot
\* mark: the first by the guards of its writes, the second because a client on
\* Xray is one the user has there, and an uncarriable one the user has there
\* stays there.
THEOREM OnlyCarriedLeave == Spec => OnlyCarriedLeaveXray
<1>1. TypeOK => [WatchNext => cfg.xray \cap cfg.paused \subseteq cfg'.xray]_vars
  BY WatchKeepsPaused
<1>2. ASSUME TypeOK, XrayChoiceKept, UncarriableStays'
      PROVE  [WatchNext => cfg.xray \cap (Client \ Carriable) \subseteq cfg'.xray]_vars
  BY <1>2, WatchLeavesWants DEF XrayChoiceKept, UncarriableStays
<1>3. TypeOK /\ XrayChoiceKept /\ UncarriableStays' =>
        [WatchNext => cfg.xray \cap (cfg.paused \cup (Client \ Carriable)) \subseteq cfg'.xray]_vars
  BY <1>1, <1>2
<1> QED BY <1>3, TypeCorrect, XrayChoiceIsKept, UncarriableNeverLeaves, PTL DEF Spec, OnlyCarriedLeaveXray

=============================================================================
