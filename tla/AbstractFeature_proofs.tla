------------------------ MODULE AbstractFeature_proofs ------------------------
(***************************************************************************)
(* Proofs about the service manager and the features that share it.        *)
(*                                                                         *)
(* ServiceManager: which builds of a plugin are registered, which          *)
(* interfaces are known, and that loads which meet leave one service       *)
(* object and one signal that tells the truth.                             *)
(* AbstractFeature: what the features do leaves these loads in order, a    *)
(* feature is never bound to a service object that was deleted, it is      *)
(* initialized only by the backend it hears, its search stays sound, and   *)
(* it gets a simulation backend only for want of a production backend.     *)
(* ZonedFeature: the zone features follow the binding of their parent.     *)
(***************************************************************************)
EXTENDS ZonedFeature, Selection_proofs, FiniteSetTheorems, TLAPS

IsSequence(q) == \E S : q \in Seq(S)

-----------------------------------------------------------------------------
(* Sequences *)

\* What is left of a sequence without its first element.
LEMMA TailElements ==
    ASSUME NEW q, IsSequence(q), q # <<>>
    PROVE  /\ IsSequence(Tail(q)) /\ Len(q) \in Nat \ {0} /\ Len(Tail(q)) = Len(q) - 1
           /\ Head(q) = q[1]
           /\ \A k \in 1..Len(Tail(q)) : Tail(q)[k] = q[k + 1]
  <1>1. PICK S : q \in Seq(S) BY DEF IsSequence
  <1>2. Tail(q) \in Seq(S) /\ Len(q) \in Nat \ {0} /\ Len(Tail(q)) = Len(q) - 1 /\ Head(q) = q[1]
    BY <1>1
  <1>3. \A k \in 1..Len(Tail(q)) : Tail(q)[k] = q[k + 1] BY <1>1
  <1> QED BY <1>2, <1>3 DEF IsSequence

\* What a sequence is with others before it.
LEMMA JoinedElements ==
    ASSUME NEW p, IsSequence(p), NEW q, IsSequence(q)
    PROVE  /\ IsSequence(p \o q) /\ Len(p) \in Nat /\ Len(q) \in Nat
           /\ Len(p \o q) = Len(p) + Len(q)
           /\ \A k \in 1..Len(p) : (p \o q)[k] = p[k]
           /\ \A k \in 1..Len(q) : (p \o q)[Len(p) + k] = q[k]
           /\ \A k \in 1..Len(p \o q) : k <= Len(p) \/ (k - Len(p) \in 1..Len(q) /\ (p \o q)[k] = q[k - Len(p)])
  <1>1. PICK S : p \in Seq(S) BY DEF IsSequence
  <1>2. PICK T : q \in Seq(T) BY DEF IsSequence
  <1> DEFINE U == S \cup T
  <1>3. p \in Seq(U) /\ q \in Seq(U) BY <1>1, <1>2
  <1> HIDE DEF U
  <1>4. p \o q \in Seq(U) /\ Len(p) \in Nat /\ Len(q) \in Nat /\ Len(p \o q) = Len(p) + Len(q)
    BY <1>3
  <1>5. \A k \in 1..Len(p) : (p \o q)[k] = p[k] BY <1>3
  <1>6. \A k \in 1..Len(q) : (p \o q)[Len(p) + k] = q[k] BY <1>3
  <1>7. \A k \in 1..Len(p \o q) : k <= Len(p) \/ (k - Len(p) \in 1..Len(q) /\ (p \o q)[k] = q[k - Len(p)])
    BY <1>3, <1>4
  <1> QED BY <1>4, <1>5, <1>6, <1>7 DEF IsSequence

-----------------------------------------------------------------------------
(* What is registered *)

Registers(q) == \E k \in 1..Len(q) : q[k].op = "register"
Pending(p) == \E k \in 1..Len(stack) : stack[k].op = "register" /\ stack[k].h[1] = p

StaticSet == {StaticPlugins[k] : k \in DOMAIN StaticPlugins}
Wanted(p) == (p \in DebugBuild) = LoadDebug

RegistryTypes ==
    /\ IsSequence(stack)
    /\ m_backends \in Seq(Plugins) /\ life \in [Plugins -> Nat]
    /\ libraryPaths \in Seq(Dirs) /\ m_loadedPaths \subseteq Dirs /\ m_staticLoaded \in BOOLEAN
    /\ \A k \in 1..Len(stack) : stack[k].op = "register" => stack[k].h[1] \in Plugins

\* Registrations are on top of the stack, and a backend without a file is registered once.
Registrations ==
    /\ \A k, l \in 1..Len(stack) : stack[k].op = "register" /\ l < k => stack[l].op = "register"
    /\ \A k, l \in 1..Len(stack) :
          ( /\ k # l /\ stack[k].op = "register" /\ stack[l].op = "register"
            /\ stack[k].h[1] = stack[l].h[1] ) => stack[k].h[1] \notin Resident
    /\ \A p \in Resident : Pending(p) => p \notin Registered
    /\ ~m_staticLoaded => \A p \in StaticSet : ~Pending(p) /\ p \notin Registered
    /\ fault # "none" => ~Registers(stack)

\* No two of the backends are builds of one plugin.
OneBuild ==
    \A i, j \in DOMAIN m_backends :
        i # j => /\ m_backends[i] # m_backends[j]
                 /\ m_backends[i] \notin Resident => ~SamePlugin(m_backends[i], m_backends[j])

\* A file that was seen is represented, by a build that is wanted if it is.
Represented(c) ==
    \E p \in Registered \ Resident : SamePlugin(c, p) /\ (Wanted(c) => Wanted(p))

RegistryInv ==
    /\ RegistryTypes
    /\ Registrations
    /\ OneBuild
    /\ \A d \in m_loadedPaths : \A k \in DOMAIN Content[d] :
          Pending(Content[d][k]) \/ Represented(Content[d][k])

\* Nothing is being registered when something else is under way.
LEMMA NothingRegistered ==
    ASSUME RegistryInv, stack = <<>> \/ Head(stack).op # "register"
    PROVE  ~Registers(stack)
  <1>1. CASE stack = <<>>
    BY <1>1 DEF Registers
  <1>2. CASE stack # <<>> /\ Head(stack).op # "register"
    <2>1. Len(stack) \in Nat \ {0} /\ Head(stack) = stack[1]
      BY <1>2, TailElements DEF RegistryInv, RegistryTypes
    <2>2. \A k \in 1..Len(stack) : stack[k].op = "register" /\ 1 < k => stack[1].op = "register"
      BY <2>1 DEF RegistryInv, Registrations
    <2> QED BY <1>2, <2>1, <2>2 DEF Registers
  <1> QED BY <1>1, <1>2

\* Other frames on top of others.
LEMMA PushedFrames ==
    ASSUME NEW p, IsSequence(p), ~Registers(p), NEW q, IsSequence(q), ~Registers(q)
    PROVE  /\ IsSequence(p \o q) /\ ~Registers(p \o q)
           /\ q # <<>> => /\ IsSequence(Tail(q)) /\ ~Registers(Tail(q))
                          /\ IsSequence(p \o Tail(q)) /\ ~Registers(p \o Tail(q))
  <1>1. ASSUME NEW r, IsSequence(r), ~Registers(r)
        PROVE  IsSequence(p \o r) /\ ~Registers(p \o r)
    <2>1. /\ IsSequence(p \o r) /\ Len(p) \in Nat
          /\ \A k \in 1..Len(p) : (p \o r)[k] = p[k]
          /\ \A k \in 1..Len(p \o r) : k <= Len(p) \/ (k - Len(p) \in 1..Len(r) /\ (p \o r)[k] = r[k - Len(p)])
      BY <1>1, JoinedElements
    <2>2. \A k \in 1..Len(p \o r) : (p \o r)[k].op # "register"
      BY <1>1, <2>1 DEF Registers
    <2> QED BY <2>1, <2>2 DEF Registers
  <1>2. ASSUME q # <<>> PROVE IsSequence(Tail(q)) /\ ~Registers(Tail(q))
    <2>1. /\ IsSequence(Tail(q)) /\ Len(q) \in Nat \ {0} /\ Len(Tail(q)) = Len(q) - 1
          /\ \A k \in 1..Len(Tail(q)) : Tail(q)[k] = q[k + 1]
      BY <1>2, TailElements
    <2> QED BY <2>1 DEF Registers
  <1> QED BY <1>1, <1>2

\* A step that registers nothing, and leaves the registry.
LEMMA RegistryStays ==
    ASSUME RegistryInv, UNCHANGED registry, libraryPaths' \in Seq(Dirs),
           \/ stack' = stack /\ fault' = fault
           \/ ~Registers(stack) /\ IsSequence(stack') /\ ~Registers(stack')
    PROVE  RegistryInv'
  <1>1. CASE stack' = stack /\ fault' = fault
    <2>1. \A p : Pending(p)' <=> Pending(p) BY <1>1 DEF Pending
    <2>2. Registered' = Registered BY DEF Registered, registry
    <2>3. \A c : Represented(c)' <=> Represented(c)
      BY <2>2 DEF Represented, SamePlugin, Wanted
    <2>4. Registers(stack)' <=> Registers(stack) BY <1>1 DEF Registers
    <2>5. RegistryTypes' BY <1>1 DEF RegistryInv, RegistryTypes, registry
    <2>6. Registrations'
      BY <1>1, <2>1, <2>2, <2>4 DEF RegistryInv, Registrations, registry
    <2>7. OneBuild' BY DEF RegistryInv, OneBuild, registry, SamePlugin
    <2> QED BY <2>1, <2>3, <2>5, <2>6, <2>7 DEF RegistryInv, registry
  <1>2. CASE ~Registers(stack) /\ IsSequence(stack') /\ ~Registers(stack')
    <2>1. \A p : ~Pending(p)' /\ ~Pending(p) BY <1>2 DEF Pending, Registers
    <2>2. Registered' = Registered BY DEF Registered, registry
    <2>3. \A c : Represented(c)' <=> Represented(c)
      BY <2>2 DEF Represented, SamePlugin, Wanted
    <2>4. RegistryTypes' BY <1>2 DEF RegistryInv, RegistryTypes, registry, Registers
    <2>5. Registrations'
      <3>1. \A k \in 1..Len(stack') : stack'[k].op # "register" BY <1>2 DEF Registers
      <3>2. ~m_staticLoaded' => \A p \in StaticSet : ~Pending(p)' /\ p \notin Registered'
        BY <2>1, <2>2 DEF RegistryInv, Registrations, registry
      <3>3. ~Registers(stack)' BY <1>2 DEF Registers
      <3> QED BY <2>1, <3>1, <3>2, <3>3 DEF Registrations
    <2>6. OneBuild' BY DEF RegistryInv, OneBuild, registry, SamePlugin
    <2> QED BY <2>1, <2>3, <2>4, <2>5, <2>6 DEF RegistryInv, registry
  <1> QED BY <1>1, <1>2

\* The steps that register nothing.
OtherStep ==
    \/ CreateAll \/ CreateEach \/ WaitForLoad \/ ThreadJoined \/ SpinDone
    \/ CreateServiceObject \/ UseDeletedBackend \/ EmitServiceObjectLoaded \/ HandlePosted
    \/ \E p \in Plugins : ReadServiceObjectRole(p) \/ ThreadDeleted(p)
    \/ \E d \in Dirs : AddLibraryPath(d)
    \/ \E i, flags : FindServiceByInterface(i, flags)
    \/ \E h \in Handles : \/ \E async : UserLoad(h, async)
                          \/ ThreadLoads(h) \/ RunningThreadDeleted(h)

\* The steps that neither search nor register, nor unload.
LEMMA OtherStepsKeepRegistry ==
    ASSUME RegistryInv, OtherStep
    PROVE  RegistryInv'
  <1>1. IsSequence(stack) /\ libraryPaths \in Seq(Dirs) BY DEF RegistryInv, RegistryTypes
  <1>2. \A x : /\ IsSequence(<<x>>) /\ (x.op # "register" => ~Registers(<<x>>))
               /\ \A y : /\ IsSequence(<<x, y>>)
                         /\ x.op # "register" /\ y.op # "register" => ~Registers(<<x, y>>)
    <2>1. \A x : <<x>> \in Seq({x}) /\ Len(<<x>>) = 1 /\ <<x>>[1] = x OBVIOUS
    <2>2. \A x, y : <<x, y>> \in Seq({x, y}) /\ Len(<<x, y>>) = 2 /\ <<x, y>>[1] = x /\ <<x, y>>[2] = y
      OBVIOUS
    <2>3. \A x : IsSequence(<<x>>) BY <2>1 DEF IsSequence
    <2>4. \A x, y : IsSequence(<<x, y>>) BY <2>2 DEF IsSequence
    <2>5. \A x : x.op # "register" => ~Registers(<<x>>) BY <2>1 DEF Registers
    <2>6. \A x, y : x.op # "register" /\ y.op # "register" => ~Registers(<<x, y>>)
      BY <2>2 DEF Registers
    <2> QED BY <2>3, <2>4, <2>5, <2>6
  <1>3. IsSequence(<<>>) /\ ~Registers(<<>>) BY DEF IsSequence, Registers
  <1>4. \A op, h, to, match : Frame(op, h, to, match).op = op BY DEF Frame
  <1>5. ASSUME NEW p, IsSequence(p), ~Registers(p), ~Registers(stack),
               UNCHANGED registry, libraryPaths' = libraryPaths,
               \/ stack' = p \o stack
               \/ stack # <<>> /\ stack' = p \o Tail(stack)
        PROVE  RegistryInv'
    BY <1>1, <1>5, PushedFrames, RegistryStays
  <1>6. ASSUME stack # <<>>, Head(stack).op # "register" PROVE ~Registers(stack)
    BY <1>6, NothingRegistered
  <1>7. ASSUME AtEventLoop PROVE ~Registers(stack)
    BY <1>7, NothingRegistered DEF AtEventLoop
  <1>8. ASSUME NEW hs, stack # <<>>, Head(stack).op # "register", UNCHANGED registry,
               libraryPaths' = libraryPaths, stack' = Creations(hs) \o Tail(stack)
        PROVE  RegistryInv'
    <2> DEFINE x == CreateFrame(Head(hs))
               y == Frame("createEach", Nowhere, Tail(hs), {})
    <2>1. x.op = "create" /\ y.op = "createEach" BY <1>4 DEF CreateFrame
    <2>2. \/ stack' = <<>> \o Tail(stack)
          \/ stack' = (<<x>> \o <<>>) \o Tail(stack)
          \/ stack' = (<<x>> \o <<y>>) \o Tail(stack)
      BY <1>8 DEF Creations
    <2>3. /\ IsSequence(<<x>> \o <<>>) /\ ~Registers(<<x>> \o <<>>)
          /\ IsSequence(<<x>> \o <<y>>) /\ ~Registers(<<x>> \o <<y>>)
      BY <1>2, <1>3, <2>1, PushedFrames
    <2> HIDE DEF x, y
    <2> QED BY <1>3, <1>5, <1>6, <1>8, <2>2, <2>3
  <1>9. CASE CreateAll \/ CreateEach
    <2>1. /\ stack # <<>> /\ Head(stack).op # "register" /\ UNCHANGED registry /\ libraryPaths' = libraryPaths
          /\ \E hs : stack' = Creations(hs) \o Tail(stack)
      BY <1>9 DEF CreateAll, CreateEach, Top
    <2> QED BY <1>8, <2>1
  <1>10. ASSUME ~Registers(stack), UNCHANGED registry, libraryPaths' \in Seq(Dirs), stack' = stack
         PROVE  RegistryInv'
    BY <1>1, <1>10, RegistryStays
  <1>11. ASSUME UNCHANGED registry, libraryPaths' = libraryPaths, stack' = stack, fault' = fault
         PROVE  RegistryInv'
    BY <1>1, <1>11, RegistryStays
  <1>12. CASE WaitForLoad
    <2>1. stack # <<>> /\ Head(stack).op = "create" BY <1>12 DEF WaitForLoad, Top
    <2>2. UNCHANGED registry /\ libraryPaths' = libraryPaths BY <1>12 DEF WaitForLoad
    <2>3. stack' = <<Frame("wait", Head(stack).h, <<>>, {})>> \o Tail(stack) \/ stack' = stack
      BY <1>12 DEF WaitForLoad
    <2> QED BY <1>1, <1>2, <1>4, <1>5, <1>6, <1>10, <2>1, <2>2, <2>3
  <1>13. CASE ThreadJoined
    <2>1. stack # <<>> /\ Head(stack).op = "wait" BY <1>13 DEF ThreadJoined, Top
    <2>2. UNCHANGED registry /\ libraryPaths' = libraryPaths BY <1>13 DEF ThreadJoined
    <2>3. stack' = <<Frame("spin", Head(stack).h, <<>>, {})>> \o Tail(stack)
      BY <1>13 DEF ThreadJoined
    <2> QED BY <1>2, <1>4, <1>5, <1>6, <2>1, <2>2, <2>3
  <1>14. CASE SpinDone
    <2>1. stack # <<>> /\ Head(stack).op = "spin" BY <1>14 DEF SpinDone, Top
    <2>2. UNCHANGED registry /\ libraryPaths' = libraryPaths BY <1>14 DEF SpinDone
    <2>3. stack' = <<Frame("create", Head(stack).h, <<>>, {})>> \o Tail(stack)
      BY <1>14 DEF SpinDone, CreateFrame
    <2> QED BY <1>2, <1>4, <1>5, <1>6, <2>1, <2>2, <2>3
  <1>15. CASE CreateServiceObject
    <2>1. stack # <<>> /\ Head(stack).op = "create" BY <1>15 DEF CreateServiceObject, Top
    <2>2. UNCHANGED registry /\ libraryPaths' = libraryPaths BY <1>15 DEF CreateServiceObject
    <2>3. stack' = Tail(stack) BY <1>15 DEF CreateServiceObject
    <2>4. ~Registers(stack) BY <1>6, <2>1
    <2>5. IsSequence(Tail(stack)) /\ ~Registers(Tail(stack))
      BY <1>1, <1>3, <2>1, <2>4, PushedFrames
    <2> QED BY <1>1, <2>2, <2>3, <2>4, <2>5, RegistryStays
  <1>16. CASE UseDeletedBackend
    <2>1. stack # <<>> /\ Head(stack).op # "register" BY <1>16 DEF UseDeletedBackend, Top
    <2> QED BY <1>1, <1>6, <1>10, <1>16, <2>1 DEF UseDeletedBackend
  <1>17. CASE EmitServiceObjectLoaded
    <2>1. stack # <<>> /\ Head(stack).op = "emit" BY <1>17 DEF EmitServiceObjectLoaded, Top
    <2>2. UNCHANGED registry /\ libraryPaths' = libraryPaths BY <1>17 DEF EmitServiceObjectLoaded
    <2> DEFINE e == Head(stack)
               x == Frame("notify", e.h, <<Head(e.to)>>, {})
               y == Frame("emit", e.h, Tail(e.to), {})
    <2>3. x.op # "register" /\ y.op # "register" BY <1>4
    <2>4. stack' = Tail(stack) \/ stack' = <<x, y>> \o Tail(stack)
      BY <1>17 DEF EmitServiceObjectLoaded
    <2>5. ~Registers(stack) BY <1>6, <2>1
    <2>6. IsSequence(Tail(stack)) /\ ~Registers(Tail(stack))
      BY <1>1, <1>3, <2>1, <2>5, PushedFrames
    <2> HIDE DEF x, y
    <2> QED BY <1>1, <1>2, <1>5, <2>1, <2>2, <2>3, <2>4, <2>5, <2>6, RegistryStays
  <1>18. CASE HandlePosted
    <2>1. UNCHANGED registry /\ libraryPaths' = libraryPaths /\ AtEventLoop BY <1>18 DEF HandlePosted
    <2>2. \A h : Emission(h).op = "emit" BY <1>4 DEF Emission
    <2>3. stack' = stack \/ stack' = <<Emission(Head(posted).h)>> \o stack
      BY <1>18 DEF HandlePosted, Signal
    <2> QED BY <1>1, <1>2, <1>5, <1>7, <1>10, <2>1, <2>2, <2>3
  <1>19. CASE \E p \in Plugins : ReadServiceObjectRole(p)
    <2>1. PICK p \in Plugins : ReadServiceObjectRole(p) BY <1>19
    <2>2. UNCHANGED registry /\ libraryPaths' = libraryPaths /\ AtEventLoop
      BY <2>1 DEF ReadServiceObjectRole, MayCall
    <2>3. \E x : stack' = <<x>> \o stack /\ x.op = "create"
      BY <1>4, <2>1 DEF ReadServiceObjectRole, CreateFrame
    <2> QED BY <1>2, <1>5, <1>7, <2>2, <2>3
  <1>20. CASE \E p \in Plugins : ThreadDeleted(p)
    BY <1>11, <1>20 DEF ThreadDeleted
  <1>21. CASE \E d \in Dirs : AddLibraryPath(d)
    <2>1. PICK d \in Dirs : AddLibraryPath(d) BY <1>21
    <2>2. libraryPaths' \in Seq(Dirs) BY <1>1, <2>1 DEF AddLibraryPath
    <2> QED BY <1>7, <1>10, <2>1, <2>2 DEF AddLibraryPath, MayCall
  <1>22. CASE \E i, flags : FindServiceByInterface(i, flags)
    <2>1. PICK i, flags : FindServiceByInterface(i, flags) BY <1>22
    <2>2. UNCHANGED registry /\ libraryPaths' = libraryPaths /\ AtEventLoop
      BY <2>1 DEF FindServiceByInterface, MayCall
    <2> DEFINE y == Frame("createAll", Nowhere, <<>>, Matching(i, flags))
    <2>3. SearchFrame.op = "search" /\ y.op = "createAll" BY <1>4 DEF SearchFrame
    <2>4. stack' = <<SearchFrame, y>> \o stack BY <2>1 DEF FindServiceByInterface
    <2> HIDE DEF y
    <2> QED BY <1>2, <1>5, <1>7, <2>2, <2>3, <2>4
  <1>23. CASE \E h \in Handles : \E async : UserLoad(h, async)
    <2>1. PICK h \in Handles : \E async : UserLoad(h, async) BY <1>23
    <2>2. UNCHANGED registry /\ libraryPaths' = libraryPaths /\ AtEventLoop
      BY <2>1 DEF UserLoad, MayCall
    <2>3. stack' = stack \/ stack' = <<CreateFrame(h), Emission(h)>> \o stack
      BY <2>1 DEF UserLoad, LoadServiceObject, CreateThenEmit
    <2>4. CreateFrame(h).op = "create" /\ Emission(h).op = "emit"
      BY <1>4 DEF CreateFrame, Emission
    <2> QED BY <1>1, <1>2, <1>5, <1>7, <1>10, <2>2, <2>3, <2>4
  <1>24. CASE \E h \in Handles : ThreadLoads(h)
    BY <1>11, <1>24 DEF ThreadLoads
  <1>25. CASE \E h \in Handles : RunningThreadDeleted(h)
    BY <1>1, <1>7, <1>10, <1>25 DEF RunningThreadDeleted
  <1> QED BY <1>9, <1>12, <1>13, <1>14, <1>15, <1>16, <1>17, <1>18, <1>19, <1>20,
             <1>21, <1>22, <1>23, <1>24, <1>25 DEF OtherStep

Registering(ps, q) == RegisterFrames(ps) \o q

\* Registrations on top of what is not one.
LEMMA RegistersPushed ==
    ASSUME NEW ps \in Seq(Plugins), NEW q, IsSequence(q), ~Registers(q),
           NEW s, s = Registering(ps, q)
    PROVE  /\ IsSequence(s)
           /\ \A k \in 1..Len(s) : /\ s[k].op = "register" <=> k \in DOMAIN ps
                                   /\ k \in DOMAIN ps => s[k].h[1] = ps[k]
           /\ DOMAIN ps \subseteq 1..Len(s)
           /\ DOMAIN ps = 1..Len(ps) /\ Len(ps) \in Nat
  <1> DEFINE r == RegisterFrames(ps)
             F(k) == Frame("register", <<ps[k], 0>>, <<>>, {})
             R == {F(k) : k \in DOMAIN ps}
  <1>1. DOMAIN ps = 1..Len(ps) /\ Len(ps) \in Nat OBVIOUS
  <1>2. r = [k \in 1..Len(ps) |-> F(k)] BY <1>1 DEF RegisterFrames
  <1>3. r \in Seq(R) /\ Len(r) = Len(ps)
    <2>1. \A k \in 1..Len(ps) : F(k) \in R BY <1>1
    <2> HIDE DEF F, R, r
    <2> QED BY <1>1, <1>2, <2>1
  <1>4. IsSequence(r) BY <1>3 DEF IsSequence
  <1>5. \A k \in DOMAIN ps : r[k].op = "register" /\ r[k].h[1] = ps[k]
    BY <1>1, <1>2 DEF Frame
  <1>6. /\ IsSequence(s) /\ Len(q) \in Nat /\ Len(s) = Len(ps) + Len(q)
        /\ \A k \in 1..Len(ps) : s[k] = r[k]
        /\ \A k \in 1..Len(s) : k <= Len(ps) \/ (k - Len(ps) \in 1..Len(q) /\ s[k] = q[k - Len(ps)])
    <2>1. s = r \o q BY DEF Registering
    <2> HIDE DEF r
    <2>2. /\ IsSequence(r \o q) /\ Len(q) \in Nat /\ Len(r \o q) = Len(r) + Len(q)
          /\ \A k \in 1..Len(r) : (r \o q)[k] = r[k]
          /\ \A k \in 1..Len(r \o q) :
                k <= Len(r) \/ (k - Len(r) \in 1..Len(q) /\ (r \o q)[k] = q[k - Len(r)])
      BY <1>4, JoinedElements
    <2>3. Len(r) = Len(ps) BY <1>3
    <2> QED BY <2>1, <2>2, <2>3
  <1>7. ASSUME NEW k \in 1..Len(s), s[k].op = "register" PROVE k \in DOMAIN ps
    <2>1. CASE k <= Len(ps) BY <1>1, <1>6, <2>1
    <2>2. CASE k - Len(ps) \in 1..Len(q) /\ s[k] = q[k - Len(ps)] BY <1>7, <2>2 DEF Registers
    <2> QED BY <1>6, <2>1, <2>2
  <1> HIDE DEF r
  <1>8. DOMAIN ps \subseteq 1..Len(s) BY <1>1, <1>6
  <1>9. \A k \in DOMAIN ps : s[k].op = "register" /\ s[k].h[1] = ps[k] BY <1>1, <1>5, <1>6
  <1> QED BY <1>1, <1>6, <1>7, <1>8, <1>9

\* The registrations of files, of linked plugins, or of an object.
LEMMA RegistrationsBegin ==
    ASSUME RegistryInv, NEW ps \in Seq(Plugins), NEW q, IsSequence(q), ~Registers(q),
           ~Registers(stack), stack' = RegisterFrames(ps) \o q, fault' = "none",
           UNCHANGED <<m_backends, life, libraryPaths>>,
           m_loadedPaths' \subseteq Dirs, m_staticLoaded' \in BOOLEAN,
           \A d \in m_loadedPaths' : d \in m_loadedPaths \/ ps = Content[d],
           m_staticLoaded => m_staticLoaded',
           ~m_staticLoaded' => \A k \in DOMAIN ps : ps[k] \notin StaticSet,
           \A k \in DOMAIN ps : ps[k] \in Resident => ps[k] \notin Registered,
           \A k, l \in DOMAIN ps : k # l /\ ps[k] = ps[l] => ps[k] \notin Resident
    PROVE  RegistryInv'
  <1>1. /\ IsSequence(stack')
        /\ \A k \in 1..Len(stack') : /\ stack'[k].op = "register" <=> k \in DOMAIN ps
                                     /\ k \in DOMAIN ps => stack'[k].h[1] = ps[k]
        /\ DOMAIN ps \subseteq 1..Len(stack') /\ DOMAIN ps = 1..Len(ps) /\ Len(ps) \in Nat
    <2> DEFINE s == stack'
    <2>1. s = Registering(ps, q) BY DEF Registering
    <2> HIDE DEF s
    <2>2. /\ IsSequence(s)
          /\ \A k \in 1..Len(s) : /\ s[k].op = "register" <=> k \in DOMAIN ps
                                  /\ k \in DOMAIN ps => s[k].h[1] = ps[k]
          /\ DOMAIN ps \subseteq 1..Len(s) /\ DOMAIN ps = 1..Len(ps) /\ Len(ps) \in Nat
      BY <2>1, RegistersPushed
    <2> QED BY <2>2 DEF s
  <1>2. \A p : Pending(p)' <=> \E k \in DOMAIN ps : ps[k] = p BY <1>1 DEF Pending
  <1>3. \A p : ~Pending(p) BY DEF Pending, Registers
  <1>4. Registered' = Registered BY DEF Registered
  <1>5. \A c : Represented(c)' <=> Represented(c) BY <1>4 DEF Represented, SamePlugin, Wanted
  <1>6. RegistryTypes'
    <2>1. \A k \in 1..Len(stack') : stack'[k].op = "register" => stack'[k].h[1] \in Plugins
      <3>1. \A k \in DOMAIN ps : ps[k] \in Plugins BY <1>1
      <3> QED BY <1>1, <3>1
    <2> QED BY <1>1, <2>1 DEF RegistryInv, RegistryTypes
  <1>7. Registrations'
    <2>1. \A k, l \in 1..Len(stack') : stack'[k].op = "register" /\ l < k => stack'[l].op = "register"
      BY <1>1
    <2>2. \A k, l \in 1..Len(stack') :
            ( /\ k # l /\ stack'[k].op = "register" /\ stack'[l].op = "register"
              /\ stack'[k].h[1] = stack'[l].h[1] ) => stack'[k].h[1] \notin Resident
      <3>1. ASSUME NEW k \in 1..Len(stack'), NEW l \in 1..Len(stack'), k # l,
                   stack'[k].op = "register", stack'[l].op = "register",
                   stack'[k].h[1] = stack'[l].h[1]
            PROVE  stack'[k].h[1] \notin Resident
        <4>1. k \in DOMAIN ps /\ stack'[k].h[1] = ps[k] BY <1>1, <3>1
        <4>2. l \in DOMAIN ps /\ stack'[l].h[1] = ps[l] BY <1>1, <3>1
        <4> QED BY <3>1, <4>1, <4>2
      <3> QED BY <3>1
    <2>3. \A p \in Resident : Pending(p)' => p \notin Registered' BY <1>2, <1>4
    <2>4. ~m_staticLoaded' => \A p \in StaticSet : ~Pending(p)' /\ p \notin Registered'
      BY <1>2, <1>4 DEF RegistryInv, Registrations
    <2> QED BY <2>1, <2>2, <2>3, <2>4 DEF Registrations
  <1>8. OneBuild' BY DEF RegistryInv, OneBuild, SamePlugin
  <1>9. ASSUME NEW d \in m_loadedPaths', NEW k \in DOMAIN Content[d]
        PROVE  Pending(Content[d][k])' \/ Represented(Content[d][k])'
    <2>1. CASE d \in m_loadedPaths BY <1>3, <1>5, <2>1 DEF RegistryInv
    <2>2. CASE ps = Content[d] BY <1>2, <2>2
    <2> QED BY <2>1, <2>2
  <1> QED BY <1>6, <1>7, <1>8, <1>9 DEF RegistryInv

\* searchPlugins()
LEMMA SearchKeepsRegistry ==
    ASSUME RegistryInv, SearchPlugins
    PROVE  RegistryInv'
  <1>1. /\ stack # <<>> /\ Head(stack).op = "search" /\ fault = "none"
        /\ UNCHANGED <<m_backends, m_interfaceNames, life, libraryPaths, fault>>
    BY DEF SearchPlugins, Top
  <1>2. ~Registers(stack) BY <1>1, NothingRegistered
  <1>3. IsSequence(stack) /\ libraryPaths \in Seq(Dirs) /\ m_loadedPaths \subseteq Dirs /\ m_staticLoaded \in BOOLEAN
    BY DEF RegistryInv, RegistryTypes
  <1>4. IsSequence(<<>>) /\ ~Registers(<<>>) BY DEF IsSequence, Registers
  <1>5. IsSequence(Tail(stack)) /\ ~Registers(Tail(stack)) BY <1>1, <1>2, <1>3, <1>4, PushedFrames
  <1>6. CASE \E i \in NewDirs : /\ m_loadedPaths' = m_loadedPaths \cup {libraryPaths[i]}
                                /\ stack' = RegisterFrames(Content[libraryPaths[i]]) \o stack
                                /\ UNCHANGED m_staticLoaded
    <2>1. PICK i \in NewDirs : /\ m_loadedPaths' = m_loadedPaths \cup {libraryPaths[i]}
                              /\ stack' = RegisterFrames(Content[libraryPaths[i]]) \o stack
                              /\ UNCHANGED m_staticLoaded
      BY <1>6
    <2> DEFINE d == libraryPaths[i]
    <2>2. d \in Dirs BY <1>3 DEF NewDirs
    <2>3. Content[d] \in Seq(Plugins) /\ \A k \in DOMAIN Content[d] : Content[d][k] \notin Resident
      BY <2>2, ManagerAssumption, PluginsAssumption
    <2>4. StaticSet \subseteq Resident BY DEF StaticSet, Resident
    <2> HIDE DEF d
    <2> QED BY <1>1, <1>2, <1>3, <2>1, <2>2, <2>3, <2>4, RegistrationsBegin DEF d
  <1>7. CASE m_staticLoaded /\ m_staticLoaded' = TRUE /\ stack' = <<>> \o Tail(stack) /\ UNCHANGED m_loadedPaths
    <2>1. IsSequence(stack') /\ ~Registers(stack') BY <1>4, <1>5, <1>7, PushedFrames
    <2>2. UNCHANGED registry BY <1>1, <1>3, <1>7 DEF registry
    <2> QED BY <1>1, <1>2, <1>3, <2>1, <2>2, RegistryStays
  <1>8. CASE ~m_staticLoaded /\ m_staticLoaded' = TRUE /\ UNCHANGED m_loadedPaths
             /\ stack' = RegisterFrames(StaticPlugins) \o Tail(stack)
    <2>1. \A k \in DOMAIN StaticPlugins : StaticPlugins[k] \in StaticSet BY DEF StaticSet
    <2>2. \A k \in DOMAIN StaticPlugins : StaticPlugins[k] \notin Registered
      BY <1>8, <2>1 DEF RegistryInv, Registrations
    <2>3. StaticPlugins \in Seq(Plugins) BY ManagerAssumption
    <2>4. \A k, l \in DOMAIN StaticPlugins : k # l => StaticPlugins[k] # StaticPlugins[l]
      BY PluginsAssumption
    <2> QED BY <1>1, <1>2, <1>3, <1>5, <1>8, <2>2, <2>3, <2>4, RegistrationsBegin
  <1> QED BY <1>3, <1>6, <1>7, <1>8 DEF SearchPlugins

\* registerService()
LEMMA ServiceKeepsRegistry ==
    ASSUME RegistryInv, NEW p \in Plugins, RegisterService(p)
    PROVE  RegistryInv'
  <1>1. /\ AtEventLoop /\ p \in Objects \ Registered /\ fault = "none"
        /\ UNCHANGED <<registry, libraryPaths, fault>>
        /\ stack' = RegisterFrames(<<p>>) \o stack
    BY DEF RegisterService, MayCall, AtEventLoop
  <1>2. ~Registers(stack) BY <1>1, NothingRegistered DEF AtEventLoop
  <1>3. IsSequence(stack) /\ m_loadedPaths \subseteq Dirs /\ m_staticLoaded \in BOOLEAN
    BY DEF RegistryInv, RegistryTypes
  <1> DEFINE ps == <<p>>
  <1>4. ps \in Seq(Plugins) /\ DOMAIN ps = {1} /\ ps[1] = p OBVIOUS
  <1>5. p \notin StaticSet BY <1>1, PluginsAssumption DEF StaticSet
  <1>6. stack' = RegisterFrames(ps) \o stack BY <1>1
  <1> HIDE DEF ps
  <1> QED BY <1>1, <1>2, <1>3, <1>4, <1>5, <1>6, RegistrationsBegin DEF registry

\* unloadAllBackends()
LEMMA UnloadKeepsRegistry ==
    ASSUME RegistryInv, UnloadAllBackends
    PROVE  RegistryInv'
  <1>1. /\ AtEventLoop /\ fault = "none"
        /\ UNCHANGED <<life, libraryPaths, stack, fault>>
        /\ m_backends' = <<>> /\ m_loadedPaths' = {} /\ m_staticLoaded' = FALSE
    BY DEF UnloadAllBackends, NotSearched, MayCall, AtEventLoop
  <1>2. ~Registers(stack) BY <1>1, NothingRegistered DEF AtEventLoop
  <1>3. RegistryTypes'
    <2>1. m_backends' \in Seq(Plugins) BY <1>1
    <2>2. IsSequence(stack)' BY <1>1 DEF RegistryInv, RegistryTypes
    <2> QED BY <1>1, <2>1, <2>2 DEF RegistryInv, RegistryTypes
  <1>4. \A p : ~Pending(p)' BY <1>1, <1>2 DEF Pending, Registers
  <1>5. Registered' = {} BY <1>1 DEF Registered
  <1>6. Registrations'
    <2>1. \A k \in 1..Len(stack') : stack'[k].op # "register" BY <1>1, <1>2 DEF Registers
    <2> QED BY <1>1, <1>4, <1>5, <2>1 DEF Registrations
  <1>7. OneBuild' BY <1>1 DEF OneBuild
  <1> QED BY <1>1, <1>3, <1>6, <1>7 DEF RegistryInv

\* At most one of the backends is a build of the plugin of another.
LEMMA OneRival ==
    ASSUME RegistryInv, NEW p \in Plugins, Rivals(p) # {}
    PROVE  /\ FirstRival(p) \in DOMAIN m_backends /\ p \notin Resident
           /\ SamePlugin(p, m_backends[FirstRival(p)])
  <1>1. \A i, j \in Rivals(p) : i = j
    BY DEF RegistryInv, OneBuild, Rivals, SamePlugin
  <1>2. Rivals(p) \subseteq Nat BY DEF Rivals, RegistryInv, RegistryTypes
  <1>3. FirstRival(p) \in Rivals(p) BY <1>1, <1>2 DEF FirstRival
  <1> QED BY <1>3 DEF Rivals

\* What a backend leaves on the stack that was registered.
LEMMA TopRegistered ==
    ASSUME RegistryInv, NEW p, Top("register"), p = Head(stack).h[1], stack' = Tail(stack), fault' = fault
    PROVE  /\ p \in Plugins /\ Pending(p) /\ fault = "none"
           /\ IsSequence(stack')
           /\ \A k \in 1..Len(stack') : k + 1 \in 1..Len(stack) /\ stack'[k] = stack[k + 1]
           /\ \A x : Pending(x)' => Pending(x)
           /\ \A x : Pending(x) => Pending(x)' \/ x = p
           /\ p \in Resident => ~Pending(p)'
  <1>1. stack # <<>> /\ Head(stack).op = "register" /\ fault = "none" BY DEF Top
  <1>2. IsSequence(stack) /\ \A k \in 1..Len(stack) : stack[k].op = "register" => stack[k].h[1] \in Plugins
    BY DEF RegistryInv, RegistryTypes
  <1>3. /\ IsSequence(stack') /\ Len(stack) \in Nat \ {0} /\ Len(stack') = Len(stack) - 1
        /\ Head(stack) = stack[1]
        /\ \A k \in 1..Len(stack') : stack'[k] = stack[k + 1]
    BY <1>1, <1>2, TailElements
  <1>4. p \in Plugins /\ Pending(p) BY <1>1, <1>2, <1>3 DEF Pending
  <1>5. \A k \in 1..Len(stack') : k + 1 \in 1..Len(stack) /\ stack'[k] = stack[k + 1]
    BY <1>3
  <1>6. \A x : Pending(x)' => Pending(x) BY <1>5 DEF Pending
  <1>7. ASSUME NEW x, Pending(x) PROVE Pending(x)' \/ x = p
    <2>1. PICK k \in 1..Len(stack) : stack[k].op = "register" /\ stack[k].h[1] = x
      BY <1>7 DEF Pending
    <2>2. CASE k = 1 BY <1>3, <2>1, <2>2
    <2>3. CASE k # 1
      <3>1. k - 1 \in 1..Len(stack') /\ stack'[k - 1] = stack[k] BY <1>3, <2>1, <2>3
      <3> QED BY <2>1, <3>1 DEF Pending
    <2> QED BY <2>2, <2>3
  <1>8. ASSUME p \in Resident, Pending(p)' PROVE FALSE
    <2>1. PICK k \in 1..Len(stack') : stack'[k].op = "register" /\ stack'[k].h[1] = p
      BY <1>8 DEF Pending
    <2>2. k + 1 \in 1..Len(stack) /\ k + 1 # 1 /\ stack[k + 1].op = "register" /\ stack[k + 1].h[1] = p
      BY <1>5, <2>1
    <2>3. 1 \in 1..Len(stack) /\ stack[1].op = "register" /\ stack[1].h[1] = p BY <1>1, <1>3
    <2> QED BY <1>8, <2>2, <2>3 DEF RegistryInv, Registrations
  <1> QED BY <1>1, <1>3, <1>4, <1>5, <1>6, <1>7, <1>8

\* addBackend()
LEMMA AddKeepsRegistry ==
    ASSUME RegistryInv, AddBackend
    PROVE  RegistryInv'
  <1>0. PICK p : p = Head(stack).h[1] OBVIOUS
  <1>1. /\ Top("register") /\ stack' = Tail(stack)
        /\ UNCHANGED <<m_loadedPaths, m_staticLoaded, libraryPaths, fault>>
    BY DEF AddBackend
  <1>2. /\ p \in Plugins /\ Pending(p) /\ fault = "none"
        /\ IsSequence(stack')
        /\ \A k \in 1..Len(stack') : k + 1 \in 1..Len(stack) /\ stack'[k] = stack[k + 1]
        /\ \A x : Pending(x)' => Pending(x)
        /\ \A x : Pending(x) => Pending(x)' \/ x = p
        /\ p \in Resident => ~Pending(p)'
    BY <1>0, <1>1, TopRegistered
  <1>3. IF IsSkipped(p)
        THEN UNCHANGED <<m_backends, life>>
        ELSE /\ life' = [life EXCEPT ![p] = @ + 1]
             /\ IF IsReplaced(p)
                THEN m_backends' = [m_backends EXCEPT ![FirstRival(p)] = p]
                ELSE m_backends' = Append(m_backends, p)
    BY <1>0 DEF AddBackend
  <1>4. m_backends \in Seq(Plugins) /\ life \in [Plugins -> Nat] BY DEF RegistryInv, RegistryTypes
  <1>5. p \in Resident => p \notin Registered BY <1>2 DEF RegistryInv, Registrations
  <1>6. ~m_staticLoaded => p \notin StaticSet BY <1>2 DEF RegistryInv, Registrations
  <1>7. Registered' \subseteq Registered \cup {p} /\ m_backends' \in Seq(Plugins) /\ life' \in [Plugins -> Nat]
    <2>1. CASE UNCHANGED <<m_backends, life>> BY <1>4, <2>1 DEF Registered
    <2>2. CASE m_backends' = [m_backends EXCEPT ![FirstRival(p)] = p] /\ life' = [life EXCEPT ![p] = @ + 1]
      <3>1. DOMAIN m_backends' = DOMAIN m_backends /\ \A i \in DOMAIN m_backends : m_backends'[i] = m_backends[i] \/ m_backends'[i] = p
        BY <1>4, <2>2
      <3>2. m_backends' \in Seq(Plugins)
        <4>1. m_backends \in [1..Len(m_backends) -> Plugins] /\ Len(m_backends) \in Nat BY <1>4
        <4>2. m_backends' \in [1..Len(m_backends) -> Plugins] BY <1>2, <2>2, <4>1
        <4> QED BY <4>1, <4>2
      <3>3. ASSUME NEW x \in Registered' PROVE x \in Registered \cup {p}
        <4>1. PICK i \in DOMAIN m_backends' : x = m_backends'[i] BY <3>3 DEF Registered
        <4> QED BY <3>1, <4>1 DEF Registered
      <3>4. life' \in [Plugins -> Nat] BY <1>2, <1>4, <2>2
      <3> QED BY <3>2, <3>3, <3>4
    <2>3. CASE m_backends' = Append(m_backends, p) /\ life' = [life EXCEPT ![p] = @ + 1]
      <3>1. m_backends' \in Seq(Plugins) BY <1>2, <1>4, <2>3
      <3>2. \A i \in DOMAIN m_backends' : m_backends'[i] = p \/ (i \in DOMAIN m_backends /\ m_backends'[i] = m_backends[i])
        BY <1>2, <1>4, <2>3
      <3>3. ASSUME NEW x \in Registered' PROVE x \in Registered \cup {p}
        <4>1. PICK i \in DOMAIN m_backends' : x = m_backends'[i] BY <3>3 DEF Registered
        <4> QED BY <3>2, <4>1 DEF Registered
      <3>4. life' \in [Plugins -> Nat] BY <1>2, <1>4, <2>3
      <3> QED BY <3>1, <3>3, <3>4
    <2> QED BY <1>3, <2>1, <2>2, <2>3
  <1>8. RegistryTypes'
    <2>1. \A k \in 1..Len(stack') : stack'[k].op = "register" => stack'[k].h[1] \in Plugins
      BY <1>2 DEF RegistryInv, RegistryTypes
    <2> QED BY <1>1, <1>2, <1>7, <2>1 DEF RegistryInv, RegistryTypes
  <1>9. Registrations'
    <2>1. \A k, l \in 1..Len(stack') : stack'[k].op = "register" /\ l < k => stack'[l].op = "register"
      <3>1. \A k, l \in 1..Len(stack) : stack[k].op = "register" /\ l < k => stack[l].op = "register"
        BY DEF RegistryInv, Registrations
      <3>2. ASSUME NEW k \in 1..Len(stack'), NEW l \in 1..Len(stack'), stack'[k].op = "register", l < k
            PROVE  stack'[l].op = "register"
        <4>1. k + 1 \in 1..Len(stack) /\ stack'[k] = stack[k + 1] BY <1>2
        <4>2. l + 1 \in 1..Len(stack) /\ stack'[l] = stack[l + 1] BY <1>2
        <4>3. l + 1 < k + 1 BY <3>2
        <4> QED BY <3>1, <3>2, <4>1, <4>2, <4>3
      <3> QED BY <3>2
    <2>2. \A k, l \in 1..Len(stack') :
            ( /\ k # l /\ stack'[k].op = "register" /\ stack'[l].op = "register"
              /\ stack'[k].h[1] = stack'[l].h[1] ) => stack'[k].h[1] \notin Resident
      <3>1. \A k, l \in 1..Len(stack) :
              ( /\ k # l /\ stack[k].op = "register" /\ stack[l].op = "register"
                /\ stack[k].h[1] = stack[l].h[1] ) => stack[k].h[1] \notin Resident
        BY DEF RegistryInv, Registrations
      <3>2. ASSUME NEW k \in 1..Len(stack'), NEW l \in 1..Len(stack'), k # l,
                   stack'[k].op = "register", stack'[l].op = "register",
                   stack'[k].h[1] = stack'[l].h[1]
            PROVE  stack'[k].h[1] \notin Resident
        <4>1. k + 1 \in 1..Len(stack) /\ stack'[k] = stack[k + 1] BY <1>2
        <4>2. l + 1 \in 1..Len(stack) /\ stack'[l] = stack[l + 1] BY <1>2
        <4>3. l + 1 # k + 1 BY <3>2
        <4> QED BY <3>1, <3>2, <4>1, <4>2, <4>3
      <3> QED BY <3>2
    <2>3. \A x \in Resident : Pending(x)' => x \notin Registered'
      <3>1. \A x \in Resident : Pending(x) => x \notin Registered
        BY DEF RegistryInv, Registrations
      <3>2. \A x \in Resident : Pending(x)' => Pending(x) /\ x # p BY <1>2
      <3> QED BY <1>7, <3>1, <3>2
    <2>4. ~m_staticLoaded' => \A x \in StaticSet : ~Pending(x)' /\ x \notin Registered'
      BY <1>1, <1>2, <1>6, <1>7 DEF RegistryInv, Registrations
    <2>5. fault' = "none" BY <1>1, <1>2
    <2> QED BY <2>1, <2>2, <2>3, <2>4, <2>5 DEF Registrations
  <1>10. ASSUME IsSkipped(p)
         PROVE  OneBuild' /\ (\A c : Represented(c) => Represented(c)') /\ (p \notin Resident => Represented(p)')
    <2>1. UNCHANGED <<m_backends, life>> BY <1>3, <1>10
    <2>2. Rivals(p) # {} /\ ~IsReplaced(p) BY <1>10 DEF IsSkipped
    <2> DEFINE r == FirstRival(p)
    <2>3. r \in DOMAIN m_backends /\ p \notin Resident /\ SamePlugin(p, m_backends[r])
      BY <1>2, <2>2, OneRival
    <2>4. m_backends[r] = p \/ Wanted(m_backends[r]) BY <2>2 DEF IsReplaced, Wanted
    <2>5. m_backends[r] \in Registered \ Resident BY <2>3 DEF Registered, SamePlugin
    <2> HIDE DEF r
    <2>6. Represented(p) BY <2>3, <2>4, <2>5 DEF Represented
    <2>7. Registered' = Registered BY <2>1 DEF Registered
    <2>8. \A c : Represented(c)' <=> Represented(c) BY <2>7 DEF Represented, SamePlugin, Wanted
    <2>9. OneBuild' BY <2>1 DEF RegistryInv, OneBuild, SamePlugin
    <2> QED BY <2>6, <2>8, <2>9
  <1>11. ASSUME ~IsSkipped(p), IsReplaced(p)
         PROVE  OneBuild' /\ (\A c : Represented(c) => Represented(c)') /\ (p \notin Resident => Represented(p)')
    <2> DEFINE r == FirstRival(p)
    <2>1. m_backends' = [m_backends EXCEPT ![r] = p] BY <1>3, <1>11
    <2>2. Rivals(p) # {} /\ m_backends[r] # p /\ ~Wanted(m_backends[r])
      BY <1>11 DEF IsReplaced, Wanted
    <2>3. r \in DOMAIN m_backends /\ p \notin Resident /\ SamePlugin(p, m_backends[r])
      BY <1>2, <2>2, OneRival
    <2> HIDE DEF r
    <2>4. /\ DOMAIN m_backends' = DOMAIN m_backends /\ m_backends'[r] = p
          /\ \A i \in DOMAIN m_backends : i # r => m_backends'[i] = m_backends[i]
      BY <1>4, <2>1, <2>3
    <2>5. \A i \in DOMAIN m_backends : i # r => m_backends[i] \in Resident \/ ~SamePlugin(m_backends[i], p)
      BY <2>3 DEF RegistryInv, OneBuild, SamePlugin
    <2>6. \A i \in DOMAIN m_backends : i # r => m_backends[i] # p
      BY <2>3, <2>5 DEF SamePlugin
    <2>7. \A i \in DOMAIN m_backends : i # r => ~SamePlugin(p, m_backends[i])
      BY <2>3, <2>5 DEF SamePlugin
    <2>8. OneBuild'
      <3>1. ASSUME NEW i \in DOMAIN m_backends, NEW j \in DOMAIN m_backends, i # j
            PROVE  /\ m_backends'[i] # m_backends'[j]
                   /\ m_backends'[i] \notin Resident => ~SamePlugin(m_backends'[i], m_backends'[j])
        <4>1. CASE i = r BY <2>4, <2>6, <2>7, <3>1, <4>1
        <4>2. CASE j = r BY <2>4, <2>5, <2>6, <3>1, <4>2
        <4>3. CASE i # r /\ j # r BY <2>4, <3>1, <4>3 DEF RegistryInv, OneBuild
        <4> QED BY <4>1, <4>2, <4>3
      <3> QED BY <2>4, <3>1 DEF OneBuild, SamePlugin
    <2>9. p \in Registered' BY <2>3, <2>4 DEF Registered
    <2>10. \A x \in Registered : x = m_backends[r] \/ x \in Registered'
      BY <2>4 DEF Registered
    <2>11. ASSUME NEW c, Represented(c) PROVE Represented(c)'
      <3>1. PICK x \in Registered \ Resident : SamePlugin(c, x) /\ (Wanted(c) => Wanted(x))
        BY <2>11 DEF Represented
      <3>2. CASE x \in Registered' BY <3>1, <3>2 DEF Represented, SamePlugin, Wanted
      <3>3. CASE x = m_backends[r]
        BY <2>2, <2>3, <2>9, <3>1, <3>3 DEF Represented, SamePlugin, Wanted
      <3> QED BY <2>10, <3>1, <3>2, <3>3
    <2>12. Represented(p)' BY <2>3, <2>9 DEF Represented, SamePlugin, Wanted
    <2> QED BY <2>8, <2>11, <2>12
  <1>12. ASSUME ~IsSkipped(p), ~IsReplaced(p)
         PROVE  OneBuild' /\ (\A c : Represented(c) => Represented(c)') /\ (p \notin Resident => Represented(p)')
    <2>1. m_backends' = Append(m_backends, p) BY <1>3, <1>12
    <2>2. Rivals(p) = {} BY <1>12 DEF IsSkipped
    <2> DEFINE n == Len(m_backends) + 1
    <2>3. /\ n \in DOMAIN m_backends' /\ m_backends'[n] = p
          /\ \A i \in DOMAIN m_backends : i \in DOMAIN m_backends' /\ m_backends'[i] = m_backends[i]
          /\ \A i \in DOMAIN m_backends' : i = n \/ i \in DOMAIN m_backends
      BY <1>2, <1>4, <2>1
    <2> HIDE DEF n
    <2>4. \A i \in DOMAIN m_backends : p \in Resident \/ ~SamePlugin(p, m_backends[i])
      BY <2>2 DEF Rivals
    <2>5. \A i \in DOMAIN m_backends : m_backends[i] # p
      BY <1>5, <2>4 DEF Registered, SamePlugin
    <2>6. \A i \in DOMAIN m_backends : m_backends[i] \notin Resident => ~SamePlugin(m_backends[i], p)
      BY <2>4 DEF SamePlugin
    <2>7. OneBuild'
      <3>1. ASSUME NEW i \in DOMAIN m_backends', NEW j \in DOMAIN m_backends', i # j
            PROVE  /\ m_backends'[i] # m_backends'[j]
                   /\ m_backends'[i] \notin Resident => ~SamePlugin(m_backends'[i], m_backends'[j])
        <4>1. CASE i = n BY <2>3, <2>4, <2>5, <3>1, <4>1
        <4>2. CASE j = n BY <2>3, <2>5, <2>6, <3>1, <4>2
        <4>3. CASE i # n /\ j # n BY <2>3, <3>1, <4>3 DEF RegistryInv, OneBuild
        <4> QED BY <4>1, <4>2, <4>3
      <3> QED BY <3>1 DEF OneBuild, SamePlugin
    <2>8. p \in Registered' /\ Registered \subseteq Registered' BY <2>3 DEF Registered
    <2>9. \A c : Represented(c) => Represented(c)'
      BY <2>8 DEF Represented, SamePlugin, Wanted
    <2>10. p \notin Resident => Represented(p)' BY <2>8 DEF Represented, SamePlugin, Wanted
    <2> QED BY <2>7, <2>9, <2>10
  <1>13. ASSUME NEW d \in m_loadedPaths', NEW k \in DOMAIN Content[d]
         PROVE  Pending(Content[d][k])' \/ Represented(Content[d][k])'
    <2>1. d \in Dirs BY <1>13, <1>8 DEF RegistryTypes
    <2>2. Content[d][k] \notin Resident BY <2>1, PluginsAssumption
    <2>3. Pending(Content[d][k]) \/ Represented(Content[d][k]) BY <1>1, <1>13 DEF RegistryInv
    <2> QED BY <1>2, <1>10, <1>11, <1>12, <2>2, <2>3
  <1> QED BY <1>8, <1>9, <1>10, <1>11, <1>12, <1>13 DEF RegistryInv

\* Before the constructor searches nothing is registered.
LEMMA RegistryInitially ==
    ManagerInit => RegistryInv
  <1> SUFFICES ASSUME ManagerInit PROVE RegistryInv OBVIOUS
  <1>1. /\ m_backends = <<>> /\ m_loadedPaths = {} /\ m_staticLoaded = FALSE /\ fault = "none"
        /\ life = [p \in Plugins |-> 0] /\ stack = <<SearchFrame>>
    BY DEF ManagerInit
  <1>2. libraryPaths \in Seq(Dirs)
    <2>1. <<>> \in Seq(Dirs) /\ \A d \in Dirs : <<d>> \in Seq(Dirs) OBVIOUS
    <2> QED BY <2>1 DEF ManagerInit
  <1>3. IsSequence(stack) /\ Len(stack) = 1 /\ stack[1].op = "search"
    <2> DEFINE x == SearchFrame
    <2>1. x.op = "search" /\ stack = <<x>> BY <1>1 DEF SearchFrame, Frame
    <2> HIDE DEF x
    <2>2. <<x>> \in Seq({x}) /\ Len(<<x>>) = 1 /\ <<x>>[1] = x OBVIOUS
    <2>3. IsSequence(<<x>>) BY <2>2 DEF IsSequence
    <2> QED BY <2>1, <2>2, <2>3
  <1>4. RegistryTypes
    <2>1. \A k \in 1..Len(stack) : stack[k].op # "register" BY <1>3
    <2>2. m_backends \in Seq(Plugins) /\ life \in [Plugins -> Nat] BY <1>1
    <2> QED BY <1>1, <1>2, <1>3, <2>1, <2>2 DEF RegistryTypes
  <1>5. Registered = {} BY <1>1 DEF Registered
  <1>6. \A p : ~Pending(p) BY <1>3 DEF Pending
  <1>7. Registrations BY <1>1, <1>3, <1>5, <1>6 DEF Registrations
  <1>8. OneBuild BY <1>1 DEF OneBuild
  <1> QED BY <1>1, <1>4, <1>7, <1>8 DEF RegistryInv

\* Every step of the manager keeps the registry in order.
LEMMA RegistryKept ==
    RegistryInv /\ [ManagerNext]_managerVars => RegistryInv'
  <1> SUFFICES ASSUME RegistryInv, [ManagerNext]_managerVars PROVE RegistryInv' OBVIOUS
  <1>1. CASE OtherStep BY <1>1, OtherStepsKeepRegistry
  <1>2. CASE SearchPlugins BY <1>2, SearchKeepsRegistry
  <1>3. CASE AddBackend BY <1>3, AddKeepsRegistry
  <1>4. CASE \E p \in Plugins : RegisterService(p) BY <1>4, ServiceKeepsRegistry
  <1>5. CASE UnloadAllBackends BY <1>5, UnloadKeepsRegistry
  <1>6. CASE UNCHANGED managerVars
    <2>1. UNCHANGED <<registry, libraryPaths, stack, fault>> BY <1>6 DEF managerVars
    <2>2. libraryPaths' \in Seq(Dirs) BY <2>1 DEF RegistryInv, RegistryTypes
    <2> QED BY <2>1, <2>2, RegistryStays
  <1> QED BY <1>1, <1>2, <1>3, <1>4, <1>5, <1>6
          DEF ManagerNext, ManagerInternal, ManagerCalls, ManagerDeletes, Threads, OtherStep

\* Nothing is being registered when no registration is on top.
LEMMA NothingPending ==
    ASSUME RegistryInv, ~Top("register") PROVE ~Registers(stack)
  <1>1. CASE fault # "none" BY <1>1 DEF RegistryInv, Registrations
  <1>2. CASE stack = <<>> \/ Head(stack).op # "register" BY <1>2, NothingRegistered
  <1> QED BY <1>1, <1>2 DEF Top

\* addBackend() keeps one build of a plugin, and this build as soon as it was seen.
LEMMA RegistryImplies ==
    RegistryInv => OneConfiguration
  <1> SUFFICES ASSUME RegistryInv PROVE OneConfiguration OBVIOUS
  <1>1. OneBuild BY DEF RegistryInv
  <1>2. ASSUME ~Top("register"), NEW d \in m_loadedPaths, NEW k \in DOMAIN Content[d],
               NEW p \in Registered \ Resident, SamePlugin(Content[d][k], p), Wanted(Content[d][k])
        PROVE  Wanted(p)
    <2>1. ~Registers(stack) BY <1>2, NothingPending
    <2>2. ~Pending(Content[d][k]) BY <2>1 DEF Pending, Registers
    <2>3. PICK q \in Registered \ Resident : SamePlugin(Content[d][k], q) /\ Wanted(q)
      BY <1>2, <2>2 DEF RegistryInv, Represented
    <2>4. SamePlugin(p, q) BY <1>2, <2>3 DEF SamePlugin
    <2>5. p = q BY <1>1, <2>4 DEF OneBuild, Registered
    <2> QED BY <2>3, <2>5
  <1> QED BY <1>1, <1>2 DEF OneConfiguration, OneBuild, Wanted

\* Whatever is searched, registered and unloaded, the list has one build of a
\* plugin, this one as soon as a search has seen it (addBackend(),
\* qifservicemanager.cpp:362-418).
THEOREM OneConfigurationHolds == ManagerSpec => []OneConfiguration
  <1>1. ManagerSpec => []RegistryInv
    BY RegistryInitially, RegistryKept, PTL DEF ManagerSpec
  <1> QED BY <1>1, RegistryImplies, PTL

-----------------------------------------------------------------------------
(* What is loaded *)

Available == Loadable \cup Resident
NoReload == "reload" \notin UserCalls

BackendType == [interface : BOOLEAN, proxy : Nat, made : Nat, tries : Nat,
                loading : BOOLEAN, thread : BOOLEAN]
LoadTypes ==
    /\ backend \in [Plugins -> BackendType]
    /\ running \subseteq Plugins \X Nat
    /\ posted \in Seq(Events)

\* The completion of a load is on its way.
UnderWay(h) == h \in running \/ \E i \in 1..Len(posted) : posted[i].h = h

\* Completions of a load that is over, or of a Backend that is deleted, do not meet others.
CompletionsApart ==
    /\ \A h \in running : h[2] <= life[h[1]] /\ h[1] \notin Resident
    /\ \A i \in 1..Len(posted) :
          /\ posted[i].h[2] <= life[posted[i].h[1]]
          /\ posted[i].interface <=> posted[i].h[1] \in Available
          /\ posted[i].h \notin running
    /\ \A i, j \in 1..Len(posted) : i # j => posted[i].h # posted[j].h

\* What is known of a registered Backend.
Sound(p, b) ==
    /\ b.loading => b.proxy = 0 /\ (b.thread \/ p \in Resident)
    /\ b.interface => p \in Available /\ (b.proxy # 0 \/ p \in Resident)
    /\ b.proxy # 0 => p \in Available
    /\ p \in Resident => b.interface

LoadInv ==
    /\ LoadTypes
    /\ CompletionsApart
    /\ \A p \in Registered : /\ backend[p].loading <=> UnderWay(HandleOf(p))
                             /\ Sound(p, backend[p])

\* The service objects are the current ones of the registered backends.
ProxyInv ==
    /\ \A x \in proxies : x[1] \in Registered /\ x = ProxyOf(x[1]) /\ backend[x[1]].proxy # 0
    /\ \A p \in Registered : backend[p].proxy # 0 => ProxyOf(p) \in proxies

\* What is announced next is honest: the load is over, and its result is there.
HonestWith(names, lives, backends, h) ==
    h[1] \in names /\ h[2] = lives[h[1]] =>
        /\ ~backends[h[1]].loading
        /\ backends[h[1]].proxy # 0 <=> h[1] \in Available
Honest(h) == HonestWith(Registered, life, backend, h)

\* `new Backend`
LEMMA NewBackendIsSound ==
    ASSUME NEW p \in Plugins
    PROVE  /\ NewBackend(p) \in BackendType /\ Sound(p, NewBackend(p))
           /\ NewBackend(p).proxy = 0 /\ ~NewBackend(p).loading
  <1> DEFINE b == NewBackend(p)
             r == p \in Resident
  <1>1. r \in BOOLEAN OBVIOUS
  <1>2. b = [interface |-> r, proxy |-> 0, made |-> 0, tries |-> 0, loading |-> FALSE, thread |-> FALSE]
    BY DEF NewBackend
  <1> HIDE DEF b, r
  <1>3. b \in BackendType /\ b.interface = r /\ b.proxy = 0 /\ b.loading = FALSE
    BY <1>1, <1>2 DEF BackendType
  <1>4. Sound(p, b) BY <1>1, <1>3 DEF Sound, Available, r
  <1> QED BY <1>3, <1>4 DEF b

\* The list has backends in it.
LEMMA RegisteredAreBackends ==
    ASSUME RegistryInv
    PROVE  Registered \subseteq Plugins /\ life \in [Plugins -> Nat]
  BY DEF RegistryInv, RegistryTypes, Registered

\* The event queue has completions in it.
LEMMA PostedAreEvents ==
    ASSUME LoadInv
    PROVE  \A i \in 1..Len(posted) : posted[i] \in Events /\ posted[i].h \in Plugins \X Nat
  <1>1. posted \in Seq(Events) BY DEF LoadInv, LoadTypes
  <1>2. \A i \in 1..Len(posted) : posted[i] \in Events BY <1>1
  <1>3. \A x \in Events : x.h \in Plugins \X Nat BY DEF Events
  <1> QED BY <1>2, <1>3

\* What a step leaves that touches none of it.
LEMMA LoadsStay ==
    ASSUME UNCHANGED <<m_backends, life, backend, proxies, running, posted>>
    PROVE  /\ Registered' = Registered
           /\ LoadInv => LoadInv'
           /\ ProxyInv => ProxyInv'
  <1>1. Registered' = Registered BY DEF Registered
  <1>2. \A h : UnderWay(h)' <=> UnderWay(h) BY DEF UnderWay
  <1>3. \A p : HandleOf(p)' = HandleOf(p) /\ ProxyOf(p)' = ProxyOf(p) BY DEF HandleOf, ProxyOf
  <1>4. ASSUME LoadInv PROVE LoadInv'
    <2>1. LoadTypes' BY <1>4 DEF LoadInv, LoadTypes
    <2>2. CompletionsApart' BY <1>4 DEF LoadInv, CompletionsApart
    <2>3. \A p \in Registered' : (backend[p].loading)' <=> UnderWay(HandleOf(p))'
      BY <1>1, <1>2, <1>3, <1>4 DEF LoadInv, UnderWay, HandleOf
    <2>4. \A p \in Registered' : Sound(p, backend[p])'
      BY <1>1, <1>4 DEF LoadInv, Sound
    <2> QED BY <2>1, <2>2, <2>3, <2>4 DEF LoadInv
  <1>5. ASSUME ProxyInv PROVE ProxyInv' BY <1>1, <1>3, <1>5 DEF ProxyInv
  <1> QED BY <1>1, <1>4, <1>5

\* One Backend changes, and no completion.
LEMMA OneBackendChanges ==
    ASSUME RegistryInv, LoadInv, NEW p \in Registered, NEW b \in BackendType,
           b.loading = backend[p].loading, Sound(p, b), backend' = [backend EXCEPT ![p] = b],
           UNCHANGED <<registry, running, posted>>
    PROVE  LoadInv' /\ Registered' = Registered
  <1>1. Registered' = Registered /\ Registered \subseteq Plugins
    BY RegisteredAreBackends DEF Registered, registry
  <1>2. \A h : UnderWay(h)' <=> UnderWay(h) BY DEF UnderWay
  <1>3. \A q : HandleOf(q)' = HandleOf(q) BY DEF HandleOf, registry
  <1>4. /\ backend' \in [Plugins -> BackendType] /\ backend'[p] = b
        /\ \A q \in Plugins : q # p => backend'[q] = backend[q]
    BY <1>1 DEF LoadInv, LoadTypes
  <1>5. LoadTypes' BY <1>4 DEF LoadInv, LoadTypes
  <1>6. CompletionsApart' BY DEF LoadInv, CompletionsApart, registry
  <1>7. ASSUME NEW q \in Registered PROVE (backend'[q].loading <=> UnderWay(HandleOf(q))') /\ Sound(q, backend'[q])
    <2>1. UnderWay(HandleOf(q))' <=> UnderWay(HandleOf(q)) BY <1>2, <1>3 DEF UnderWay, HandleOf
    <2>2. CASE q = p BY <1>4, <2>1, <2>2 DEF LoadInv
    <2>3. CASE q # p BY <1>1, <1>4, <2>1, <2>3 DEF LoadInv
    <2> QED BY <2>2, <2>3
  <1>8. LoadInv' BY <1>1, <1>5, <1>6, <1>7 DEF LoadInv, Sound
  <1> QED BY <1>1, <1>8

\* A service object is made where there was none.
LEMMA OneServiceObjectMade ==
    ASSUME RegistryInv, LoadTypes, ProxyInv, NEW p \in Registered, NEW b \in BackendType,
           b.proxy = backend[p].proxy \/ backend[p].proxy = 0, backend' = [backend EXCEPT ![p] = b],
           AddProxies({p}), UNCHANGED registry
    PROVE  ProxyInv'
  <1>1. Registered' = Registered /\ Registered \subseteq Plugins
    BY RegisteredAreBackends DEF Registered, registry
  <1>2. /\ backend'[p] = b
        /\ \A q \in Plugins : q # p => backend'[q] = backend[q]
    BY <1>1 DEF LoadTypes
  <1> DEFINE x == <<p, life[p], b.proxy>>
             new == IF b.proxy # 0 THEN {x} ELSE {}
  <1>3. proxies' = proxies \cup new BY <1>2 DEF AddProxies
  <1>6. \A q : ProxyOf(q)' = <<q, life[q], backend'[q].proxy>> BY DEF ProxyOf, registry
  <1>7. ASSUME NEW y \in proxies' PROVE y[1] \in Registered /\ y = ProxyOf(y[1])' /\ backend'[y[1]].proxy # 0
    <2>1. CASE y \in new BY <1>2, <1>6, <2>1
    <2>2. CASE y \in proxies
      <3>1. y[1] \in Registered /\ y = ProxyOf(y[1]) /\ backend[y[1]].proxy # 0
        BY <2>2 DEF ProxyInv
      <3>2. y = <<y[1], life[y[1]], backend[y[1]].proxy>> BY <3>1 DEF ProxyOf
      <3>3. backend'[y[1]].proxy = backend[y[1]].proxy BY <1>1, <1>2, <3>1
      <3> QED BY <1>6, <3>1, <3>2, <3>3
    <2> QED BY <1>3, <2>1, <2>2
  <1>8. ASSUME NEW q \in Registered, backend'[q].proxy # 0 PROVE ProxyOf(q)' \in proxies'
    <2>1. CASE q = p BY <1>2, <1>3, <1>6, <1>8, <2>1
    <2>2. CASE q # p
      <3>1. backend'[q] = backend[q] BY <1>1, <1>2, <2>2
      <3>2. ProxyOf(q) \in proxies BY <1>8, <3>1 DEF ProxyInv
      <3>3. ProxyOf(q) = <<q, life[q], backend[q].proxy>> BY DEF ProxyOf
      <3>4. ProxyOf(q)' = ProxyOf(q) BY <1>6, <3>1, <3>3
      <3> HIDE DEF new
      <3> QED BY <1>3, <3>2, <3>4
    <2> QED BY <2>1, <2>2
  <1> QED BY <1>1, <1>7, <1>8 DEF ProxyInv

\* createServiceObject() makes a service object once, and only where no load is under way.
LEMMA CreateKeepsLoads ==
    ASSUME RegistryInv, LoadInv, CreateServiceObject
    PROVE  LoadInv' /\ (ProxyInv => ProxyInv')
  <1>0. PICK p : p = Head(stack).h[1] OBVIOUS
  <1>1. /\ p \in Registered /\ ~backend[p].loading
        /\ backend' = [backend EXCEPT ![p] = ProxyMadeOnce(backend[p], backend[p].interface \/ p \in Loadable)]
        /\ AddProxies({p}) /\ UNCHANGED <<registry, running, posted>>
    BY <1>0 DEF CreateServiceObject, IsValid
  <1> DEFINE a == backend[p]
             b == ProxyMadeOnce(a, a.interface \/ p \in Loadable)
  <1>2. a \in BackendType /\ Sound(p, a) BY <1>1, RegisteredAreBackends DEF LoadInv, LoadTypes
  <1> HIDE DEF a
  <1>3. /\ b \in BackendType /\ b.loading = a.loading
        /\ b.proxy = a.proxy \/ a.proxy = 0
    <2>1. CASE b = a BY <1>2, <2>1
    <2>2. CASE b = WithProxy([a EXCEPT !.interface = TRUE]) /\ a.proxy = 0
      <3> HIDE DEF b
      <3>1. a.made + 1 \in Nat BY <1>2 DEF BackendType
      <3>2. b = [a EXCEPT !.interface = TRUE, !.proxy = a.made + 1, !.made = a.made + 1]
        BY <1>2, <2>2 DEF WithProxy, BackendType
      <3> QED BY <1>2, <2>2, <3>1, <3>2 DEF BackendType
    <2> QED BY <2>1, <2>2 DEF ProxyMadeOnce
  <1>4. ~a.loading => Sound(p, b)
    BY <1>2 DEF ProxyMadeOnce, WithProxy, BackendType, Sound, Available
  <1> HIDE DEF b
  <1>5. backend' = [backend EXCEPT ![p] = b] /\ ~a.loading BY <1>1 DEF a, b
  <1>6. LoadInv' BY <1>1, <1>3, <1>4, <1>5, OneBackendChanges DEF a
  <1>7. ASSUME ProxyInv PROVE ProxyInv'
    BY <1>1, <1>3, <1>5, <1>7, OneServiceObjectMade DEF a, LoadInv
  <1> QED BY <1>6, <1>7

\* Backends change, and not in their service objects.
LEMMA ServiceObjectsStay ==
    ASSUME UNCHANGED <<registry, proxies>>,
           \A q \in Registered : backend'[q].proxy = backend[q].proxy
    PROVE  ProxyInv => ProxyInv'
  <1>1. Registered' = Registered BY DEF Registered, registry
  <1>2. \A q \in Registered : ProxyOf(q)' = ProxyOf(q) BY DEF ProxyOf, registry
  <1>3. ASSUME ProxyInv PROVE ProxyInv'
    <2>1. ASSUME NEW x \in proxies PROVE x[1] \in Registered' /\ x = ProxyOf(x[1])' /\ backend'[x[1]].proxy # 0
      <3>1. x[1] \in Registered /\ x = ProxyOf(x[1]) /\ backend[x[1]].proxy # 0 BY <1>3 DEF ProxyInv
      <3> QED BY <1>1, <1>2, <3>1
    <2>2. \A p \in Registered : backend[p].proxy # 0 => ProxyOf(p) \in proxies BY <1>3 DEF ProxyInv
    <2> QED BY <1>1, <1>2, <2>1, <2>2 DEF ProxyInv
  <1> QED BY <1>3

\* An event that is posted.
LEMMA PostedElements ==
    ASSUME NEW x \in Events, NEW q \in Seq(Events), NEW r, r = Append(q, x) \/ r = q \o <<x>>
    PROVE  /\ r \in Seq(Events) /\ Len(q) \in Nat /\ Len(r) = Len(q) + 1 /\ r[Len(r)] = x
           /\ \A i \in 1..Len(q) : i \in 1..Len(r) /\ r[i] = q[i]
           /\ \A i \in 1..Len(r) : i = Len(r) \/ i \in 1..Len(q)
  <1>1. CASE r = Append(q, x) BY <1>1
  <1>2. CASE r = q \o <<x>> BY <1>2
  <1> QED BY <1>1, <1>2

\* deleteLater() of the thread
LEMMA ThreadDeletedKeepsLoads ==
    ASSUME RegistryInv, LoadInv, NEW p \in Plugins, ThreadDeleted(p)
    PROVE  LoadInv' /\ (ProxyInv => ProxyInv')
  <1> DEFINE b == [backend[p] EXCEPT !.thread = FALSE]
  <1>1. /\ ~backend[p].loading /\ backend' = [backend EXCEPT ![p].thread = FALSE]
        /\ UNCHANGED <<registry, proxies, running, posted>>
    BY DEF ThreadDeleted, ThreadHasReported
  <1>2. backend[p] \in BackendType BY DEF LoadInv, LoadTypes
  <1>3. /\ b \in BackendType /\ b.loading = backend[p].loading /\ b.proxy = backend[p].proxy
        /\ Sound(p, backend[p]) => Sound(p, b)
    BY <1>1, <1>2 DEF BackendType, Sound
  <1>4. backend' = [backend EXCEPT ![p] = b] BY <1>1
  <1>5. /\ backend' \in [Plugins -> BackendType] /\ backend'[p] = b
        /\ \A q \in Plugins : q # p => backend'[q] = backend[q]
    BY <1>3, <1>4 DEF LoadInv, LoadTypes
  <1> HIDE DEF b
  <1>6. \A q \in Plugins : backend'[q].proxy = backend[q].proxy BY <1>3, <1>5
  <1>7. LoadInv'
    <2>1. CASE p \in Registered BY <1>1, <1>3, <1>4, <2>1, OneBackendChanges DEF LoadInv
    <2>2. CASE p \notin Registered
      <3>1. Registered' = Registered BY <1>1 DEF Registered, registry
      <3>2. \A q \in Registered : backend'[q] = backend[q] BY <1>5, <2>2, RegisteredAreBackends
      <3>3. \A h : UnderWay(h)' <=> UnderWay(h) BY <1>1 DEF UnderWay
      <3>4. \A q : UnderWay(HandleOf(q))' <=> UnderWay(HandleOf(q))
        BY <1>1, <3>3 DEF HandleOf, registry, UnderWay
      <3>5. LoadTypes' BY <1>1, <1>5 DEF LoadInv, LoadTypes
      <3>6. CompletionsApart' BY <1>1 DEF LoadInv, CompletionsApart, registry
      <3> QED BY <3>1, <3>2, <3>4, <3>5, <3>6 DEF LoadInv, Sound
    <2> QED BY <2>1, <2>2
  <1> QED BY <1>1, <1>6, <1>7, RegisteredAreBackends, ServiceObjectsStay

\* The thread is done, and its event on its way.
LEMMA ThreadLoadsKeepsLoads ==
    ASSUME RegistryInv, LoadInv, NEW h, ThreadLoads(h)
    PROVE  LoadInv' /\ (ProxyInv => ProxyInv')
  <1> DEFINE x == [h |-> h, interface |-> h[1] \in Loadable]
  <1>1. /\ h \in running /\ running' = running \ {h} /\ posted' = posted \o <<x>>
        /\ UNCHANGED <<registry, backend, proxies>>
    BY DEF ThreadLoads, Posts
  <1>2. h \in Plugins \X Nat /\ h[2] <= life[h[1]] /\ h[1] \notin Resident
    BY <1>1 DEF LoadInv, LoadTypes, CompletionsApart
  <1>3. x \in Events /\ x.h = h /\ (x.interface <=> h[1] \in Available)
    <2> DEFINE l == h[1] \in Loadable
    <2>1. l \in BOOLEAN OBVIOUS
    <2>2. x = [h |-> h, interface |-> l] OBVIOUS
    <2> HIDE DEF l, x
    <2>3. x \in Events /\ x.h = h /\ x.interface = l BY <1>2, <2>1, <2>2 DEF Events
    <2>4. l <=> h[1] \in Available BY <1>2 DEF Available, l
    <2> QED BY <2>3, <2>4
  <1> HIDE DEF x
  <1>4. posted \in Seq(Events) BY DEF LoadInv, LoadTypes
  <1>5. /\ posted' \in Seq(Events) /\ Len(posted) \in Nat /\ Len(posted') = Len(posted) + 1 /\ posted'[Len(posted')] = x
        /\ \A i \in 1..Len(posted) : i \in 1..Len(posted') /\ posted'[i] = posted[i]
        /\ \A i \in 1..Len(posted') : i = Len(posted') \/ i \in 1..Len(posted)
    BY <1>1, <1>3, <1>4, PostedElements
  <1>6. \A i \in 1..Len(posted) : posted[i].h \notin running BY DEF LoadInv, CompletionsApart
  <1>7. Registered' = Registered BY <1>1 DEF Registered, registry
  <1>8. ASSUME NEW k PROVE UnderWay(k)' <=> UnderWay(k)
    <2>1. k = h => UnderWay(k)' /\ UnderWay(k) BY <1>1, <1>3, <1>5 DEF UnderWay
    <2>2. k # h => (UnderWay(k)' <=> UnderWay(k)) BY <1>1, <1>3, <1>5 DEF UnderWay
    <2> QED BY <2>1, <2>2
  <1>9. LoadTypes' BY <1>1, <1>5 DEF LoadInv, LoadTypes
  <1>10. CompletionsApart'
    <2>1. life' = life BY <1>1 DEF registry
    <2>2. \A k \in running' : k[2] <= life[k[1]] /\ k[1] \notin Resident
      BY <1>1 DEF LoadInv, CompletionsApart
    <2>3. ASSUME NEW i \in 1..Len(posted')
          PROVE  /\ posted'[i].h[2] <= life[posted'[i].h[1]]
                 /\ posted'[i].interface <=> posted'[i].h[1] \in Available
                 /\ posted'[i].h \notin running'
      <3>1. CASE i = Len(posted') BY <1>1, <1>2, <1>3, <1>5, <3>1
      <3>2. CASE i \in 1..Len(posted) BY <1>1, <1>5, <3>2 DEF LoadInv, CompletionsApart
      <3> QED BY <1>5, <3>1, <3>2
    <2>4. ASSUME NEW i \in 1..Len(posted'), NEW j \in 1..Len(posted'), i # j
          PROVE  posted'[i].h # posted'[j].h
      <3>1. CASE i = Len(posted') BY <1>1, <1>3, <1>5, <1>6, <2>4, <3>1
      <3>2. CASE j = Len(posted') BY <1>1, <1>3, <1>5, <1>6, <2>4, <3>2
      <3>3. CASE i \in 1..Len(posted) /\ j \in 1..Len(posted)
        BY <1>5, <2>4, <3>3 DEF LoadInv, CompletionsApart
      <3> QED BY <1>5, <3>1, <3>2, <3>3
    <2> QED BY <2>1, <2>2, <2>3, <2>4 DEF CompletionsApart
  <1>11. ASSUME NEW q \in Registered PROVE (backend'[q].loading <=> UnderWay(HandleOf(q))') /\ Sound(q, backend'[q])
    BY <1>1, <1>8 DEF LoadInv, HandleOf, registry, UnderWay
  <1>12. LoadInv' BY <1>7, <1>9, <1>10, <1>11 DEF LoadInv, Sound
  <1> QED BY <1>1, <1>12, ServiceObjectsStay

\* loadServiceBackendInterfaceAsync() of a Backend without a service object
LEMMA BeginKeepsLoads ==
    ASSUME RegistryInv, LoadInv, NEW p \in Registered, backend[p].proxy = 0, BeginAsyncLoad(p),
           UNCHANGED <<registry, proxies>>
    PROVE  LoadInv' /\ (ProxyInv => ProxyInv')
  <1> DEFINE a == backend[p]
             h == HandleOf(p)
             x == [h |-> h, interface |-> TRUE]
  <1>1. /\ p \in Plugins /\ a \in BackendType /\ life \in [Plugins -> Nat]
        /\ Sound(p, a) /\ (a.loading <=> UnderWay(h)) /\ a.proxy = 0
    BY RegisteredAreBackends DEF LoadInv, LoadTypes
  <1>2. h \in Plugins \X Nat /\ h[1] = p /\ h[2] = life[p] BY <1>1 DEF HandleOf
  <1>3. CASE a.loading
    BY <1>3, LoadsStay DEF BeginAsyncLoad, LoadUnderWay, registry
  <1>4. ASSUME NEW b \in BackendType, backend' = [backend EXCEPT ![p] = b], b.loading, b.proxy = 0,
               Sound(p, b), ~a.loading,
               \/ posted' = Append(posted, x) /\ running' = running /\ p \in Available
               \/ posted' = posted /\ running' = running \cup {h} /\ p \notin Resident
        PROVE  LoadInv' /\ (ProxyInv => ProxyInv')
    <2>1. /\ backend' \in [Plugins -> BackendType] /\ backend'[p] = b
          /\ \A q \in Plugins : q # p => backend'[q] = backend[q]
      BY <1>1, <1>4 DEF LoadInv, LoadTypes
    <2>2. ~UnderWay(h) BY <1>1, <1>4
    <2>3. x \in Events /\ x.h = h /\ x.interface BY <1>2 DEF Events
    <2>4. posted \in Seq(Events) /\ running \subseteq Plugins \X Nat BY DEF LoadInv, LoadTypes
    <2> HIDE DEF a, h, x
    <2>5. posted' = Append(posted, x) =>
            /\ posted' \in Seq(Events) /\ Len(posted) \in Nat /\ Len(posted') = Len(posted) + 1 /\ posted'[Len(posted')] = x
            /\ \A i \in 1..Len(posted) : i \in 1..Len(posted') /\ posted'[i] = posted[i]
            /\ \A i \in 1..Len(posted') : i = Len(posted') \/ i \in 1..Len(posted)
      BY <2>3, <2>4, PostedElements
    <2>6. Len(posted) \in Nat BY <2>4
    <2>7. \A k : UnderWay(k)' <=> UnderWay(k) \/ k = h
      <3>1. CASE posted' = Append(posted, x) /\ running' = running
        BY <2>3, <2>5, <3>1 DEF UnderWay
      <3>2. CASE posted' = posted /\ running' = running \cup {h} BY <3>2 DEF UnderWay
      <3> QED BY <1>4, <3>1, <3>2
    <2>8. Registered' = Registered /\ life' = life BY DEF Registered, registry
    <2>9. LoadTypes' BY <1>2, <1>4, <2>1, <2>4, <2>5 DEF LoadTypes
    <2>10. CompletionsApart'
      <3>1. CASE posted' = Append(posted, x) /\ running' = running /\ p \in Available
        <4>1. \A k \in running' : k[2] <= life[k[1]] /\ k[1] \notin Resident
          BY <3>1 DEF LoadInv, CompletionsApart
        <4>2. \A i \in 1..Len(posted) : posted[i].h # h BY <2>2 DEF UnderWay
        <4>3. h \notin running BY <2>2 DEF UnderWay
        <4>4. ASSUME NEW i \in 1..Len(posted')
              PROVE  /\ posted'[i].h[2] <= life[posted'[i].h[1]]
                     /\ posted'[i].interface <=> posted'[i].h[1] \in Available
                     /\ posted'[i].h \notin running'
          <5>1. CASE i = Len(posted') BY <1>1, <1>2, <2>3, <2>5, <3>1, <4>3, <5>1
          <5>2. CASE i \in 1..Len(posted) BY <2>5, <3>1, <5>2 DEF LoadInv, CompletionsApart
          <5> QED BY <2>5, <3>1, <5>1, <5>2
        <4>5. ASSUME NEW i \in 1..Len(posted'), NEW j \in 1..Len(posted'), i # j
              PROVE  posted'[i].h # posted'[j].h
          <5>1. CASE i = Len(posted') BY <2>3, <2>5, <3>1, <4>2, <4>5, <5>1
          <5>2. CASE j = Len(posted') BY <2>3, <2>5, <3>1, <4>2, <4>5, <5>2
          <5>3. CASE i \in 1..Len(posted) /\ j \in 1..Len(posted)
            BY <2>5, <3>1, <4>5, <5>3 DEF LoadInv, CompletionsApart
          <5> QED BY <2>5, <3>1, <5>1, <5>2, <5>3
        <4> QED BY <2>8, <4>1, <4>4, <4>5 DEF CompletionsApart
      <3>2. CASE posted' = posted /\ running' = running \cup {h} /\ p \notin Resident
        <4>1. \A k \in running' : k[2] <= life[k[1]] /\ k[1] \notin Resident
          BY <1>1, <1>2, <3>2 DEF LoadInv, CompletionsApart
        <4>2. \A i \in 1..Len(posted) : posted[i].h # h BY <2>2 DEF UnderWay
        <4> QED BY <2>8, <3>2, <4>1, <4>2 DEF LoadInv, CompletionsApart
      <3> QED BY <1>4, <3>1, <3>2
    <2>11. ASSUME NEW q \in Registered PROVE (backend'[q].loading <=> UnderWay(HandleOf(q))') /\ Sound(q, backend'[q])
      <3>1. HandleOf(q)' = HandleOf(q) BY <2>8 DEF HandleOf
      <3>2. UnderWay(HandleOf(q))' <=> UnderWay(HandleOf(q)) \/ HandleOf(q) = h
        BY <2>7, <3>1 DEF UnderWay
      <3>3. CASE q = p BY <1>4, <2>1, <3>2, <3>3 DEF h
      <3>4. CASE q # p
        <4>1. HandleOf(q) # h BY <3>4 DEF h, HandleOf
        <4> QED BY <2>1, <3>2, <3>4, <4>1, RegisteredAreBackends DEF LoadInv
      <3> QED BY <3>3, <3>4
    <2>12. LoadInv' BY <2>8, <2>9, <2>10, <2>11 DEF LoadInv, Sound
    <2>13. \A q \in Registered : backend'[q].proxy = backend[q].proxy
      BY <1>4, <2>1, RegisteredAreBackends
    <2> QED BY <2>12, <2>13, ServiceObjectsStay
  <1>5. CASE ~a.loading /\ a.interface
    <2> DEFINE b == [a EXCEPT !.loading = TRUE, !.tries = @ + 1]
    <2>1. b \in BackendType /\ b.loading = TRUE /\ b.proxy = 0 /\ b.interface = a.interface /\ b.thread = a.thread
      <3>1. a \in BackendType /\ a.proxy = 0 BY <1>1
      <3> HIDE DEF a
      <3>2. a.tries + 1 \in Nat BY <3>1 DEF BackendType
      <3> QED BY <3>1, <3>2 DEF BackendType
    <2>2. /\ backend' = [backend EXCEPT ![p] = b] /\ posted' = Append(posted, x) /\ running' = running
      BY <1>5 DEF BeginAsyncLoad, LoadUnderWay
    <2> HIDE DEF b
    <2>3. Sound(p, b) /\ p \in Available BY <1>1, <1>5, <2>1 DEF Sound, Available
    <2> QED BY <1>4, <1>5, <2>1, <2>2, <2>3
  <1>6. CASE ~a.loading /\ ~a.interface
    <2> DEFINE b == [a EXCEPT !.loading = TRUE, !.thread = TRUE, !.tries = @ + 1]
    <2>1. b \in BackendType /\ b.loading = TRUE /\ b.proxy = 0 /\ b.interface = a.interface /\ b.thread = TRUE
      <3>1. a \in BackendType /\ a.proxy = 0 BY <1>1
      <3> HIDE DEF a
      <3>2. a.tries + 1 \in Nat BY <3>1 DEF BackendType
      <3> QED BY <3>1, <3>2 DEF BackendType
    <2>2. /\ backend' = [backend EXCEPT ![p] = b] /\ posted' = posted /\ running' = running \cup {h}
      BY <1>6 DEF BeginAsyncLoad, LoadUnderWay
    <2> HIDE DEF b
    <2>3. Sound(p, b) /\ p \notin Resident BY <1>1, <1>6, <2>1 DEF Sound
    <2> QED BY <1>4, <1>6, <2>1, <2>2, <2>3
  <1> QED BY <1>3, <1>5, <1>6

\* The event of a loader thread is handled.
LEMMA HandleKeepsLoads ==
    ASSUME RegistryInv, LoadInv, HandlePosted
    PROVE  /\ LoadInv' /\ (ProxyInv => ProxyInv')
           /\ HonestWith(Registered', life', backend', Head(posted).h)
  <1>0. PICK h, i : h = posted[1].h /\ i = posted[1].interface OBVIOUS
  <1>1. /\ posted \in Seq(Events) /\ posted # <<>> /\ posted' = Tail(posted)
        /\ UNCHANGED <<registry, running>>
    BY DEF HandlePosted, LoadInv, LoadTypes
  <1>2. Head(posted) = posted[1] /\ 1 \in 1..Len(posted) /\ posted[1] \in Events BY <1>1
  <1>3. /\ Len(posted) \in Nat \ {0} /\ Len(posted') = Len(posted) - 1 /\ posted' \in Seq(Events)
        /\ \A k \in 1..Len(posted') : k + 1 \in 1..Len(posted) /\ k + 1 # 1 /\ posted'[k] = posted[k + 1]
    BY <1>1
  <1>4. h \in Plugins \X Nat /\ i \in BOOLEAN BY <1>0, <1>2 DEF Events
  <1>5. UnderWay(h) BY <1>0, <1>2 DEF UnderWay
  <1>6. i <=> h[1] \in Available BY <1>0, <1>2 DEF LoadInv, CompletionsApart
  <1>7. ASSUME NEW k PROVE UnderWay(k)' <=> UnderWay(k) /\ k # h
    <2>1. h \notin running BY <1>0, <1>2 DEF LoadInv, CompletionsApart
    <2>2. \A j \in 1..Len(posted) : j # 1 => posted[j].h # h
      BY <1>0, <1>2 DEF LoadInv, CompletionsApart
    <2>3. ASSUME UnderWay(k)' PROVE UnderWay(k) /\ k # h
      BY <1>1, <1>3, <2>1, <2>2, <2>3 DEF UnderWay
    <2>4. ASSUME UnderWay(k), k # h PROVE UnderWay(k)'
      <3>1. CASE k \in running BY <1>1, <3>1 DEF UnderWay
      <3>2. CASE \E j \in 1..Len(posted) : posted[j].h = k
        <4>1. PICK j \in 1..Len(posted) : posted[j].h = k BY <3>2
        <4>2. j # 1 BY <1>0, <2>4, <4>1
        <4>3. j - 1 \in 1..Len(posted') /\ posted'[j - 1] = posted[j]
          <5>1. j - 1 \in 1..Len(posted') BY <1>3, <4>1, <4>2
          <5>2. posted'[j - 1] = posted[(j - 1) + 1] BY <1>3, <5>1
          <5>3. (j - 1) + 1 = j BY <4>1
          <5> QED BY <5>1, <5>2, <5>3
        <4> QED BY <4>1, <4>3 DEF UnderWay
      <3> QED BY <2>4, <3>1, <3>2 DEF UnderWay
    <2> QED BY <2>3, <2>4
  <1>8. Registered' = Registered /\ life' = life BY <1>1 DEF Registered, registry
  <1>9. CompletionsApart'
    <2>1. \A k \in running' : k[2] <= life'[k[1]] /\ k[1] \notin Resident
      BY <1>1, <1>8 DEF LoadInv, CompletionsApart
    <2>2. \A k \in 1..Len(posted') :
            /\ posted'[k].h[2] <= life'[posted'[k].h[1]]
            /\ posted'[k].interface <=> posted'[k].h[1] \in Available
            /\ posted'[k].h \notin running'
      BY <1>1, <1>3, <1>8 DEF LoadInv, CompletionsApart
    <2>3. ASSUME NEW k \in 1..Len(posted'), NEW l \in 1..Len(posted'), k # l
          PROVE  posted'[k].h # posted'[l].h
      <3>1. k + 1 \in 1..Len(posted) /\ l + 1 \in 1..Len(posted) /\ k + 1 # l + 1 BY <1>3, <2>3
      <3>2. posted'[k] = posted[k + 1] /\ posted'[l] = posted[l + 1] BY <1>3
      <3> QED BY <3>1, <3>2 DEF LoadInv, CompletionsApart
    <2> QED BY <2>1, <2>2, <2>3 DEF CompletionsApart
  <1>10. CASE ~IsValid(h)
    <2>1. UNCHANGED <<backend, proxies>> BY <1>0, <1>2, <1>10 DEF HandlePosted
    <2>2. ASSUME NEW q \in Registered PROVE UnderWay(HandleOf(q))' <=> UnderWay(HandleOf(q))
      <3>1. HandleOf(q) # h BY <1>10 DEF HandleOf, IsValid
      <3>2. HandleOf(q)' = HandleOf(q) BY <1>8 DEF HandleOf
      <3> QED BY <1>7, <3>1, <3>2 DEF UnderWay
    <2>3. LoadTypes' BY <1>1, <1>3, <2>1 DEF LoadInv, LoadTypes
    <2>4. LoadInv' BY <1>8, <1>9, <2>1, <2>2, <2>3 DEF LoadInv, Sound
    <2>5. HonestWith(Registered', life', backend', h)
      BY <1>8, <1>10 DEF HonestWith, IsValid
    <2> QED BY <1>0, <1>1, <1>2, <2>1, <2>4, <2>5, ServiceObjectsStay
  <1>11. CASE IsValid(h)
    <2>0. PICK p : p = h[1] OBVIOUS
    <2>1. p \in Registered /\ p \in Plugins /\ h = HandleOf(p)
      BY <1>4, <1>11, <2>0 DEF IsValid, HandleOf
    <2> DEFINE a == backend[p]
               c == [a EXCEPT !.loading = FALSE, !.interface = i]
               b == IF i THEN WithProxy(c) ELSE c
    <2>2. a \in BackendType /\ Sound(p, a) /\ a.loading BY <1>5, <2>1 DEF LoadInv, LoadTypes
    <2>3. a.proxy = 0 BY <2>2 DEF Sound
    <2>4. c.interface = i /\ (b.interface <=> i)
      BY <2>2 DEF WithProxy, BackendType
    <2>5. backend' = [backend EXCEPT ![p] = b] /\ AddProxies({p})
      <3>1. c.interface = i BY <2>4
      <3>2. /\ backend' = [backend EXCEPT ![p] = IF c.interface THEN WithProxy(c) ELSE c]
            /\ AddProxies({p})
        BY <1>0, <1>2, <1>11, <2>0 DEF HandlePosted
      <3> QED BY <3>1, <3>2
    <2>6. /\ b \in BackendType /\ b.loading = FALSE
          /\ IF i THEN b.proxy # 0 ELSE b.proxy = 0
      <3> HIDE DEF a
      <3>1. a.made + 1 \in Nat /\ a.made + 1 # 0 BY <2>2 DEF BackendType
      <3>2. CASE i
        <4>1. b = [a EXCEPT !.loading = FALSE, !.interface = i, !.proxy = a.made + 1, !.made = a.made + 1]
          BY <2>2, <3>2 DEF WithProxy, BackendType
        <4> HIDE DEF b
        <4> QED BY <1>4, <2>2, <3>1, <3>2, <4>1 DEF BackendType
      <3>3. CASE ~i
        <4>1. b = c BY <3>3
        <4> HIDE DEF b
        <4> QED BY <1>4, <2>2, <2>3, <3>3, <4>1 DEF BackendType
      <3> QED BY <3>2, <3>3
    <2> HIDE DEF a, b, c
    <2>7. Sound(p, b) BY <1>4, <1>6, <2>0, <2>4, <2>6 DEF Sound, Available
    <2>8. /\ backend' \in [Plugins -> BackendType] /\ backend'[p] = b
          /\ \A q \in Plugins : q # p => backend'[q] = backend[q]
      BY <2>1, <2>5, <2>6 DEF LoadInv, LoadTypes
    <2>9. ASSUME NEW q \in Registered PROVE (backend'[q].loading <=> UnderWay(HandleOf(q))') /\ Sound(q, backend'[q])
      <3>1. HandleOf(q)' = HandleOf(q) BY <1>8 DEF HandleOf
      <3>2. UnderWay(HandleOf(q))' <=> UnderWay(HandleOf(q)) /\ HandleOf(q) # h
        BY <1>7, <3>1 DEF UnderWay
      <3>3. CASE q = p BY <2>1, <2>6, <2>7, <2>8, <3>2, <3>3
      <3>4. CASE q # p
        <4>1. HandleOf(q) # h BY <2>1, <3>4 DEF HandleOf
        <4> QED BY <2>8, <3>2, <3>4, <4>1, RegisteredAreBackends DEF LoadInv
      <3> QED BY <3>3, <3>4
    <2>10. LoadTypes' BY <1>1, <1>3, <2>8 DEF LoadInv, LoadTypes
    <2>11. LoadInv' BY <1>8, <1>9, <2>9, <2>10 DEF LoadInv, Sound
    <2>12. ASSUME ProxyInv PROVE ProxyInv'
      BY <1>1, <2>1, <2>3, <2>5, <2>6, <2>12, OneServiceObjectMade DEF LoadInv, a
    <2>13. HonestWith(Registered', life', backend', h)
      <3>1. ~b.loading /\ (b.proxy # 0 <=> h[1] \in Available) BY <1>6, <2>6
      <3> QED BY <2>0, <2>8, <3>1 DEF HonestWith
    <2> QED BY <1>0, <1>2, <2>11, <2>12, <2>13
  <1> QED BY <1>10, <1>11

\* Which backend comes, and which goes.
LEMMA AddBackendEffect ==
    ASSUME RegistryInv, AddBackend
    PROVE  \/ UNCHANGED <<m_backends, m_interfaceNames, life, backend, proxies>>
           \/ \E p \in Plugins \ Registered :
                 /\ m_interfaceNames' = m_interfaceNames \cup Implements[p]
                 /\ life' = [life EXCEPT ![p] = @ + 1]
                 /\ backend' = [backend EXCEPT ![p] = NewBackend(p)]
                 /\ \/ Registered' = Registered \cup {p} /\ proxies' = proxies
                    \/ \E old \in Registered \ Resident :
                          /\ ~Wanted(old) /\ p \notin Resident /\ SamePlugin(p, old)
                          /\ Registered' = (Registered \ {old}) \cup {p}
                          /\ proxies' = proxies \ {ProxyOf(old)}
  <1>0. PICK p : p = Head(stack).h[1] OBVIOUS
  <1>1. /\ Top("register") /\ stack' = Tail(stack) /\ fault' = fault
        /\ IF IsSkipped(p)
           THEN UNCHANGED <<m_backends, m_interfaceNames, life, backend, proxies>>
           ELSE /\ m_interfaceNames' = m_interfaceNames \cup Implements[p]
                /\ life' = [life EXCEPT ![p] = @ + 1]
                /\ backend' = [backend EXCEPT ![p] = NewBackend(p)]
                /\ IF IsReplaced(p)
                   THEN /\ m_backends' = [m_backends EXCEPT ![FirstRival(p)] = p]
                        /\ proxies' = proxies \ Deleted({m_backends[FirstRival(p)]})
                   ELSE m_backends' = Append(m_backends, p) /\ proxies' = proxies
    BY <1>0 DEF AddBackend
  <1>2. p \in Plugins /\ Pending(p) BY <1>0, <1>1, TopRegistered
  <1>3. m_backends \in Seq(Plugins) BY DEF RegistryInv, RegistryTypes
  <1>4. p \in Resident => p \notin Registered BY <1>2 DEF RegistryInv, Registrations
  <1>5. CASE ~IsSkipped(p) /\ IsReplaced(p)
    <2> DEFINE r == FirstRival(p)
               old == m_backends[r]
    <2>1. m_backends' = [m_backends EXCEPT ![r] = p] /\ proxies' = proxies \ Deleted({old})
      BY <1>1, <1>5
    <2>2. Rivals(p) # {} /\ old # p /\ ~Wanted(old) BY <1>5 DEF IsReplaced, Wanted
    <2>3. r \in DOMAIN m_backends /\ p \notin Resident /\ SamePlugin(p, old)
      BY <1>2, <2>2, OneRival
    <2>4. Deleted({old}) = {ProxyOf(old)} BY DEF Deleted
    <2> HIDE DEF r
    <2>5. /\ DOMAIN m_backends' = DOMAIN m_backends /\ m_backends'[r] = p
          /\ \A i \in DOMAIN m_backends : i # r => m_backends'[i] = m_backends[i]
      BY <1>3, <2>1, <2>3
    <2>6. \A i \in DOMAIN m_backends : i # r => m_backends[i] # p /\ m_backends[i] # old
      BY <2>3 DEF RegistryInv, OneBuild, SamePlugin
    <2>7. p \notin Registered /\ old \in Registered \ Resident
      BY <2>2, <2>3, <2>6 DEF Registered, SamePlugin
    <2>8. ASSUME NEW x \in Registered' PROVE x \in (Registered \ {old}) \cup {p}
      <3>1. PICK i \in DOMAIN m_backends' : x = m_backends'[i] BY <2>8 DEF Registered
      <3>2. CASE i = r BY <2>5, <3>1, <3>2
      <3>3. CASE i # r BY <2>5, <2>6, <3>1, <3>3 DEF Registered
      <3> QED BY <3>2, <3>3
    <2>9. ASSUME NEW x \in (Registered \ {old}) \cup {p} PROVE x \in Registered'
      <3>1. CASE x = p BY <2>3, <2>5, <3>1 DEF Registered
      <3>2. CASE x \in Registered /\ x # old
        <4>1. PICK i \in DOMAIN m_backends : x = m_backends[i] BY <3>2 DEF Registered
        <4>2. i # r BY <3>2, <4>1
        <4> QED BY <2>5, <4>1, <4>2 DEF Registered
      <3> QED BY <2>9, <3>1, <3>2
    <2>10. Registered' = (Registered \ {old}) \cup {p} BY <2>8, <2>9
    <2> HIDE DEF old
    <2> QED BY <1>1, <1>2, <1>5, <2>1, <2>2, <2>3, <2>4, <2>7, <2>10
  <1>6. CASE ~IsSkipped(p) /\ ~IsReplaced(p)
    <2>1. m_backends' = Append(m_backends, p) /\ proxies' = proxies BY <1>1, <1>6
    <2>2. Rivals(p) = {} BY <1>6 DEF IsSkipped
    <2>3. \A i \in DOMAIN m_backends : p \in Resident \/ ~SamePlugin(p, m_backends[i])
      BY <2>2 DEF Rivals
    <2>4. p \notin Registered BY <1>4, <2>3 DEF Registered, SamePlugin
    <2> DEFINE n == Len(m_backends) + 1
    <2>5. /\ n \in DOMAIN m_backends' /\ m_backends'[n] = p
          /\ \A i \in DOMAIN m_backends : i \in DOMAIN m_backends' /\ m_backends'[i] = m_backends[i]
          /\ \A i \in DOMAIN m_backends' : i = n \/ i \in DOMAIN m_backends
      BY <1>2, <1>3, <2>1
    <2> HIDE DEF n
    <2>6. ASSUME NEW x \in Registered' PROVE x \in Registered \cup {p}
      <3>1. PICK i \in DOMAIN m_backends' : x = m_backends'[i] BY <2>6 DEF Registered
      <3> QED BY <2>5, <3>1 DEF Registered
    <2>7. ASSUME NEW x \in Registered \cup {p} PROVE x \in Registered'
      BY <2>5, <2>7 DEF Registered
    <2>8. Registered' = Registered \cup {p} BY <2>6, <2>7
    <2> QED BY <1>1, <1>2, <1>6, <2>1, <2>4, <2>8
  <1> QED BY <1>1, <1>5, <1>6

-----------------------------------------------------------------------------
(* What is known *)

\* The builds of a plugin offer the same interfaces.
SameInterfaces ==
    \A p, q \in Plugins \ Resident : SamePlugin(p, q) => Implements[p] = Implements[q]

NamesInv == m_interfaceNames = UNION {Implements[p] : p \in Registered}

\* addBackend() and unloadAllBackends() keep the names beside the list.
LEMMA NamesKept ==
    ASSUME SameInterfaces, RegistryInv, NamesInv, [ManagerNext]_managerVars PROVE NamesInv'
  <1>1. Registered \subseteq Plugins BY RegisteredAreBackends
  <1>2. CASE UNCHANGED <<m_backends, m_interfaceNames>>
    BY <1>2 DEF NamesInv, Registered
  <1>3. CASE AddBackend
    <2>1. CASE UNCHANGED <<m_backends, m_interfaceNames, life, backend, proxies>> BY <1>2, <2>1
    <2>2. CASE \E p \in Plugins \ Registered :
                 /\ m_interfaceNames' = m_interfaceNames \cup Implements[p]
                 /\ \/ Registered' = Registered \cup {p}
                    \/ \E old \in Registered \ Resident :
                          /\ p \notin Resident /\ SamePlugin(p, old)
                          /\ Registered' = (Registered \ {old}) \cup {p}
      <3>1. PICK p \in Plugins \ Registered :
                 /\ m_interfaceNames' = m_interfaceNames \cup Implements[p]
                 /\ \/ Registered' = Registered \cup {p}
                    \/ \E old \in Registered \ Resident :
                          /\ p \notin Resident /\ SamePlugin(p, old)
                          /\ Registered' = (Registered \ {old}) \cup {p}
        BY <2>2
      <3>2. CASE Registered' = Registered \cup {p} BY <3>1, <3>2 DEF NamesInv
      <3>3. CASE \E old \in Registered \ Resident :
                   /\ p \notin Resident /\ SamePlugin(p, old)
                   /\ Registered' = (Registered \ {old}) \cup {p}
        <4>1. PICK old \in Registered \ Resident :
                   /\ p \notin Resident /\ SamePlugin(p, old)
                   /\ Registered' = (Registered \ {old}) \cup {p}
          BY <3>3
        <4>2. Implements[old] = Implements[p] BY <1>1, <3>1, <4>1 DEF SameInterfaces
        <4> QED BY <3>1, <4>1, <4>2 DEF NamesInv
      <3> QED BY <3>1, <3>2, <3>3
    <2>3. \/ UNCHANGED <<m_backends, m_interfaceNames, life, backend, proxies>>
          \/ \E p \in Plugins \ Registered :
                 /\ m_interfaceNames' = m_interfaceNames \cup Implements[p]
                 /\ \/ Registered' = Registered \cup {p}
                    \/ \E old \in Registered \ Resident :
                          /\ p \notin Resident /\ SamePlugin(p, old)
                          /\ Registered' = (Registered \ {old}) \cup {p}
      BY <1>3, AddBackendEffect
    <2> QED BY <2>1, <2>2, <2>3
  <1>4. CASE UnloadAllBackends
    <2>1. m_backends' = <<>> /\ m_interfaceNames' = {} BY <1>4 DEF UnloadAllBackends
    <2>2. Registered' = {} BY <2>1 DEF Registered
    <2> QED BY <2>1, <2>2 DEF NamesInv
  <1>5. UNCHANGED <<m_backends, m_interfaceNames>> \/ AddBackend \/ UnloadAllBackends
    BY DEF ManagerNext, ManagerInternal, ManagerCalls, ManagerDeletes, Threads, managerVars, registry,
           SearchPlugins, CreateAll, CreateEach, WaitForLoad, ThreadJoined, SpinDone, CreateServiceObject,
           UseDeletedBackend, EmitServiceObjectLoaded, RegisterService, ReadServiceObjectRole,
           AddLibraryPath, FindServiceByInterface, UserLoad, ThreadLoads, RunningThreadDeleted,
           ThreadDeleted, HandlePosted
  <1> QED BY <1>2, <1>3, <1>4, <1>5

\* What a searched directory offers is offered by a registered backend.
LEMMA SearchedIsKnown ==
    ASSUME SameInterfaces, RegistryInv, NamesInv PROVE InterfacesAreKnown
  <1>1. ASSUME ~Top("register"), NEW d \in m_loadedPaths, NEW k \in DOMAIN Content[d]
        PROVE  Implements[Content[d][k]] \subseteq m_interfaceNames
    <2>1. d \in Dirs BY DEF RegistryInv, RegistryTypes
    <2>2. Content[d][k] \in Plugins \ Resident
      <3>1. Content[d] \in Seq(Plugins) BY <2>1, ManagerAssumption
      <3>2. Content[d][k] \in Plugins BY <3>1
      <3> QED BY <2>1, <3>2, PluginsAssumption
    <2>3. ~Registers(stack) BY <1>1, NothingPending
    <2>4. Represented(Content[d][k]) BY <2>3 DEF RegistryInv, Pending, Registers
    <2>5. PICK p \in Registered \ Resident : SamePlugin(Content[d][k], p) BY <2>4 DEF Represented
    <2>6. Implements[Content[d][k]] = Implements[p]
      BY <2>2, <2>5, RegisteredAreBackends DEF SameInterfaces
    <2> QED BY <2>5, <2>6 DEF NamesInv
  <1> QED BY <1>1 DEF NamesInv, InterfacesAreKnown

\* hasInterface() answers for the interfaces of the registered backends, and for
\* all that the searched directories offer, through replacement, unloading and
\* new searches (addBackend(), unloadAllBackends(), qifservicemanager.cpp:340-418):
\* where the builds of a plugin offer the same interfaces.
THEOREM InterfacesAreKnownHolds ==
    ASSUME SameInterfaces PROVE ManagerSpec => []InterfacesAreKnown
  <1>1. ManagerInit => RegistryInv /\ NamesInv
    <2>1. ManagerInit => NamesInv BY DEF ManagerInit, NamesInv, Registered
    <2> QED BY <2>1, RegistryInitially
  <1>2. RegistryInv /\ NamesInv /\ [ManagerNext]_managerVars => (RegistryInv /\ NamesInv)'
    BY RegistryKept, NamesKept
  <1>3. RegistryInv /\ NamesInv => InterfacesAreKnown BY SearchedIsKnown
  <1> QED BY <1>1, <1>2, <1>3, PTL DEF ManagerSpec

-----------------------------------------------------------------------------
(* What addBackend() and unloadAllBackends() leave *)

\* addBackend()
LEMMA AddKeepsLoads ==
    ASSUME RegistryInv, LoadInv, AddBackend
    PROVE  /\ LoadInv'
           /\ ProxyInv => ProxyInv'
  <1>1. UNCHANGED <<running, posted>> BY DEF AddBackend
  <1>2. CASE UNCHANGED <<m_backends, life, backend, proxies>> BY <1>1, <1>2, LoadsStay
  <1>3. CASE \E p \in Plugins \ Registered :
               /\ life' = [life EXCEPT ![p] = @ + 1]
               /\ backend' = [backend EXCEPT ![p] = NewBackend(p)]
               /\ \/ Registered' = Registered \cup {p} /\ proxies' = proxies
                  \/ \E old \in Registered \ Resident :
                        /\ ~Wanted(old) /\ Registered' = (Registered \ {old}) \cup {p}
                        /\ proxies' = proxies \ {ProxyOf(old)}
    <2>1. PICK p \in Plugins \ Registered :
               /\ life' = [life EXCEPT ![p] = @ + 1]
               /\ backend' = [backend EXCEPT ![p] = NewBackend(p)]
               /\ \/ Registered' = Registered \cup {p} /\ proxies' = proxies
                  \/ \E old \in Registered \ Resident :
                        /\ ~Wanted(old) /\ Registered' = (Registered \ {old}) \cup {p}
                        /\ proxies' = proxies \ {ProxyOf(old)}
      BY <1>3
    <2>2. Registered \subseteq Plugins /\ life \in [Plugins -> Nat] BY RegisteredAreBackends
    <2>3. /\ life' \in [Plugins -> Nat] /\ life'[p] = life[p] + 1
          /\ \A q \in Plugins : life'[q] >= life[q] /\ (q # p => life'[q] = life[q])
      BY <2>1, <2>2
    <2>4. NewBackend(p) \in BackendType /\ Sound(p, NewBackend(p)) /\ NewBackend(p).proxy = 0 /\ ~NewBackend(p).loading
      BY NewBackendIsSound
    <2>5. /\ backend' \in [Plugins -> BackendType] /\ backend'[p] = NewBackend(p)
          /\ \A q \in Plugins : q # p => backend'[q] = backend[q]
      BY <2>1, <2>4 DEF LoadInv, LoadTypes
    <2>6. \A q \in Registered' : q = p \/ (q \in Registered /\ q # p) BY <2>1
    <2>7. LoadTypes' BY <1>1, <2>5 DEF LoadInv, LoadTypes
    <2>8. CompletionsApart'
      <3>1. \A k \in running : k \in Plugins \X Nat /\ k[2] <= life[k[1]] /\ k[1] \notin Resident
        BY DEF LoadInv, LoadTypes, CompletionsApart
      <3>2. \A k \in running' : k[2] <= life'[k[1]] /\ k[1] \notin Resident
        BY <1>1, <2>2, <2>3, <3>1
      <3>3. \A i \in 1..Len(posted) : posted[i] \in Events /\ posted[i].h \in Plugins \X Nat
        BY PostedAreEvents
      <3>4. \A i \in 1..Len(posted) : posted[i].h[2] <= life[posted[i].h[1]]
        BY DEF LoadInv, CompletionsApart
      <3>5. \A i \in 1..Len(posted) : posted[i].h[2] <= life'[posted[i].h[1]]
        BY <2>2, <2>3, <3>3, <3>4
      <3> QED BY <1>1, <3>2, <3>5 DEF LoadInv, CompletionsApart
    <2>9. \A k : UnderWay(k)' <=> UnderWay(k) BY <1>1 DEF UnderWay
    <2>10. \A k : UnderWay(k) => k \in Plugins \X Nat /\ k[2] <= life[k[1]]
      <3>1. \A i \in 1..Len(posted) : posted[i] \in Events /\ posted[i].h \in Plugins \X Nat
        BY PostedAreEvents
      <3> QED BY <3>1 DEF UnderWay, LoadInv, LoadTypes, CompletionsApart
    <2>11. ASSUME NEW q \in Registered' PROVE (backend'[q].loading <=> UnderWay(HandleOf(q))') /\ Sound(q, backend'[q])
      <3>1. CASE q = p
        <4>1. HandleOf(p)' = <<p, life[p] + 1>> BY <2>3 DEF HandleOf
        <4>2. ~UnderWay(<<p, life[p] + 1>>) BY <2>2, <2>10
        <4>3. ~UnderWay(HandleOf(p))' BY <2>9, <4>1, <4>2 DEF UnderWay
        <4> QED BY <2>4, <2>5, <3>1, <4>3
      <3>2. CASE q \in Registered /\ q # p
        <4>1. HandleOf(q)' = HandleOf(q) BY <2>2, <2>3, <3>2 DEF HandleOf
        <4>2. UnderWay(HandleOf(q))' <=> UnderWay(HandleOf(q)) BY <2>9, <4>1 DEF UnderWay
        <4> QED BY <2>2, <2>5, <3>2, <4>2 DEF LoadInv
      <3> QED BY <2>6, <3>1, <3>2
    <2>12. LoadInv' BY <2>7, <2>8, <2>11 DEF LoadInv, Sound
    <2>13. \A q \in Registered : ProxyOf(q)' = ProxyOf(q) /\ backend'[q] = backend[q]
      BY <2>1, <2>2, <2>3, <2>5 DEF ProxyOf
    <2>14. ASSUME ProxyInv PROVE ProxyInv'
      <3>1. \A x \in proxies : x[1] \in Registered /\ x = ProxyOf(x[1]) /\ backend[x[1]].proxy # 0
        BY <2>14 DEF ProxyInv
      <3>2. \A q \in Registered : backend[q].proxy # 0 => ProxyOf(q) \in proxies
        BY <2>14 DEF ProxyInv
      <3>3. \A q : ProxyOf(q)[1] = q BY DEF ProxyOf
      <3>4. ASSUME NEW x \in proxies' PROVE x[1] \in Registered' /\ x = ProxyOf(x[1])' /\ backend'[x[1]].proxy # 0
        <4>1. x \in proxies BY <2>1
        <4>2. x[1] \in Registered /\ x = ProxyOf(x[1]) /\ backend[x[1]].proxy # 0 BY <3>1, <4>1
        <4>3. x[1] \in Registered' BY <2>1, <4>2
        <4> QED BY <2>13, <4>2, <4>3
      <3>5. ASSUME NEW q \in Registered', backend'[q].proxy # 0 PROVE ProxyOf(q)' \in proxies'
        <4>1. q \in Registered /\ q # p BY <2>4, <2>5, <2>6, <3>5
        <4>2. ProxyOf(q) \in proxies /\ ProxyOf(q)' = ProxyOf(q) BY <2>13, <3>2, <3>5, <4>1
        <4>3. CASE proxies' = proxies BY <4>2, <4>3
        <4>4. CASE \E old \in Registered \ Resident :
                     Registered' = (Registered \ {old}) \cup {p} /\ proxies' = proxies \ {ProxyOf(old)}
          BY <3>3, <3>5, <4>1, <4>2, <4>4
        <4> QED BY <2>1, <4>3, <4>4
      <3> QED BY <3>4, <3>5 DEF ProxyInv
    <2> QED BY <2>12, <2>14
  <1> QED BY <1>2, <1>3, AddBackendEffect

\* unloadAllBackends()
LEMMA UnloadKeepsLoads ==
    ASSUME RegistryInv, LoadInv, UnloadAllBackends
    PROVE  LoadInv' /\ (ProxyInv => ProxyInv' /\ proxies' = {})
  <1>1. /\ m_backends' = <<>> /\ UNCHANGED <<life, backend, running, posted>>
        /\ proxies' = proxies \ Deleted(Registered)
    BY DEF UnloadAllBackends
  <1>2. Registered' = {} BY <1>1 DEF Registered
  <1>3. LoadTypes' BY <1>1 DEF LoadInv, LoadTypes
  <1>4. CompletionsApart' BY <1>1 DEF LoadInv, CompletionsApart
  <1>5. LoadInv' BY <1>2, <1>3, <1>4 DEF LoadInv
  <1>6. ASSUME ProxyInv PROVE ProxyInv' /\ proxies' = {}
    <2>1. \A x \in proxies : x \in Deleted(Registered) BY <1>6 DEF ProxyInv, Deleted
    <2>2. proxies' = {} BY <1>1, <2>1
    <2> QED BY <1>2, <2>2 DEF ProxyInv
  <1> QED BY <1>5, <1>6
-----------------------------------------------------------------------------
(* What is announced *)

Waits == {"create", "wait", "spin"}
Fresh(e) == e.op = "emit" /\ e.to = Listeners
Emits(e) == e.op = "emit" => IsSequence(e.to) /\ Len(e.to) <= Len(Listeners)

\* A signal that is not under way yet waits for the load it announces.
AfterItsLoad(s, k) == s[k - 1].op \in Waits /\ s[k - 1].h = s[k].h
Settled(s) ==
    /\ IsSequence(s)
    /\ \A k \in 1..Len(s) : Emits(s[k]) /\ (Fresh(s[k]) => k # 1 /\ AfterItsLoad(s, k))
SignalInv ==
    /\ IsSequence(stack)
    /\ \A k \in 1..Len(stack) :
          /\ Emits(stack[k])
          /\ Fresh(stack[k]) => IF k = 1 THEN Honest(stack[k].h) ELSE AfterItsLoad(stack, k)

\* What a frame is made of.
LEMMA FrameFields ==
    ASSUME NEW op, NEW h, NEW to, NEW match
    PROVE  /\ Frame(op, h, to, match).op = op
           /\ Frame(op, h, to, match).h = h
           /\ Frame(op, h, to, match).to = to
  BY DEF Frame

\* One element before a sequence.
LEMMA PushedElements ==
    ASSUME NEW x, NEW q, IsSequence(q)
    PROVE  /\ IsSequence(<<x>> \o q) /\ Len(q) \in Nat /\ Len(<<x>> \o q) = 1 + Len(q)
           /\ (<<x>> \o q)[1] = x
           /\ \A k \in 1..Len(q) : (<<x>> \o q)[1 + k] = q[k]
           /\ \A k \in 1..Len(<<x>> \o q) : k <= 1 \/ (k - 1 \in 1..Len(q) /\ (<<x>> \o q)[k] = q[k - 1])
  <1>1. PICK r : r = <<x>> OBVIOUS
  <1>2. r \in Seq({x}) /\ Len(r) = 1 /\ r[1] = x BY <1>1
  <1>3. IsSequence(r) BY <1>2 DEF IsSequence
  <1>4. /\ IsSequence(r \o q) /\ Len(q) \in Nat /\ Len(r \o q) = Len(r) + Len(q)
        /\ \A k \in 1..Len(r) : (r \o q)[k] = r[k]
        /\ \A k \in 1..Len(q) : (r \o q)[Len(r) + k] = q[k]
        /\ \A k \in 1..Len(r \o q) :
              k <= Len(r) \/ (k - Len(r) \in 1..Len(q) /\ (r \o q)[k] = q[k - Len(r)])
    BY <1>3, JoinedElements
  <1>5. /\ IsSequence(r \o q) /\ Len(q) \in Nat /\ Len(r \o q) = 1 + Len(q)
        /\ (r \o q)[1] = x
        /\ \A k \in 1..Len(q) : (r \o q)[1 + k] = q[k]
        /\ \A k \in 1..Len(r \o q) : k <= 1 \/ (k - 1 \in 1..Len(q) /\ (r \o q)[k] = q[k - 1])
    BY <1>2, <1>4
  <1> QED BY <1>1, <1>5

\* Frames that are settled, pushed on frames that are.
LEMMA JoinedSettled ==
    ASSUME NEW p, Settled(p), NEW q, Settled(q)
    PROVE  Settled(p \o q)
  <1> DEFINE s == p \o q
             n == Len(p)
  <1>1. IsSequence(p) /\ IsSequence(q) BY DEF Settled
  <1>2. /\ IsSequence(s) /\ n \in Nat /\ Len(q) \in Nat /\ Len(s) = n + Len(q)
        /\ \A k \in 1..n : s[k] = p[k]
        /\ \A k \in 1..Len(q) : s[n + k] = q[k]
        /\ \A k \in 1..Len(s) : k <= n \/ (k - n \in 1..Len(q) /\ s[k] = q[k - n])
    <2>1. /\ IsSequence(p \o q) /\ Len(p) \in Nat /\ Len(q) \in Nat /\ Len(p \o q) = Len(p) + Len(q)
          /\ \A k \in 1..Len(p) : (p \o q)[k] = p[k]
          /\ \A k \in 1..Len(q) : (p \o q)[Len(p) + k] = q[k]
          /\ \A k \in 1..Len(p \o q) :
                k <= Len(p) \/ (k - Len(p) \in 1..Len(q) /\ (p \o q)[k] = q[k - Len(p)])
      BY <1>1, JoinedElements
    <2> QED BY <2>1
  <1> HIDE DEF s, n
  <1>3. ASSUME NEW k \in 1..Len(s) PROVE Emits(s[k]) /\ (Fresh(s[k]) => k # 1 /\ AfterItsLoad(s, k))
    <2>1. CASE k <= n
      <3>1. k \in 1..n /\ s[k] = p[k] BY <1>2, <2>1
      <3>2. Emits(p[k]) /\ (Fresh(p[k]) => k # 1 /\ AfterItsLoad(p, k)) BY <3>1 DEF Settled, n
      <3>3. k # 1 => s[k - 1] = p[k - 1] BY <1>2, <3>1
      <3> QED BY <3>1, <3>2, <3>3 DEF AfterItsLoad
    <2>2. CASE k - n \in 1..Len(q) /\ s[k] = q[k - n]
      <3>1. Emits(q[k - n]) /\ (Fresh(q[k - n]) => k - n # 1 /\ AfterItsLoad(q, k - n))
        BY <2>2 DEF Settled
      <3>2. k - n # 1 => k - n - 1 \in 1..Len(q) /\ n + (k - n - 1) = k - 1 BY <1>2, <2>2
      <3>3. k - n # 1 => s[k - 1] = q[k - n - 1] BY <1>2, <3>2
      <3>4. k - n # 1 => k # 1 BY <1>2, <2>2
      <3> QED BY <2>2, <3>1, <3>3, <3>4 DEF AfterItsLoad
    <2> QED BY <1>2, <2>1, <2>2
  <1> QED BY <1>2, <1>3 DEF Settled, s

\* Frames that announce nothing.
LEMMA SettledFrames ==
    /\ Settled(<<>>)
    /\ \A x : x.op # "emit" => Settled(<<x>>)
    /\ \A x, y : /\ x.op # "emit" /\ y.op # "emit" => Settled(<<x, y>>)
                 /\ ( /\ x.op # "emit" /\ y.op = "emit" /\ Emits(y)
                      /\ Fresh(y) => x.op \in Waits /\ x.h = y.h ) => Settled(<<x, y>>)
  <1>1. IsSequence(<<>>) /\ Len(<<>>) = 0 BY DEF IsSequence
  <1>2. \A x : <<x>> \in Seq({x}) /\ Len(<<x>>) = 1 /\ <<x>>[1] = x OBVIOUS
  <1>3. \A x : IsSequence(<<x>>) BY <1>2 DEF IsSequence
  <1>4. \A x, y : <<x, y>> \in Seq({x, y}) /\ Len(<<x, y>>) = 2 /\ <<x, y>>[1] = x /\ <<x, y>>[2] = y
    OBVIOUS
  <1>5. \A x, y : IsSequence(<<x, y>>) BY <1>4 DEF IsSequence
  <1>6. \A x : x.op # "emit" => Settled(<<x>>) BY <1>2, <1>3 DEF Settled, Emits, Fresh
  <1>7. ASSUME NEW x, NEW y, x.op # "emit",
               y.op # "emit" \/ (Emits(y) /\ (Fresh(y) => x.op \in Waits /\ x.h = y.h))
        PROVE  Settled(<<x, y>>)
    <2> DEFINE s == <<x, y>>
    <2>1. IsSequence(s) /\ Len(s) = 2 /\ s[1] = x /\ s[2] = y BY <1>4, <1>5
    <2> HIDE DEF s
    <2>2. ~Fresh(x) /\ Emits(x) BY <1>7 DEF Fresh, Emits
    <2>3. Emits(y) /\ (Fresh(y) => x.op \in Waits /\ x.h = y.h) BY <1>7 DEF Fresh, Emits
    <2>4. ASSUME NEW k \in 1..2 PROVE Emits(s[k]) /\ (Fresh(s[k]) => k # 1 /\ AfterItsLoad(s, k))
      <3>1. CASE k = 1 BY <2>1, <2>2, <3>1
      <3>2. CASE k = 2 BY <2>1, <2>3, <3>2 DEF AfterItsLoad
      <3> QED BY <3>1, <3>2
    <2>5. Settled(s) BY <2>1, <2>4 DEF Settled
    <2> QED BY <2>5 DEF s
  <1>8. Settled(<<>>) BY <1>1 DEF Settled
  <1> QED BY <1>6, <1>7, <1>8

\* Registrations announce nothing.
LEMMA RegistrationsSettled ==
    ASSUME NEW ps \in Seq(Plugins)
    PROVE  Settled(RegisterFrames(ps))
  <1> DEFINE r == RegisterFrames(ps)
             F(k) == Frame("register", <<ps[k], 0>>, <<>>, {})
             R == {F(k) : k \in DOMAIN ps}
  <1>1. DOMAIN ps = 1..Len(ps) /\ Len(ps) \in Nat OBVIOUS
  <1>2. r = [k \in 1..Len(ps) |-> F(k)] BY <1>1 DEF RegisterFrames
  <1>3. ASSUME NEW k \in 1..Len(ps) PROVE F(k) \in R /\ F(k).op = "register"
    <2>1. F(k) \in R BY <1>1
    <2>2. F(k).op = "register" BY FrameFields
    <2> QED BY <2>1, <2>2
  <1> HIDE DEF F, R, r
  <1>4. r \in Seq(R) /\ Len(r) = Len(ps) BY <1>1, <1>2, <1>3
  <1>5. \A k \in 1..Len(r) : r[k].op = "register" BY <1>2, <1>3, <1>4
  <1>6. Settled(r) BY <1>4, <1>5 DEF Settled, IsSequence, Emits, Fresh
  <1> QED BY <1>6 DEF r

\* The stack, when what is on top of it announces nothing.
LEMMA StackSettled ==
    ASSUME SignalInv
    PROVE  /\ stack = <<>> \/ Head(stack).op # "emit" => Settled(stack)
           /\ stack # <<>> /\ Head(stack).op \notin Waits => Settled(Tail(stack))
           /\ stack # <<>> => /\ IsSequence(Tail(stack))
                              /\ \A k \in 1..Len(Tail(stack)) :
                                    /\ Emits(Tail(stack)[k])
                                    /\ Fresh(Tail(stack)[k]) =>
                                         IF k = 1 THEN Head(stack).op \in Waits /\ Head(stack).h = Tail(stack)[k].h
                                         ELSE AfterItsLoad(Tail(stack), k)
  <1>1. IsSequence(stack) BY DEF SignalInv
  <1>2. CASE stack = <<>> BY <1>2, SettledFrames
  <1>3. CASE stack # <<>>
    <2> DEFINE q == Tail(stack)
    <2>1. /\ IsSequence(q) /\ Len(stack) \in Nat \ {0} /\ Len(q) = Len(stack) - 1
          /\ Head(stack) = stack[1]
          /\ \A k \in 1..Len(q) : q[k] = stack[k + 1]
      BY <1>1, <1>3, TailElements
    <2> HIDE DEF q
    <2>2. Head(stack).op # "emit" => Settled(stack)
      BY <1>1, <2>1 DEF Settled, SignalInv, Fresh
    <2>3. ASSUME NEW k \in 1..Len(q)
          PROVE  /\ Emits(q[k])
                 /\ Fresh(q[k]) => IF k = 1 THEN Head(stack).op \in Waits /\ Head(stack).h = q[k].h
                                   ELSE AfterItsLoad(q, k)
      <3>1. k + 1 \in 1..Len(stack) /\ k + 1 # 1 /\ q[k] = stack[k + 1] /\ (k + 1) - 1 = k BY <2>1
      <3>2. Emits(q[k]) /\ (Fresh(q[k]) => stack[k].op \in Waits /\ stack[k].h = q[k].h)
        BY <3>1 DEF SignalInv, AfterItsLoad
      <3>3. CASE k = 1 BY <2>1, <3>2, <3>3
      <3>4. CASE k # 1
        <4>1. k - 1 \in 1..Len(q) /\ (k - 1) + 1 = k BY <2>1, <3>4
        <4>2. q[k - 1] = stack[k] BY <2>1, <4>1
        <4> QED BY <3>2, <3>4, <4>2 DEF AfterItsLoad
      <3> QED BY <3>3, <3>4
    <2>4. Head(stack).op \notin Waits => Settled(q) BY <2>1, <2>3 DEF Settled
    <2> QED BY <1>3, <2>1, <2>2, <2>3, <2>4 DEF q
  <1> QED BY <1>2, <1>3

\* A signal behind the load it announces need not be honest yet.
LEMMA SettledSuffices ==
    ASSUME Settled(stack') PROVE SignalInv'
  BY DEF Settled, SignalInv, AfterItsLoad

\* A signal that comes to the top is honest.
LEMMA HonestSuffices ==
    ASSUME NEW s, IsSequence(s), stack' = s,
           \A k \in 1..Len(s) : Emits(s[k]),
           \A k \in 1..Len(s) : Fresh(s[k]) /\ k # 1 => AfterItsLoad(s, k),
           Len(s) \in Nat, Len(s) # 0 => (Fresh(s[1]) => HonestWith(Registered', life', backend', s[1].h))
    PROVE  SignalInv'
  <1>1. ASSUME NEW k \in 1..Len(s)
        PROVE  /\ Emits(s[k])
               /\ Fresh(s[k]) => IF k = 1 THEN HonestWith(Registered', life', backend', s[k].h)
                                 ELSE AfterItsLoad(s, k)
    <2>1. CASE k = 1
      <3>1. Len(s) # 0 BY <2>1
      <3> QED BY <2>1, <3>1
    <2>2. CASE k # 1 BY <2>2
    <2> QED BY <2>1, <2>2
  <1>2. \A k \in 1..Len(s) :
           /\ Emits(s[k])
           /\ Fresh(s[k]) => IF k = 1 THEN HonestWith(Registered', life', backend', s[k].h)
                             ELSE AfterItsLoad(s, k)
    BY <1>1
  <1>3. SignalInv' <=> /\ IsSequence(s)
                       /\ \A k \in 1..Len(s) :
                             /\ Emits(s[k])
                             /\ Fresh(s[k]) => IF k = 1 THEN HonestWith(Registered', life', backend', s[k].h)
                                               ELSE AfterItsLoad(s, k)
    BY DEF SignalInv, Honest, AfterItsLoad
  <1> QED BY <1>2, <1>3

\* loadServiceObject() of a handle that has no service object, or now
LEMMA LoadKeepsAll ==
    ASSUME RegistryInv, LoadInv, NEW h, NEW async, NEW frames, Settled(frames),
           LoadServiceObject(h, async, frames), UNCHANGED <<registry, proxies>>,
           async /\ IsValid(h) => backend[h[1]].proxy = 0
    PROVE  /\ LoadInv' /\ (ProxyInv => ProxyInv')
           /\ Settled(stack')
  <1>1. Settled(CreateThenEmit(h))
    <2> DEFINE x == CreateFrame(h)
               y == Emission(h)
    <2>1. x.op = "create" /\ x.h = h BY FrameFields DEF CreateFrame
    <2>2. y.op = "emit" /\ y.h = h /\ y.to = Listeners BY FrameFields DEF Emission
    <2> HIDE DEF x, y
    <2>3. Emits(y)
      <3>1. IsSequence(Listeners) /\ Len(Listeners) \in Nat BY ManagerAssumption DEF IsSequence
      <3> QED BY <2>2, <3>1 DEF Emits
    <2>4. Settled(<<x, y>>) BY <2>1, <2>2, <2>3, SettledFrames DEF Waits
    <2> QED BY <2>4 DEF CreateThenEmit, x, y
  <1>2. Settled(CreateThenEmit(h) \o frames) BY <1>1, JoinedSettled
  <1>3. CASE IsValid(h) /\ async
    <2>1. h[1] \in Registered BY <1>3 DEF IsValid
    <2>2. BeginAsyncLoad(h[1]) /\ stack' = frames BY <1>3 DEF LoadServiceObject
    <2> QED BY <1>3, <2>1, <2>2, BeginKeepsLoads
  <1>4. CASE ~IsValid(h) \/ ~async
    <2>1. UNCHANGED <<backend, running, posted>> BY <1>4 DEF LoadServiceObject
    <2>2. stack' = frames \/ stack' = CreateThenEmit(h) \o frames BY <1>4 DEF LoadServiceObject
    <2> QED BY <1>2, <2>1, <2>2, LoadsStay DEF registry
  <1> QED BY <1>3, <1>4

\* The signals of the steps of the manager.
LEMMA SignalsKept ==
    ASSUME RegistryInv, LoadInv, SignalInv, NoReload, ManagerNext
    PROVE  SignalInv'
  <1>1. ASSUME AtEventLoop PROVE Settled(stack) BY <1>1, StackSettled DEF AtEventLoop
  <1>2. ASSUME stack # <<>>, Head(stack).op # "emit" PROVE Settled(stack) BY <1>2, StackSettled
  <1>3. ASSUME stack # <<>>, Head(stack).op \notin Waits PROVE Settled(Tail(stack))
    BY <1>3, StackSettled
  <1>4. ASSUME Settled(stack), stack' = stack PROVE SignalInv' BY <1>4, SettledSuffices
  <1>5. ASSUME NEW p, Settled(p), NEW q, Settled(q), stack' = p \o q PROVE SignalInv'
    BY <1>5, JoinedSettled, SettledSuffices
  <1>6. CASE SearchPlugins
    <2>1. stack # <<>> /\ Head(stack).op = "search" BY <1>6 DEF SearchPlugins, Top
    <2>2. Settled(stack) /\ Settled(Tail(stack)) BY <1>2, <1>3, <2>1 DEF Waits
    <2>3. \A d \in Dirs : Settled(RegisterFrames(Content[d])) BY RegistrationsSettled, ManagerAssumption
    <2>4. \A i \in NewDirs : libraryPaths[i] \in Dirs BY DEF NewDirs, RegistryInv, RegistryTypes
    <2>5. Settled(RegisterFrames(StaticPlugins)) BY RegistrationsSettled, ManagerAssumption
    <2>6. \E p : Settled(p) /\ (stack' = p \o stack \/ stack' = p \o Tail(stack))
      <3>1. CASE \E i \in NewDirs : stack' = RegisterFrames(Content[libraryPaths[i]]) \o stack
        BY <2>3, <2>4, <3>1
      <3>2. CASE stack' = <<>> \o Tail(stack) BY <3>2, SettledFrames
      <3>3. CASE stack' = RegisterFrames(StaticPlugins) \o Tail(stack) BY <2>5, <3>3
      <3> QED BY <1>6, <3>1, <3>2, <3>3 DEF SearchPlugins
    <2> QED BY <1>5, <2>2, <2>6
  <1>7. CASE AddBackend
    <2>1. stack # <<>> /\ Head(stack).op = "register" /\ stack' = Tail(stack) BY <1>7 DEF AddBackend, Top
    <2>2. Settled(stack') BY <1>3, <2>1 DEF Waits
    <2> QED BY <2>2, SettledSuffices
  <1>8. CASE \E p \in Plugins : RegisterService(p)
    <2>1. PICK p \in Plugins : RegisterService(p) BY <1>8
    <2>2. AtEventLoop /\ stack' = RegisterFrames(<<p>>) \o stack BY <2>1 DEF RegisterService, MayCall
    <2>3. <<p>> \in Seq(Plugins) OBVIOUS
    <2>4. Settled(RegisterFrames(<<p>>)) BY <2>3, RegistrationsSettled
    <2> QED BY <1>1, <1>5, <2>2, <2>4
  <1>9. CASE \E d \in Dirs : AddLibraryPath(d)
    BY <1>1, <1>4, <1>9 DEF AddLibraryPath, MayCall
  <1>10. CASE \E i \in Interfaces, flags \in (SUBSET {"production", "simulation"}) \ {{}} :
                FindServiceByInterface(i, flags)
    <2>1. PICK i \in Interfaces, flags \in (SUBSET {"production", "simulation"}) \ {{}} :
             FindServiceByInterface(i, flags)
      BY <1>10
    <2> DEFINE x == SearchFrame
               y == Frame("createAll", Nowhere, <<>>, Matching(i, flags))
    <2>2. AtEventLoop /\ stack' = <<x, y>> \o stack BY <2>1 DEF FindServiceByInterface, MayCall
    <2>3. x.op = "search" /\ y.op = "createAll" BY FrameFields DEF SearchFrame
    <2> HIDE DEF x, y
    <2>4. Settled(<<x, y>>) BY <2>3, SettledFrames
    <2> QED BY <1>1, <1>5, <2>2, <2>4
  <1>11. CASE CreateAll \/ CreateEach
    <2>1. /\ stack # <<>> /\ Head(stack).op \notin Waits
          /\ \E hs : stack' = Creations(hs) \o Tail(stack)
      BY <1>11 DEF CreateAll, CreateEach, Top, Waits
    <2>2. ASSUME NEW hs PROVE Settled(Creations(hs))
      <3> DEFINE x == CreateFrame(Head(hs))
                 y == Frame("createEach", Nowhere, Tail(hs), {})
      <3>1. x.op # "emit" /\ y.op # "emit"
        <4>1. x.op = "create" BY FrameFields DEF CreateFrame
        <4>2. y.op = "createEach" BY FrameFields
        <4> QED BY <4>1, <4>2
      <3>2. \/ Creations(hs) = <<>>
            \/ Creations(hs) = <<x>> \o <<>>
            \/ Creations(hs) = <<x>> \o <<y>>
        BY DEF Creations
      <3> HIDE DEF x, y
      <3>3. Settled(<<>>) /\ Settled(<<x>>) /\ Settled(<<y>>) BY <3>1, SettledFrames
      <3> QED BY <3>2, <3>3, JoinedSettled
    <2> QED BY <1>3, <1>5, <2>1, <2>2
  <1>12. ASSUME NEW x, stack # <<>>, Head(stack).op \in Waits, x.op \in Waits, x.h = Head(stack).h,
                stack' = <<x>> \o Tail(stack)
         PROVE  SignalInv'
    <2> DEFINE q == Tail(stack)
               s == <<x>> \o q
    <2>1. /\ IsSequence(q)
          /\ \A k \in 1..Len(q) :
                /\ Emits(q[k])
                /\ Fresh(q[k]) => IF k = 1 THEN Head(stack).op \in Waits /\ Head(stack).h = q[k].h
                                  ELSE AfterItsLoad(q, k)
      BY <1>12, StackSettled
    <2> HIDE DEF q
    <2>4. /\ IsSequence(s) /\ Len(q) \in Nat /\ Len(s) = 1 + Len(q) /\ s[1] = x
          /\ \A k \in 1..Len(q) : s[1 + k] = q[k]
          /\ \A k \in 1..Len(s) : k <= 1 \/ (k - 1 \in 1..Len(q) /\ s[k] = q[k - 1])
      <3>1. IsSequence(q) BY <2>1
      <3> QED BY <3>1, PushedElements
    <2> HIDE DEF s
    <2>5. x.op # "emit" BY <1>12 DEF Waits
    <2>6. ASSUME NEW k \in 1..Len(s) PROVE Emits(s[k]) /\ (Fresh(s[k]) => k # 1 /\ AfterItsLoad(s, k))
      <3>1. CASE k = 1 BY <2>4, <2>5, <3>1 DEF Emits, Fresh
      <3>2. CASE k # 1
        <4>1. k - 1 \in 1..Len(q) /\ s[k] = q[k - 1] BY <2>4, <3>2
        <4>2. Emits(s[k]) /\ (Fresh(s[k]) => IF k - 1 = 1 THEN Head(stack).op \in Waits /\ Head(stack).h = s[k].h
                                            ELSE AfterItsLoad(q, k - 1))
          BY <2>1, <4>1
        <4>3. CASE k - 1 = 1 BY <1>12, <2>4, <3>2, <4>2, <4>3 DEF AfterItsLoad
        <4>4. CASE k - 1 # 1
          <5>1. (k - 1) - 1 \in 1..Len(q) /\ 1 + ((k - 1) - 1) = k - 1 BY <4>1, <4>4
          <5>2. s[k - 1] = q[(k - 1) - 1] BY <2>4, <5>1
          <5> QED BY <3>2, <4>1, <4>2, <4>4, <5>2 DEF AfterItsLoad
        <4> QED BY <4>3, <4>4
      <3> QED BY <3>1, <3>2
    <2>7. Settled(s) BY <2>4, <2>6 DEF Settled
    <2> QED BY <1>12, <2>7, SettledSuffices DEF s, q
  <1>13. CASE WaitForLoad \/ ThreadJoined \/ SpinDone
    <2>1. stack # <<>> /\ Head(stack).op \in Waits BY <1>13 DEF WaitForLoad, ThreadJoined, SpinDone, Top, Waits
    <2>2. \/ \E op \in Waits : stack' = <<Frame(op, Head(stack).h, <<>>, {})>> \o Tail(stack)
          \/ stack' = stack
      BY <1>13 DEF WaitForLoad, ThreadJoined, SpinDone, Waits, CreateFrame
    <2>3. CASE stack' = stack BY <1>2, <1>4, <2>1, <2>3 DEF Waits
    <2>4. CASE \E op \in Waits : stack' = <<Frame(op, Head(stack).h, <<>>, {})>> \o Tail(stack)
      <3>1. PICK op \in Waits : stack' = <<Frame(op, Head(stack).h, <<>>, {})>> \o Tail(stack) BY <2>4
      <3>2. Frame(op, Head(stack).h, <<>>, {}).op = op /\ Frame(op, Head(stack).h, <<>>, {}).h = Head(stack).h
        BY FrameFields
      <3> QED BY <1>12, <2>1, <3>1, <3>2
    <2> QED BY <2>2, <2>3, <2>4
  <1>14. CASE CreateServiceObject
    <2>0. PICK p : p = Head(stack).h[1] OBVIOUS
    <2>1. /\ stack # <<>> /\ Head(stack).op = "create" /\ stack' = Tail(stack)
          /\ p \in Registered /\ ~backend[p].loading /\ UNCHANGED registry
          /\ backend' = [backend EXCEPT ![p] = ProxyMadeOnce(backend[p], backend[p].interface \/ p \in Loadable)]
      BY <1>14, <2>0 DEF CreateServiceObject, Top, IsValid
    <2>2. LoadInv' BY <1>14, CreateKeepsLoads
    <2>3. Registered' = Registered BY <2>1 DEF Registered, registry
    <2>4. HonestWith(Registered', life', backend', Head(stack).h)
      <3>1. backend[p] \in BackendType /\ p \in Plugins /\ Sound(p, backend[p])
        BY <2>1, RegisteredAreBackends DEF LoadInv, LoadTypes
      <3>2. backend'[p] = ProxyMadeOnce(backend[p], backend[p].interface \/ p \in Loadable)
        BY <2>1, <3>1 DEF LoadInv, LoadTypes
      <3> DEFINE a == backend[p]
      <3> HIDE DEF a
      <3>3. a \in BackendType /\ Sound(p, a) /\ ~a.loading BY <2>1, <3>1 DEF a
      <3>4. backend'[p] = ProxyMadeOnce(a, a.interface \/ p \in Loadable) BY <3>2 DEF a
      <3>5. ~backend'[p].loading /\ (p \in Available => backend'[p].proxy # 0)
        <4>1. CASE a.proxy = 0 /\ (a.interface \/ p \in Loadable)
          <5>1. a.made + 1 \in Nat /\ a.made + 1 # 0 BY <3>3 DEF BackendType
          <5>2. backend'[p] = [a EXCEPT !.interface = TRUE, !.proxy = a.made + 1, !.made = a.made + 1]
            BY <3>3, <3>4, <4>1 DEF ProxyMadeOnce, WithProxy, BackendType
          <5>3. backend'[p].loading = a.loading /\ backend'[p].proxy = a.made + 1
            BY <3>3, <5>2 DEF BackendType
          <5> QED BY <3>3, <5>1, <5>3
        <4>2. CASE ~(a.proxy = 0 /\ (a.interface \/ p \in Loadable))
          <5>1. backend'[p] = a BY <3>4, <4>2 DEF ProxyMadeOnce
          <5>2. p \in Available => a.interface \/ p \in Loadable BY <3>3 DEF Sound, Available
          <5> QED BY <3>3, <4>2, <5>1, <5>2
        <4> QED BY <4>1, <4>2
      <3>6. backend'[p].proxy # 0 => p \in Available BY <2>1, <2>2, <2>3 DEF LoadInv, Sound
      <3>7. HonestWith(Registered', life', backend', Head(stack).h)
        BY <2>0, <3>5, <3>6 DEF HonestWith
      <3> QED BY <3>7
    <2>5. /\ IsSequence(Tail(stack))
          /\ \A k \in 1..Len(Tail(stack)) :
                /\ Emits(Tail(stack)[k])
                /\ Fresh(Tail(stack)[k]) => IF k = 1 THEN Head(stack).h = Tail(stack)[k].h
                                            ELSE AfterItsLoad(Tail(stack), k)
      BY <2>1, StackSettled
    <2> DEFINE q == Tail(stack)
               h == Head(stack).h
    <2>6. HonestWith(Registered', life', backend', h) /\ stack' = q BY <2>1, <2>4
    <2> HIDE DEF q, h
    <2>8. /\ IsSequence(q)
          /\ \A k \in 1..Len(q) :
                /\ Emits(q[k])
                /\ Fresh(q[k]) => IF k = 1 THEN h = q[k].h ELSE AfterItsLoad(q, k)
      BY <2>5 DEF q, h
    <2>9. \A k \in 1..Len(q) : Emits(q[k]) BY <2>8
    <2>10. \A k \in 1..Len(q) : Fresh(q[k]) /\ k # 1 => AfterItsLoad(q, k)
      <3> TAKE k \in 1..Len(q)
      <3>1. Fresh(q[k]) => IF k = 1 THEN h = q[k].h ELSE AfterItsLoad(q, k) BY <2>8
      <3> QED BY <3>1
    <2>11. Len(q) \in Nat BY <2>8 DEF IsSequence
    <2>12. ASSUME Len(q) # 0, Fresh(q[1]) PROVE HonestWith(Registered', life', backend', q[1].h)
      <3>1. 1 \in 1..Len(q) BY <2>11, <2>12
      <3>2. Fresh(q[1]) => IF 1 = 1 THEN h = q[1].h ELSE AfterItsLoad(q, 1) BY <2>8, <3>1
      <3>3. h = q[1].h BY <2>12, <3>2
      <3> QED BY <2>6, <3>3
    <2> QED BY <2>6, <2>8, <2>9, <2>10, <2>11, <2>12, HonestSuffices
  <1>15. CASE UseDeletedBackend
    BY <1>2, <1>4, <1>15 DEF UseDeletedBackend, Top
  <1>16. CASE EmitServiceObjectLoaded
    <2> DEFINE e == Head(stack)
               x == Frame("notify", e.h, <<Head(e.to)>>, {})
               y == Frame("emit", e.h, Tail(e.to), {})
    <2>1. stack # <<>> /\ e.op = "emit" BY <1>16 DEF EmitServiceObjectLoaded, Top
    <2>2. stack' = Tail(stack) \/ (e.to # <<>> /\ stack' = <<x, y>> \o Tail(stack))
      BY <1>16 DEF EmitServiceObjectLoaded
    <2>3. Settled(Tail(stack)) BY <1>3, <2>1 DEF Waits
    <2>4. Emits(e)
      <3>1. e = stack[1] /\ 1 \in 1..Len(stack) BY <2>1, TailElements DEF SignalInv
      <3>2. Emits(stack[1]) BY <3>1 DEF SignalInv
      <3> QED BY <3>1, <3>2
    <2> HIDE DEF e
    <2>5. IsSequence(e.to) /\ Len(e.to) <= Len(Listeners) /\ Len(Listeners) \in Nat
      BY <2>1, <2>4, ManagerAssumption DEF Emits
    <2>6. x.op = "notify" BY FrameFields
    <2>7. y.op = "emit" /\ y.to = Tail(e.to) BY FrameFields
    <2>8. CASE stack' = Tail(stack) BY <2>3, <2>8, SettledSuffices
    <2>9. CASE e.to # <<>> /\ stack' = <<x, y>> \o Tail(stack)
      <3>1. IsSequence(Tail(e.to)) /\ Len(e.to) \in Nat /\ Len(Tail(e.to)) = Len(e.to) - 1
        BY <2>5, <2>9, TailElements
      <3>2. Tail(e.to) # Listeners
        <4>1. ASSUME Tail(e.to) = Listeners PROVE FALSE
          <5>1. Len(Listeners) = Len(e.to) - 1 BY <3>1, <4>1
          <5> QED BY <2>5, <3>1, <5>1
        <4> QED BY <4>1
      <3> HIDE DEF x, y
      <3>3. Emits(y) /\ ~Fresh(y) BY <2>5, <2>7, <3>1, <3>2 DEF Emits, Fresh
      <3>4. Settled(<<x, y>>) BY <2>6, <2>7, <3>3, SettledFrames
      <3> QED BY <1>5, <2>3, <2>9, <3>4
    <2> QED BY <2>2, <2>8, <2>9
  <1>17. CASE \E p \in Plugins : ReadServiceObjectRole(p)
    <2>1. PICK p \in Plugins : ReadServiceObjectRole(p) BY <1>17
    <2> DEFINE x == CreateFrame(HandleOf(p))
    <2>2. AtEventLoop /\ stack' = <<x>> \o stack BY <2>1 DEF ReadServiceObjectRole, MayCall
    <2>3. x.op = "create" BY FrameFields DEF CreateFrame
    <2> HIDE DEF x
    <2>4. Settled(<<x>>) BY <2>3, SettledFrames
    <2> QED BY <1>1, <1>5, <2>2, <2>4
  <1>18. CASE \E h \in Handles, async \in BOOLEAN : UserLoad(h, async)
    <2>1. PICK h \in Handles, async \in BOOLEAN : UserLoad(h, async) BY <1>18
    <2>2. /\ AtEventLoop /\ LoadServiceObject(h, async, stack) /\ UNCHANGED <<registry, proxies>>
          /\ ~(IsLoaded(h) /\ async)
      BY <2>1 DEF UserLoad, MayCall, NoReload
    <2>3. async /\ IsValid(h) => backend[h[1]].proxy = 0 BY <2>2 DEF IsLoaded
    <2>4. Settled(stack') BY <1>1, <2>2, <2>3, LoadKeepsAll
    <2> QED BY <2>4, SettledSuffices
  <1>19. CASE UnloadAllBackends BY <1>1, <1>4, <1>19 DEF UnloadAllBackends, MayCall
  <1>20. CASE \E h \in Handles : ThreadLoads(h)
    <2>1. UNCHANGED <<registry, backend, stack>> BY <1>20 DEF ThreadLoads
    <2>2. Registered' = Registered /\ life' = life BY <2>1 DEF Registered, registry
    <2>3. SignalInv' <=> SignalInv BY <2>1, <2>2 DEF SignalInv, Honest, AfterItsLoad
    <2> QED BY <2>3
  <1>21. CASE \E h \in Handles : RunningThreadDeleted(h)
    BY <1>1, <1>4, <1>21 DEF RunningThreadDeleted
  <1>22. CASE \E p \in Plugins : ThreadDeleted(p)
    BY <1>1, <1>4, <1>22 DEF ThreadDeleted
  <1>23. CASE HandlePosted
    <2>0. PICK h : h = Head(posted).h OBVIOUS
    <2>1. AtEventLoop /\ HonestWith(Registered', life', backend', h)
      BY <1>23, <2>0, HandleKeepsLoads DEF HandlePosted
    <2>2. Settled(stack) BY <1>1, <2>1
    <2>3. stack' = <<Emission(h)>> \o stack \/ stack' = stack
      BY <1>23, <2>0 DEF HandlePosted, Signal
    <2>4. CASE stack' = stack BY <1>4, <2>2, <2>4
    <2>5. CASE stack' = <<Emission(h)>> \o stack
      <3>1. PICK x, s : x = Emission(h) /\ s = <<x>> \o stack OBVIOUS
      <3>2. /\ IsSequence(s) /\ Len(stack) \in Nat /\ Len(s) = 1 + Len(stack) /\ s[1] = x
            /\ \A k \in 1..Len(stack) : s[1 + k] = stack[k]
            /\ \A k \in 1..Len(s) : k <= 1 \/ (k - 1 \in 1..Len(stack) /\ s[k] = stack[k - 1])
        BY <2>2, <3>1, PushedElements DEF Settled
      <3>3. x.op = "emit" /\ x.to = Listeners /\ x.h = h BY <3>1, FrameFields DEF Emission
      <3>4. Emits(x)
        <4>1. IsSequence(Listeners) /\ Len(Listeners) \in Nat BY ManagerAssumption DEF IsSequence
        <4> QED BY <3>3, <4>1 DEF Emits
      <3>5. ASSUME NEW k \in 1..Len(s)
            PROVE  Emits(s[k]) /\ (Fresh(s[k]) /\ k # 1 => AfterItsLoad(s, k))
        <4>1. CASE k = 1 BY <3>2, <3>4, <4>1
        <4>2. CASE k # 1
          <5>1. k - 1 \in 1..Len(stack) /\ s[k] = stack[k - 1] BY <3>2, <4>2
          <5>2. Emits(s[k]) /\ (Fresh(s[k]) => k - 1 # 1 /\ AfterItsLoad(stack, k - 1))
            BY <2>2, <5>1 DEF Settled
          <5>3. CASE ~Fresh(s[k]) BY <5>2, <5>3
          <5>4. CASE Fresh(s[k])
            <6>1. (k - 1) - 1 \in 1..Len(stack) /\ 1 + ((k - 1) - 1) = k - 1 BY <3>2, <5>1, <5>2, <5>4
            <6>2. s[k - 1] = stack[(k - 1) - 1] BY <3>2, <6>1
            <6> QED BY <5>1, <5>2, <5>4, <6>2 DEF AfterItsLoad
          <5> QED BY <5>3, <5>4
        <4> QED BY <4>1, <4>2
      <3>6. stack' = s /\ Len(s) \in Nat BY <2>5, <3>1, <3>2
      <3>7. HonestWith(Registered', life', backend', s[1].h) BY <2>1, <3>2, <3>3
      <3> QED BY <3>2, <3>5, <3>6, <3>7, HonestSuffices
    <2> QED BY <2>3, <2>4, <2>5
  <1> QED BY <1>6, <1>7, <1>8, <1>9, <1>10, <1>11, <1>13, <1>14, <1>15, <1>16, <1>17, <1>18,
             <1>19, <1>20, <1>21, <1>22, <1>23
          DEF ManagerNext, ManagerInternal, ManagerCalls, ManagerDeletes, Threads
-----------------------------------------------------------------------------
(* All of it *)

ServiceInv == RegistryInv /\ LoadInv /\ ProxyInv /\ SignalInv

\* Every step keeps what is known of the loads.
LEMMA LoadsKept ==
    ASSUME RegistryInv, LoadInv, SignalInv, NoReload, [ManagerNext]_managerVars
    PROVE  /\ LoadInv' /\ SignalInv' /\ (ProxyInv => ProxyInv')
  <1> DEFINE Kept == LoadInv' /\ (ProxyInv => ProxyInv')
  <1>1. CASE ManagerNext
    <2>1. SignalInv' BY <1>1, SignalsKept
    <2>2. ASSUME UNCHANGED <<m_backends, life, backend, proxies, running, posted>> PROVE Kept
      BY <2>2, LoadsStay
    <2>3. CASE \/ SearchPlugins \/ CreateAll \/ CreateEach \/ WaitForLoad \/ ThreadJoined \/ SpinDone
               \/ UseDeletedBackend \/ EmitServiceObjectLoaded
      BY <2>1, <2>2, <2>3 DEF SearchPlugins, CreateAll, CreateEach, WaitForLoad, ThreadJoined, SpinDone,
                        UseDeletedBackend, EmitServiceObjectLoaded, registry
    <2>4. CASE CreateServiceObject BY <2>1, <2>4, CreateKeepsLoads
    <2>5. CASE \E p \in Plugins : RegisterService(p) \/ ReadServiceObjectRole(p)
      BY <2>1, <2>2, <2>5 DEF RegisterService, ReadServiceObjectRole, registry
    <2>6. CASE \E d \in Dirs : AddLibraryPath(d)
      BY <2>1, <2>2, <2>6 DEF AddLibraryPath, registry
    <2>7. CASE \E i \in Interfaces, flags \in (SUBSET {"production", "simulation"}) \ {{}} :
                  FindServiceByInterface(i, flags)
      BY <2>1, <2>2, <2>7 DEF FindServiceByInterface, registry
    <2>8. CASE \E h \in Handles, async \in BOOLEAN : UserLoad(h, async)
      <3>1. PICK h \in Handles, async \in BOOLEAN : UserLoad(h, async) BY <2>8
      <3>2. /\ AtEventLoop /\ LoadServiceObject(h, async, stack)
            /\ UNCHANGED <<registry, proxies>> /\ ~(IsLoaded(h) /\ async)
        BY <3>1 DEF UserLoad, MayCall, NoReload
      <3>3. async /\ IsValid(h) => backend[h[1]].proxy = 0 BY <3>2 DEF IsLoaded
      <3>4. Settled(stack) BY <3>2, StackSettled DEF AtEventLoop
      <3> QED BY <2>1, <3>2, <3>3, <3>4, LoadKeepsAll
    <2>9. CASE AddBackend BY <2>1, <2>9, AddKeepsLoads
    <2>10. CASE UnloadAllBackends BY <2>1, <2>10, UnloadKeepsLoads
    <2>11. CASE \E h \in Handles : ThreadLoads(h) BY <2>1, <2>11, ThreadLoadsKeepsLoads
    <2>12. CASE \E h \in Handles : RunningThreadDeleted(h)
      BY <2>1, <2>2, <2>12 DEF RunningThreadDeleted, registry
    <2>13. CASE \E p \in Plugins : ThreadDeleted(p) BY <2>1, <2>13, ThreadDeletedKeepsLoads
    <2>14. CASE HandlePosted BY <2>1, <2>14, HandleKeepsLoads
    <2>15. Kept
      BY <1>1, <2>3, <2>4, <2>5, <2>6, <2>7, <2>8, <2>9, <2>10, <2>11, <2>12, <2>13, <2>14
         DEF ManagerNext, ManagerInternal, ManagerCalls, ManagerDeletes, Threads
    <2> QED BY <2>1, <2>15
  <1>2. CASE UNCHANGED managerVars
    <2>1. UNCHANGED <<m_backends, life, backend, proxies, running, posted>> /\ stack' = stack
      BY <1>2 DEF managerVars, registry
    <2>2. Registered' = Registered /\ life' = life /\ backend' = backend BY <2>1 DEF Registered
    <2>3. SignalInv' <=> SignalInv BY <2>1, <2>2 DEF SignalInv, Honest, AfterItsLoad
    <2> QED BY <2>1, <2>3, LoadsStay
  <1> QED BY <1>1, <1>2

\* Before the constructor searches nothing is loaded.
LEMMA LoadsInitially ==
    ASSUME ManagerInit PROVE LoadInv /\ ProxyInv /\ SignalInv
  <1>1. /\ m_backends = <<>> /\ backend = [p \in Plugins |-> NewBackend(p)] /\ proxies = {}
        /\ running = {} /\ posted = <<>> /\ stack = <<SearchFrame>>
    BY DEF ManagerInit
  <1>2. Registered = {} BY <1>1 DEF Registered
  <1>3. LoadTypes
    <2>1. backend \in [Plugins -> BackendType] BY <1>1, NewBackendIsSound
    <2>2. posted \in Seq(Events) BY <1>1
    <2> QED BY <1>1, <2>1, <2>2 DEF LoadTypes
  <1>4. CompletionsApart
    <2>1. Len(posted) = 0 BY <1>1
    <2> QED BY <1>1, <2>1 DEF CompletionsApart
  <1>5. LoadInv BY <1>2, <1>3, <1>4 DEF LoadInv
  <1>6. ProxyInv BY <1>1, <1>2 DEF ProxyInv
  <1>7. SignalInv
    <2> DEFINE x == SearchFrame
    <2>1. x.op = "search" BY FrameFields DEF SearchFrame
    <2>2. stack = <<x>> BY <1>1
    <2> HIDE DEF x
    <2>3. Settled(stack) BY <2>1, <2>2, SettledFrames
    <2> QED BY <2>3 DEF Settled, SignalInv, AfterItsLoad
  <1> QED BY <1>5, <1>6, <1>7

\* Completions that differ from one another are at most one for each Backend.
LEMMA LoadsHaveOneCompletion ==
    ASSUME RegistryInv, LoadInv PROVE OneCompletion
  <1> SUFFICES ASSUME NEW p \in Registered
               PROVE  Completions(HandleOf(p)) = (IF backend[p].loading THEN 1 ELSE 0)
    BY DEF OneCompletion
  <1> PICK h : h = HandleOf(p) OBVIOUS
  <1> DEFINE P == {i \in DOMAIN posted : posted[i].h = h}
  <1>1. DOMAIN posted = 1..Len(posted) BY DEF LoadInv, LoadTypes
  <1>2. /\ \A i \in 1..Len(posted) : posted[i].h \notin running
        /\ \A i, j \in 1..Len(posted) : i # j => posted[i].h # posted[j].h
        /\ backend[p].loading <=> UnderWay(h)
    BY DEF LoadInv, CompletionsApart
  <1>3. Completions(h) = Cardinality(P) + (IF h \in running THEN 1 ELSE 0) BY DEF Completions
  <1>4. Cardinality({}) = 0 BY FS_EmptySet
  <1>5. \A i : Cardinality({i}) = 1 BY FS_Singleton
  <1>6. CASE h \in running
    <2>1. P = {} BY <1>1, <1>2, <1>6
    <2>2. backend[p].loading BY <1>2, <1>6 DEF UnderWay
    <2> QED BY <1>3, <1>4, <1>6, <2>1, <2>2
  <1>7. CASE h \notin running /\ \E i \in 1..Len(posted) : posted[i].h = h
    <2>1. PICK i \in 1..Len(posted) : posted[i].h = h BY <1>7
    <2>2. P = {i} BY <1>1, <1>2, <2>1
    <2>3. backend[p].loading BY <1>2, <1>7 DEF UnderWay
    <2>4. Cardinality(P) = 1 BY <1>5, <2>2
    <2> HIDE DEF P
    <2>5. Completions(h) = 1 BY <1>3, <1>7, <2>4
    <2> QED BY <2>3, <2>5
  <1>8. CASE h \notin running /\ ~\E i \in 1..Len(posted) : posted[i].h = h
    <2>1. P = {} BY <1>1, <1>8
    <2>2. ~backend[p].loading BY <1>2, <1>8 DEF UnderWay
    <2>3. Cardinality(P) = 0 BY <1>4, <2>1
    <2> HIDE DEF P
    <2>4. Completions(h) = 0 BY <1>3, <1>8, <2>3
    <2> QED BY <2>2, <2>4
  <1> QED BY <1>6, <1>7, <1>8

\* The signal on top of the stack is the one that is emitted.
LEMMA SignalsAreHonest ==
    ASSUME RegistryInv, LoadInv, SignalInv PROVE SignalIsHonest
  <1> SUFFICES ASSUME Top("emit"), Head(stack).to = Listeners, IsValid(Head(stack).h)
               PROVE  /\ ~backend[Head(stack).h[1]].loading
                      /\ backend[Head(stack).h[1]].proxy # 0 <=> Head(stack).h[1] \in Loadable \cup Resident
    BY DEF SignalIsHonest
  <1>1. stack # <<>> /\ Fresh(Head(stack)) BY DEF Top, Fresh
  <1>2. Head(stack) = stack[1] /\ Len(stack) \in Nat \ {0} BY <1>1, TailElements DEF SignalInv
  <1>3. Honest(Head(stack).h) BY <1>1, <1>2 DEF SignalInv
  <1> QED BY <1>3 DEF Honest, HonestWith, IsValid, Available

\* createServiceObject() finds a thread where there is a load to wait for.
WaitInv == fault # "no thread to wait for"

\* A Backend that is loading has a thread, unless its interface was there from the start.
LEMMA WaitsFindThreads ==
    ASSUME LoadInv, Resident = {}, WaitInv, [ManagerNext]_managerVars PROVE WaitInv'
  <1>1. CASE WaitForLoad
    <2>1. PICK p : p = Head(stack).h[1] OBVIOUS
    <2>2. p \in Registered /\ backend[p].loading BY <1>1, <2>1 DEF WaitForLoad, IsValid
    <2>3. backend[p].thread BY <2>2 DEF LoadInv, Sound
    <2> QED BY <1>1, <2>1, <2>3 DEF WaitForLoad, WaitInv
  <1>2. CASE UNCHANGED fault BY <1>2 DEF WaitInv
  <1>3. CASE UseDeletedBackend BY <1>3 DEF UseDeletedBackend, WaitInv
  <1>4. CASE \E h \in Handles : RunningThreadDeleted(h) BY <1>4 DEF RunningThreadDeleted, WaitInv
  <1>5. CASE HandlePosted
    <2>1. fault' = "deleted backend" \/ fault' = fault BY <1>5 DEF HandlePosted
    <2> QED BY <2>1 DEF WaitInv
  <1>6. CASE ManagerInternal
    BY <1>1, <1>2, <1>3, <1>6
       DEF ManagerInternal, SearchPlugins, CreateAll, CreateEach, ThreadJoined, SpinDone,
           CreateServiceObject, EmitServiceObjectLoaded
  <1>7. CASE ManagerCalls
    BY <1>2, <1>7 DEF ManagerCalls, RegisterService, ReadServiceObjectRole, AddLibraryPath,
                      FindServiceByInterface, UserLoad
  <1>8. CASE ManagerDeletes BY <1>2, <1>8 DEF ManagerDeletes, AddBackend, UnloadAllBackends
  <1>9. CASE Threads BY <1>2, <1>4, <1>9 DEF Threads, ThreadLoads, ThreadDeleted
  <1>10. CASE UNCHANGED managerVars BY <1>2, <1>10 DEF managerVars
  <1> QED BY <1>5, <1>6, <1>7, <1>8, <1>9, <1>10 DEF ManagerNext

\* Every service object is the one its Backend has now.
LEMMA ProxiesAreSingle ==
    ASSUME ProxyInv PROVE OneServiceObject
  BY DEF ProxyInv, OneServiceObject

\* The parts together are inductive.
LEMMA ServiceInvHolds ==
    ASSUME NoReload PROVE ManagerSpec => []ServiceInv
  <1>1. ManagerInit => ServiceInv BY RegistryInitially, LoadsInitially DEF ServiceInv
  <1>2. ServiceInv /\ [ManagerNext]_managerVars => ServiceInv'
    BY RegistryKept, LoadsKept DEF ServiceInv
  <1> QED BY <1>1, <1>2, PTL DEF ManagerSpec

\* Loads that meet, by the thread, the model and the nested event loop of
\* createServiceObject() (qifservicemanager.cpp:107-146, 445-532), have one
\* completion, one honest signal and one service object, and none is waited for
\* without a thread: where a backend that has its service object is not loaded
\* again and every backend is a plugin file.
THEOREM LoadsAreRightHolds ==
    ASSUME NoReload, Resident = {} PROVE ManagerSpec => []LoadsAreRight
  <1>1. ManagerSpec => []ServiceInv BY ServiceInvHolds
  <1>2. ManagerInit => WaitInv BY DEF ManagerInit, WaitInv
  <1>3. ServiceInv /\ WaitInv /\ [ManagerNext]_managerVars => WaitInv'
    BY WaitsFindThreads DEF ServiceInv
  <1>4. ServiceInv /\ WaitInv => LoadsAreRight
    BY LoadsHaveOneCompletion, SignalsAreHonest, ProxiesAreSingle
       DEF ServiceInv, WaitInv, WaitsForAThread, LoadsAreRight
  <1> QED BY <1>1, <1>2, <1>3, <1>4, PTL DEF ManagerSpec

-----------------------------------------------------------------------------
(* The features as callers of the manager *)

\* The frames of the features register nothing and announce nothing.
QuietOps == {"search", "discover", "choose", "load", "notify"}
Quiet(p) == IsSequence(p) /\ ~Registers(p) /\ Settled(p)

\* No frame, and one or two of the features, are quiet.
LEMMA QuietFrames ==
    /\ Quiet(<<>>)
    /\ \A x : x.op \in QuietOps => Quiet(<<x>>)
    /\ \A x, y : x.op \in QuietOps /\ y.op \in QuietOps => Quiet(<<x, y>>)
  <1>1. Quiet(<<>>) BY SettledFrames DEF Quiet, Settled, Registers
  <1>2. ASSUME NEW x, x.op \in QuietOps PROVE Quiet(<<x>>)
    <2>1. <<x>> \in Seq({x}) /\ Len(<<x>>) = 1 /\ <<x>>[1] = x OBVIOUS
    <2>2. ~Registers(<<x>>) BY <1>2, <2>1 DEF Registers, QuietOps
    <2>3. Settled(<<x>>) BY <1>2, SettledFrames DEF QuietOps
    <2>4. IsSequence(<<x>>) BY <2>1 DEF IsSequence
    <2> QED BY <2>2, <2>3, <2>4 DEF Quiet
  <1>3. ASSUME NEW x, NEW y, x.op \in QuietOps, y.op \in QuietOps PROVE Quiet(<<x, y>>)
    <2>1. /\ <<x, y>> \in Seq({x, y}) /\ Len(<<x, y>>) = 2
          /\ <<x, y>>[1] = x /\ <<x, y>>[2] = y
      OBVIOUS
    <2>2. ~Registers(<<x, y>>) BY <1>3, <2>1 DEF Registers, QuietOps
    <2>3. Settled(<<x, y>>) BY <1>3, SettledFrames DEF QuietOps
    <2>4. IsSequence(<<x, y>>) BY <2>1 DEF IsSequence
    <2> QED BY <2>2, <2>3, <2>4 DEF Quiet
  <1> QED BY <1>1, <1>2, <1>3

\* The step of a feature that only calls, returns or changes the feature.
LEMMA QuietStep ==
    ASSUME ServiceInv, NEW p, Quiet(p),
           UNCHANGED <<registry, libraryPaths, backend, proxies, running, posted>>,
           \/ stack # <<>> /\ Head(stack).op \in QuietOps /\ stack' = p \o Tail(stack)
           \/ AtEventLoop /\ stack' = p \o stack
    PROVE  ServiceInv'
  <1>1. /\ IsSequence(stack) /\ libraryPaths' \in Seq(Dirs) /\ IsSequence(p) /\ ~Registers(p)
        /\ Settled(p)
    BY DEF ServiceInv, RegistryInv, RegistryTypes, Quiet
  <1>2. ~Registers(stack)
    BY NothingRegistered DEF ServiceInv, AtEventLoop, QuietOps
  <1>3. IsSequence(stack') /\ ~Registers(stack') BY <1>1, <1>2, PushedFrames
  <1>4. RegistryInv' BY <1>1, <1>2, <1>3, RegistryStays DEF ServiceInv
  <1>5. LoadInv' /\ ProxyInv' BY LoadsStay DEF ServiceInv, registry
  <1>6. \/ Settled(stack) /\ stack' = p \o stack
        \/ Settled(Tail(stack)) /\ stack' = p \o Tail(stack)
    BY StackSettled DEF ServiceInv, AtEventLoop, QuietOps, Waits
  <1>7. SignalInv' BY <1>1, <1>6, JoinedSettled, SettledSuffices
  <1> QED BY <1>4, <1>5, <1>7 DEF ServiceInv

\* loadServiceObject() of the handle a feature has come to.
LEMMA FeatureLoads ==
    ASSUME ServiceInv, NEW h, NEW async, stack # <<>>, Head(stack).op = "load", ~IsLoaded(h),
           LoadServiceObject(h, async, Tail(stack)),
           UNCHANGED <<registry, libraryPaths, proxies>>
    PROVE  ServiceInv'
  <1>1. IsSequence(stack) /\ libraryPaths' \in Seq(Dirs)
    BY DEF ServiceInv, RegistryInv, RegistryTypes
  <1>2. ~Registers(stack) BY NothingRegistered DEF ServiceInv
  <1>3. IsSequence(Tail(stack)) /\ ~Registers(Tail(stack))
    BY <1>1, <1>2, PushedFrames, QuietFrames DEF Quiet
  <1>4. Settled(Tail(stack)) BY StackSettled DEF ServiceInv, Waits
  <1>5. IsValid(h) => backend[h[1]].proxy = 0 BY DEF IsLoaded
  <1>6. LoadInv' /\ ProxyInv' /\ SignalInv'
    BY <1>4, <1>5, LoadKeepsAll, SettledSuffices DEF ServiceInv
  <1>7. IsSequence(stack') /\ ~Registers(stack')
    <2>1. CASE stack' = Tail(stack) BY <1>3, <2>1
    <2>2. CASE stack' = CreateThenEmit(h) \o Tail(stack)
      <3>1. PICK x, y : x = CreateFrame(h) /\ y = Emission(h) OBVIOUS
      <3>2. x.op = "create" /\ y.op = "emit" BY <3>1, FrameFields DEF CreateFrame, Emission
      <3>3. /\ <<x, y>> \in Seq({x, y}) /\ Len(<<x, y>>) = 2
            /\ <<x, y>>[1] = x /\ <<x, y>>[2] = y
        OBVIOUS
      <3>4. IsSequence(<<x, y>>) BY <3>3 DEF IsSequence
      <3>6. ~Registers(<<x, y>>) BY <3>2, <3>3 DEF Registers
      <3>5. stack' = <<x, y>> \o Tail(stack) BY <2>2, <3>1 DEF CreateThenEmit
      <3> QED BY <1>3, <3>4, <3>5, <3>6, PushedFrames
    <2> QED BY <2>1, <2>2 DEF LoadServiceObject
  <1>8. RegistryInv' BY <1>1, <1>2, <1>7, RegistryStays DEF ServiceInv
  <1> QED BY <1>6, <1>8 DEF ServiceInv

\* Every step of the manager keeps its invariant, in whatever program it is part of.
LEMMA ServicesKept ==
    ASSUME NoReload, ServiceInv, [ManagerNext]_managerVars PROVE ServiceInv'
  BY RegistryKept, LoadsKept DEF ServiceInv

\* Whatever the features do, the manager's invariant stays.
LEMMA FeaturesKeepServices ==
    ASSUME NoReload, ServiceInv,
           FeatureInternal \/ FeatureCalls \/ \E p \in Plugins : InitializationDone(p)
    PROVE  ServiceInv' /\ UNCHANGED <<registry, proxies, fault>>
  <1> DEFINE Goal == ServiceInv' /\ UNCHANGED <<registry, proxies, fault>>
  <1>1. \A op, f : Call(op, f).op = op BY FrameFields DEF Call
  <1>2. SearchFrame.op = "search" BY FrameFields DEF SearchFrame
  <1>3. ASSUME UNCHANGED managerVars PROVE Goal
    <2>1. ServiceInv' BY <1>3, ServicesKept
    <2> QED BY <1>3, <2>1 DEF managerVars, registry
  <1>4. CASE Discover
    <2>1. PICK f : f = Caller OBVIOUS
    <2>2. PICK x, y, z : x = SearchFrame /\ y = Call("choose", f) /\ z = Call("load", f) OBVIOUS
    <2>3. x.op = "search" /\ y.op = "choose" /\ z.op = "load" BY <1>1, <1>2, <2>2
    <2>4. Quiet(<<x, y>>) /\ Quiet(<<z>>) BY <2>3, QuietFrames DEF QuietOps
    <2>5. /\ stack # <<>> /\ Head(stack).op = "discover"
          /\ stack' = <<x, y>> \o Tail(stack) \/ stack' = <<z>> \o Tail(stack)
          /\ UNCHANGED <<registry, libraryPaths, backend, proxies, running, posted, fault>>
      BY <1>4, <2>1, <2>2 DEF Discover, Top
    <2>6. ServiceInv' BY <2>4, <2>5, QuietStep DEF QuietOps
    <2> QED BY <2>5, <2>6
  <1>5. CASE ChooseHandles
    <2>1. PICK x : x = Call("load", Caller) OBVIOUS
    <2>2. Quiet(<<x>>) BY <1>1, <2>1, QuietFrames DEF QuietOps
    <2>3. /\ stack # <<>> /\ Head(stack).op = "choose" /\ stack' = <<x>> \o Tail(stack)
          /\ UNCHANGED <<registry, libraryPaths, backend, proxies, running, posted, fault>>
      BY <1>5, <2>1 DEF ChooseHandles, Top
    <2>4. ServiceInv' BY <2>2, <2>3, QuietStep DEF QuietOps
    <2> QED BY <2>3, <2>4
  <1>6. \A f, r : Quiet(NextAfterFailure(f, r))
    <2>1. \A f : Quiet(<<Call("discover", f)>>) BY <1>1, QuietFrames DEF QuietOps
    <2> QED BY <2>1, QuietFrames DEF NextAfterFailure
  <1>7. CASE LoadCurrentHandle
    <2>1. PICK f, r, h : f = Caller /\ r = feature[f] /\ h = r.handles[r.index] OBVIOUS
    <2>2. /\ stack # <<>> /\ Head(stack).op = "load"
          /\ UNCHANGED <<registry, libraryPaths, proxies, fault>>
      BY <1>7 DEF LoadCurrentHandle, Top
    <2>3. CASE /\ stack' = NextAfterFailure(f, r) \o Tail(stack)
               /\ UNCHANGED <<backend, running, posted>>
      <3>1. PICK p : p = NextAfterFailure(f, r) /\ Quiet(p) BY <1>6
      <3>2. ServiceInv' BY <2>2, <2>3, <3>1, QuietStep DEF QuietOps
      <3> QED BY <2>2, <3>2
    <2>4. CASE /\ stack' = <<Frame("notify", h, <<f>>, {})>> \o Tail(stack)
               /\ UNCHANGED <<backend, running, posted>>
      <3>1. PICK x : x = Frame("notify", h, <<f>>, {}) OBVIOUS
      <3>2. x.op = "notify" BY <3>1, FrameFields
      <3>3. Quiet(<<x>>) BY <3>2, QuietFrames DEF QuietOps
      <3>4. ServiceInv' BY <2>2, <2>4, <3>1, <3>3, QuietStep DEF QuietOps
      <3> QED BY <2>2, <3>4
    <2>5. CASE ~IsLoaded(h) /\ LoadServiceObject(h, r.async, Tail(stack))
      <3>1. ServiceInv' BY <2>2, <2>5, FeatureLoads
      <3> QED BY <2>2, <3>1
    <2>6. \/ stack' = NextAfterFailure(f, r) \o Tail(stack) /\ UNCHANGED <<backend, running, posted>>
          \/ /\ stack' = <<Frame("notify", h, <<f>>, {})>> \o Tail(stack)
             /\ UNCHANGED <<backend, running, posted>>
          \/ ~IsLoaded(h) /\ LoadServiceObject(h, r.async, Tail(stack))
      BY <1>7, <2>1 DEF LoadCurrentHandle
    <2> QED BY <2>3, <2>4, <2>5, <2>6
  <1>8. CASE OnServiceObjectLoaded
    <2>1. /\ stack # <<>> /\ Head(stack).op = "notify"
          /\ UNCHANGED <<registry, libraryPaths, backend, proxies, running, posted, fault>>
          /\ \/ stack' = Tail(stack)
             \/ stack' = <<Call("load", Caller)>> \o Tail(stack)
             \/ \E r : stack' = NextAfterFailure(Caller, r) \o Tail(stack)
      BY <1>8 DEF OnServiceObjectLoaded, Top
    <2>2. Quiet(<<Call("load", Caller)>>) BY <1>1, QuietFrames DEF QuietOps
    <2>3. stack' = Tail(stack) => stack' = <<>> \o Tail(stack)
      <3>1. IsSequence(Tail(stack))
        BY <2>1, TailElements DEF ServiceInv, RegistryInv, RegistryTypes
      <3>2. PICK S : Tail(stack) \in Seq(S) BY <3>1 DEF IsSequence
      <3>3. <<>> \o Tail(stack) = Tail(stack) BY <3>2
      <3> QED BY <3>3
    <2>4. PICK p : Quiet(p) /\ stack' = p \o Tail(stack)
      BY <1>6, <2>1, <2>2, <2>3, QuietFrames
    <2>5. ServiceInv' BY <2>1, <2>4, QuietStep DEF QuietOps
    <2> QED BY <2>1, <2>5
  <1>9. CASE \E f \in Features : StartAutoDiscovery(f)
    <2>1. PICK f \in Features : StartAutoDiscovery(f) BY <1>9
    <2>2. PICK x : x = Call("discover", f) OBVIOUS
    <2>3. Quiet(<<x>>) BY <1>1, <2>2, QuietFrames DEF QuietOps
    <2>4. /\ AtEventLoop
          /\ stack' = stack \/ stack' = <<x>> \o stack
          /\ UNCHANGED <<registry, libraryPaths, backend, proxies, running, posted, waiting, fault>>
      BY <2>1, <2>2 DEF StartAutoDiscovery, MayCall
    <2>5. CASE stack' = stack BY <1>3, <2>4, <2>5 DEF managerVars
    <2>6. CASE stack' = <<x>> \o stack
      <3>1. ServiceInv' BY <2>3, <2>4, <2>6, QuietStep
      <3> QED BY <2>4, <3>1
    <2> QED BY <2>4, <2>5, <2>6
  <1>10. CASE \E f \in Features : \/ \E so \in proxies \cup {none} : SetServiceObject(f, so)
                                  \/ SetBackendUpdatesEnabled(f)
                                  \/ \E mode \in DiscoveryModes : SetDiscoveryMode(f, mode)
                                  \/ SetAsynchronousBackendLoading(f)
                                  \/ \E wildcards \in Preferences : SetPreferredBackends(f, wildcards)
    <2>1. UNCHANGED managerVars
      BY <1>10 DEF SetServiceObject, SetBackendUpdatesEnabled, SetDiscoveryMode,
                   SetAsynchronousBackendLoading, SetPreferredBackends
    <2> QED BY <1>3, <2>1
  <1>11. CASE \E p \in Plugins : InitializationDone(p)
    BY <1>3, <1>11 DEF InitializationDone
  <1> QED BY <1>4, <1>5, <1>7, <1>8, <1>9, <1>10, <1>11 DEF FeatureInternal, FeatureCalls

\* The invariants of the manager hold in the initial states of the system.
LEMMA SystemInitially ==
    ASSUME Init PROVE ServiceInv /\ WaitInv
  BY RegistryInitially, LoadsInitially DEF Init, ServiceInv, ManagerInit, WaitInv

\* Every step of the system keeps the manager's invariant.
LEMMA SystemKeepsServices ==
    ASSUME NoReload, ServiceInv, [Next]_vars
    PROVE  /\ ServiceInv'
           /\ Resident = {} /\ WaitInv => WaitInv'
  <1>1. CASE FeatureInternal \/ FeatureCalls \/ \E p \in Plugins : InitializationDone(p)
    <2>1. ServiceInv' /\ UNCHANGED <<registry, proxies, fault>>
      BY <1>1, FeaturesKeepServices
    <2> QED BY <2>1 DEF WaitInv
  <1>2. CASE ManagerKeeps \/ ServiceObjectsDestroyed \/ UNCHANGED vars
    <2>1. [ManagerNext]_managerVars
      BY <1>2 DEF ManagerKeeps, ServiceObjectsDestroyed, ManagerNext, vars
    <2>2. ServiceInv' BY <2>1, ServicesKept
    <2>3. Resident = {} /\ WaitInv => WaitInv' BY <2>1, WaitsFindThreads DEF ServiceInv
    <2> QED BY <2>2, <2>3
  <1> QED BY <1>1, <1>2 DEF Next

\* However the features search, load and bind, the loads they share have one
\* completion, one honest signal and one service object, and none is waited for
\* without a thread (qifservicemanager.cpp:107-146, 445-532): where a backend that
\* has its service object is not loaded again and every backend is a plugin file.
THEOREM SharedLoadsAreRight ==
    ASSUME NoReload, Resident = {} PROVE Spec => []LoadsAreRight
  <1>1. Init => ServiceInv /\ WaitInv BY SystemInitially
  <1>2. ServiceInv /\ WaitInv /\ [Next]_vars => (ServiceInv /\ WaitInv)'
    BY SystemKeepsServices
  <1>3. ServiceInv /\ WaitInv => LoadsAreRight
    BY LoadsHaveOneCompletion, SignalsAreHonest, ProxiesAreSingle
       DEF ServiceInv, WaitInv, WaitsForAThread, LoadsAreRight
  <1> QED BY <1>1, <1>2, <1>3, PTL DEF Spec

-----------------------------------------------------------------------------
(* What a feature is bound to *)

\* A feature that accepts a service object can connect to it.
AlwaysConnects ==
    \A f \in Demanding, p \in Instanceless : FeatureInterface[f] \notin Provides[p]

\* The private data of a feature, whatever the values it has from outside.
FeatureIn(U) ==
    [so : U, mode : U, result : U, search : U, handles : U, index : U, preferred : U,
     async : BOOLEAN, updates : BOOLEAN, initialized : BOOLEAN, connected : BOOLEAN,
     attached : BOOLEAN, watching : BOOLEAN]
IsFeature(r) == \E U : r \in FeatureIn(U)

Sane(r) ==
    /\ IsFeature(r)
    /\ r.initialized = TRUE => r.attached = TRUE
    /\ r.attached = TRUE => r.so # none /\ r.updates = TRUE /\ r.so[1] \notin Instanceless
Alive(r) == r.so # none => r.watching = TRUE /\ r.so \in proxies

FeaturesSane ==
    /\ feature = [f \in Features |-> feature[f]]
    /\ \A f \in Features : Sane(feature[f])
FeaturesAlive == \A f \in Features : Alive(feature[f])

\* What only the search changes is not what the feature is bound to.
SameBinding(r, s) ==
    /\ IsFeature(s) /\ s.so = r.so /\ s.updates = r.updates /\ s.initialized = r.initialized
    /\ s.attached = r.attached /\ s.watching = r.watching

\* What a feature is bound to is as sound as it was when only its search has changed.
LEMMA BindingStays ==
    ASSUME NEW r, Sane(r), NEW s, SameBinding(r, s)
    PROVE  Sane(s) /\ (Alive(r) => Alive(s))
  BY DEF SameBinding, Sane, Alive

\* The setters of the search leave the binding alone.
LEMMA SearchChanges ==
    ASSUME NEW r, IsFeature(r)
    PROVE  /\ \A x : SameBinding(r, [r EXCEPT !.mode = x])
           /\ \A x : SameBinding(r, [r EXCEPT !.result = x])
           /\ \A x : SameBinding(r, [r EXCEPT !.search = x])
           /\ \A x : SameBinding(r, [r EXCEPT !.preferred = x])
           /\ \A b \in BOOLEAN : SameBinding(r, [r EXCEPT !.async = b])
           /\ \A x : SameBinding(r, [r EXCEPT !.index = x])
           /\ \A x, y : SameBinding(r, [r EXCEPT !.handles = x, !.index = y])
           /\ \A x, y : SameBinding(r, [r EXCEPT !.index = x, !.search = y])
           /\ \A x, y, z : SameBinding(r, [r EXCEPT !.index = x, !.handles = y, !.result = z])
  <1>1. PICK U : r \in FeatureIn(U) BY DEF IsFeature
  <1>2. ASSUME NEW x PROVE SameBinding(r, [r EXCEPT !.mode = x])
    <2>1. r \in FeatureIn(U \cup {x}) BY <1>1 DEF FeatureIn
    <2> QED BY <2>1 DEF SameBinding, IsFeature, FeatureIn
  <1>3. ASSUME NEW x PROVE SameBinding(r, [r EXCEPT !.result = x])
    <2>1. r \in FeatureIn(U \cup {x}) BY <1>1 DEF FeatureIn
    <2> QED BY <2>1 DEF SameBinding, IsFeature, FeatureIn
  <1>4. ASSUME NEW x PROVE SameBinding(r, [r EXCEPT !.search = x])
    <2>1. r \in FeatureIn(U \cup {x}) BY <1>1 DEF FeatureIn
    <2> QED BY <2>1 DEF SameBinding, IsFeature, FeatureIn
  <1>5. ASSUME NEW x PROVE SameBinding(r, [r EXCEPT !.preferred = x])
    <2>1. r \in FeatureIn(U \cup {x}) BY <1>1 DEF FeatureIn
    <2> QED BY <2>1 DEF SameBinding, IsFeature, FeatureIn
  <1>6. \A b \in BOOLEAN : SameBinding(r, [r EXCEPT !.async = b])
    BY <1>1 DEF SameBinding, IsFeature, FeatureIn
  <1>7. ASSUME NEW x PROVE SameBinding(r, [r EXCEPT !.index = x])
    <2>1. r \in FeatureIn(U \cup {x}) BY <1>1 DEF FeatureIn
    <2> QED BY <2>1 DEF SameBinding, IsFeature, FeatureIn
  <1>8. ASSUME NEW x, NEW y PROVE SameBinding(r, [r EXCEPT !.handles = x, !.index = y])
    <2>1. PICK V : V = U \cup {x, y} OBVIOUS
    <2>2. r \in FeatureIn(V) /\ x \in V /\ y \in V BY <1>1, <2>1 DEF FeatureIn
    <2>3. PICK s : s = [r EXCEPT !.handles = x, !.index = y] OBVIOUS
    <2>4. s \in FeatureIn(V) BY <2>2, <2>3 DEF FeatureIn
    <2>5. /\ s.so = r.so /\ s.updates = r.updates /\ s.initialized = r.initialized
          /\ s.attached = r.attached /\ s.watching = r.watching
      BY <2>2, <2>3 DEF FeatureIn
    <2> QED BY <2>3, <2>4, <2>5 DEF SameBinding, IsFeature
  <1>9. ASSUME NEW x, NEW y PROVE SameBinding(r, [r EXCEPT !.index = x, !.search = y])
    <2>1. PICK V : V = U \cup {x, y} OBVIOUS
    <2>2. r \in FeatureIn(V) /\ x \in V /\ y \in V BY <1>1, <2>1 DEF FeatureIn
    <2>3. PICK s : s = [r EXCEPT !.index = x, !.search = y] OBVIOUS
    <2>4. s \in FeatureIn(V) BY <2>2, <2>3 DEF FeatureIn
    <2>5. /\ s.so = r.so /\ s.updates = r.updates /\ s.initialized = r.initialized
          /\ s.attached = r.attached /\ s.watching = r.watching
      BY <2>2, <2>3 DEF FeatureIn
    <2> QED BY <2>3, <2>4, <2>5 DEF SameBinding, IsFeature
  <1>10. ASSUME NEW x, NEW y, NEW z PROVE SameBinding(r, [r EXCEPT !.index = x, !.handles = y, !.result = z])
    <2>1. PICK V : V = U \cup {x, y, z} OBVIOUS
    <2>2. r \in FeatureIn(V) /\ x \in V /\ y \in V /\ z \in V BY <1>1, <2>1 DEF FeatureIn
    <2>3. PICK s : s = [r EXCEPT !.index = x, !.handles = y, !.result = z] OBVIOUS
    <2>4. s \in FeatureIn(V) BY <2>2, <2>3 DEF FeatureIn
    <2>5. /\ s.so = r.so /\ s.updates = r.updates /\ s.initialized = r.initialized
          /\ s.attached = r.attached /\ s.watching = r.watching
      BY <2>2, <2>3 DEF FeatureIn
    <2> QED BY <2>3, <2>4, <2>5 DEF SameBinding, IsFeature
  <1> QED BY <1>2, <1>3, <1>4, <1>5, <1>6, <1>7, <1>8, <1>9, <1>10

\* disconnectFromServiceObject()
LEMMA DisconnectedSet ==
    ASSUME NEW r, IsFeature(r), NEW s, s = Disconnected(r)
    PROVE  /\ IsFeature(s) /\ s.so = r.so /\ s.updates = r.updates /\ s.watching = r.watching
           /\ s.attached = FALSE /\ s.initialized = FALSE
  <1>1. PICK U : r \in FeatureIn(U) BY DEF IsFeature
  <1> QED BY <1>1 DEF Disconnected, IsFeature, FeatureIn

\* connectToServiceObject()
LEMMA ConnectedSet ==
    ASSUME NEW r, IsFeature(r), NEW f, NEW s, s = Connected(f, r)
    PROVE  /\ IsFeature(s) /\ s.so = r.so /\ s.updates = r.updates
           /\ s.watching = r.watching /\ s.initialized = r.initialized
           /\ s.attached = TRUE => r.attached = TRUE \/ r.so[1] \notin Instanceless
  <1>1. PICK U : r \in FeatureIn(U) BY DEF IsFeature
  <1>2. PICK v \in BOOLEAN : v = (r.so[1] \notin Instanceless) OBVIOUS
  <1>3. s = r \/ s = [r EXCEPT !.connected = TRUE, !.attached = v] BY <1>2 DEF Connected
  <1> QED BY <1>1, <1>2, <1>3 DEF IsFeature, FeatureIn

\* A feature connects to whatever it does not have to refuse.
LEMMA ConnectedWhen ==
    ASSUME NEW r, IsFeature(r), NEW f, ~(f \in Demanding /\ r.so[1] \in Instanceless)
    PROVE  Connected(f, r).connected = TRUE
  <1>1. PICK U : r \in FeatureIn(U) BY DEF IsFeature
  <1>2. PICK v \in BOOLEAN : v = (r.so[1] \notin Instanceless) OBVIOUS
  <1>3. Connected(f, r) = [r EXCEPT !.connected = TRUE, !.attached = v] BY <1>2 DEF Connected
  <1> QED BY <1>1, <1>2, <1>3 DEF FeatureIn

\* Assignments to the private data
WithPointer(r, x) == [r EXCEPT !.so = x]
WithoutObject(r) == [r EXCEPT !.so = none, !.watching = FALSE]
Watching(r, w) == [r EXCEPT !.watching = w]
Updating(r, w) == [r EXCEPT !.updates = w]
Initialized(r) == [r EXCEPT !.initialized = TRUE]

\* m_serviceObject = so
LEMMA PointerSet ==
    ASSUME NEW r, IsFeature(r), NEW x, NEW s, s = WithPointer(r, x)
    PROVE  /\ IsFeature(s) /\ s.so = x /\ s.updates = r.updates
           /\ s.initialized = r.initialized /\ s.attached = r.attached /\ s.watching = r.watching
  <1>1. PICK U : r \in FeatureIn(U) BY DEF IsFeature
  <1>2. r \in FeatureIn(U \cup {x}) BY <1>1 DEF FeatureIn
  <1> QED BY <1>2 DEF WithPointer, IsFeature, FeatureIn

\* m_serviceObject = nullptr
LEMMA PointerCleared ==
    ASSUME NEW r, IsFeature(r), NEW s, s = WithoutObject(r)
    PROVE  /\ IsFeature(s) /\ s.so = none /\ s.updates = r.updates
           /\ s.initialized = r.initialized /\ s.attached = r.attached /\ s.watching = FALSE
  <1>1. PICK U : r \in FeatureIn(U) BY DEF IsFeature
  <1>2. r \in FeatureIn(U \cup {none}) BY <1>1 DEF FeatureIn
  <1> QED BY <1>2 DEF WithoutObject, IsFeature, FeatureIn

\* Connecting destroyed()
LEMMA WatchingSet ==
    ASSUME NEW r, IsFeature(r), NEW w \in BOOLEAN, NEW s, s = Watching(r, w)
    PROVE  /\ IsFeature(s) /\ s.so = r.so /\ s.updates = r.updates
           /\ s.initialized = r.initialized /\ s.attached = r.attached /\ s.watching = w
  <1>1. PICK U : r \in FeatureIn(U) BY DEF IsFeature
  <1> QED BY <1>1 DEF Watching, IsFeature, FeatureIn

\* serviceObjectDestroyed()
LEMMA AbandonedSet ==
    ASSUME NEW r, IsFeature(r), NEW s, s = Abandoned(r)
    PROVE  /\ IsFeature(s) /\ s.so = none /\ s.initialized = FALSE /\ s.attached = FALSE
  <1>1. PICK U : r \in FeatureIn(U) BY DEF IsFeature
  <1>2. r \in FeatureIn(U \cup {none}) BY <1>1 DEF FeatureIn
  <1> QED BY <1>2 DEF Abandoned, IsFeature, FeatureIn

\* m_backendUpdatesEnabled
LEMMA UpdatingSet ==
    ASSUME NEW r, IsFeature(r), NEW w \in BOOLEAN, NEW s, s = Updating(r, w)
    PROVE  /\ IsFeature(s) /\ s.so = r.so /\ s.updates = w
           /\ s.initialized = r.initialized /\ s.attached = r.attached /\ s.watching = r.watching
  <1>1. PICK U : r \in FeatureIn(U) BY DEF IsFeature
  <1> QED BY <1>1 DEF Updating, IsFeature, FeatureIn

\* onInitializationDone()
LEMMA InitializedSet ==
    ASSUME NEW r, IsFeature(r), NEW s, s = Initialized(r)
    PROVE  /\ IsFeature(s) /\ s.so = r.so /\ s.updates = r.updates
           /\ s.initialized = TRUE /\ s.attached = r.attached /\ s.watching = r.watching
  <1>1. PICK U : r \in FeatureIn(U) BY DEF IsFeature
  <1> QED BY <1>1 DEF Initialized, IsFeature, FeatureIn

\* setServiceObject()
LEMMA SetIsSane ==
    ASSUME NEW f \in Features, NEW r, Sane(r), NEW so
    PROVE  /\ Sane(AfterSet(f, r, so))
           /\ AlwaysConnects /\ Alive(r) /\ (so # none => so \in proxies) => Alive(AfterSet(f, r, so))
  <1>1. PICK u : u = Unbound(r) OBVIOUS
  <1>2. /\ IsFeature(u) /\ u.so = none /\ u.updates = r.updates
        /\ u.attached = FALSE /\ u.initialized = FALSE
    <2>1. CASE r.so = none
      <3>1. u = r BY <1>1, <2>1 DEF Unbound
      <3>2. r.initialized \in BOOLEAN /\ r.attached \in BOOLEAN BY DEF Sane, IsFeature, FeatureIn
      <3> QED BY <2>1, <3>1, <3>2 DEF Sane
    <2>2. CASE r.so # none
      <3>1. PICK d : d = Disconnected(r) OBVIOUS
      <3>2. u = WithoutObject(d) BY <1>1, <2>2, <3>1 DEF Unbound, WithoutObject
      <3>3. IsFeature(d) /\ d.updates = r.updates /\ d.attached = FALSE /\ d.initialized = FALSE
        BY <3>1, DisconnectedSet DEF Sane
      <3> QED BY <3>2, <3>3, PointerCleared
    <2> QED BY <2>1, <2>2
  <1>3. Sane(u) /\ Alive(u) BY <1>2 DEF Sane, Alive
  <1>4. PICK set : set = WithPointer(u, so) OBVIOUS
  <1>5. /\ IsFeature(set) /\ set.so = so /\ set.updates = r.updates
        /\ set.attached = FALSE /\ set.initialized = FALSE
    BY <1>2, <1>4, PointerSet
  <1>6. PICK con : con = IF so # none /\ r.updates THEN Connected(f, set) ELSE set OBVIOUS
  <1>7. r.updates \in BOOLEAN BY DEF Sane, IsFeature, FeatureIn
  <1>8. /\ IsFeature(con) /\ con.so = so /\ con.updates = r.updates /\ con.initialized = FALSE
        /\ con.attached = TRUE => so # none /\ r.updates = TRUE /\ so[1] \notin Instanceless
        /\ (so # none /\ r.updates = TRUE /\ ~(f \in Demanding /\ so[1] \in Instanceless))
              => con.connected = TRUE
    <2>1. CASE so # none /\ r.updates = TRUE
      <3>1. con = Connected(f, set) BY <1>6, <2>1
      <3>2. IsFeature(set) BY <1>5
      <3>3. /\ IsFeature(con) /\ con.so = set.so /\ con.updates = set.updates
            /\ con.watching = set.watching /\ con.initialized = set.initialized
            /\ con.attached = TRUE => set.attached = TRUE \/ set.so[1] \notin Instanceless
        BY <3>1, <3>2, ConnectedSet
      <3>4. ~(f \in Demanding /\ so[1] \in Instanceless) => con.connected = TRUE
        BY <1>5, <3>1, <3>2, ConnectedWhen
      <3> QED BY <1>5, <2>1, <3>3, <3>4
    <2>2. CASE ~(so # none /\ r.updates = TRUE)
      <3>1. con = set BY <1>6, <1>7, <2>2
      <3> QED BY <1>5, <2>2, <3>1
    <2> QED BY <2>1, <2>2
  <1>9. PICK w \in BOOLEAN : w = (so # none /\ Watches(r, con)) OBVIOUS
  <1>10. PICK b : b = Watching(con, w) OBVIOUS
  <1>11. /\ IsFeature(b) /\ b.so = so /\ b.updates = r.updates /\ b.initialized = FALSE
         /\ b.attached = con.attached /\ b.watching = w
    BY <1>8, <1>10, WatchingSet
  <1>12. Bound(f, r, so) = b BY <1>1, <1>4, <1>6, <1>9, <1>10 DEF Bound, WithPointer, Watching
  <1>13. Sane(b) BY <1>8, <1>11 DEF Sane
  <1>14. ASSUME AlwaysConnects, so # none => so \in proxies, so # none => Accepts(f, so) PROVE Alive(b)
    <2>1. CASE so = none BY <1>11, <2>1 DEF Alive
    <2>2. CASE so # none
      <3>1. ~(f \in Demanding /\ so[1] \in Instanceless)
        BY <1>14, <2>2 DEF AlwaysConnects, Accepts
      <3>2. w = TRUE BY <1>7, <1>8, <1>9, <2>2, <3>1 DEF Watches
      <3> QED BY <1>11, <1>14, <2>2, <3>2 DEF Alive
    <2> QED BY <2>1, <2>2
  <1>15. \/ AfterSet(f, r, so) = r
         \/ AfterSet(f, r, so) = u
         \/ AfterSet(f, r, so) = b /\ (so # none => Accepts(f, so))
    BY <1>1, <1>12 DEF AfterSet
  <1> QED BY <1>3, <1>13, <1>14, <1>15

\* One feature is changed.
LEMMA OneFeatureChanges ==
    ASSUME FeaturesSane, NEW f, NEW s, f \in Features => Sane(s), feature' = [feature EXCEPT ![f] = s]
    PROVE  /\ FeaturesSane'
           /\ FeaturesAlive /\ UNCHANGED proxies /\ (f \in Features => Alive(s)) => FeaturesAlive'
  <1>1. \A g \in Features : feature'[g] = (IF g = f THEN s ELSE feature[g])
    BY DEF FeaturesSane
  <1>2. feature' = [g \in Features |-> feature'[g]] BY DEF FeaturesSane
  <1>3. FeaturesSane' BY <1>1, <1>2 DEF FeaturesSane, Sane
  <1>4. ASSUME FeaturesAlive, UNCHANGED proxies, f \in Features => Alive(s) PROVE FeaturesAlive'
    BY <1>1, <1>4 DEF FeaturesAlive, Alive
  <1> QED BY <1>3, <1>4

\* onServiceObjectFailure()
LEMMA FailureKeepsBinding ==
    ASSUME NEW r, IsFeature(r) PROVE SameBinding(r, AfterFailure(r))
  BY SearchChanges DEF AfterFailure

\* SetBackendUpdatesEnabled()
LEMMA UpdatesAreSane ==
    ASSUME FeaturesSane, NEW f \in Features, SetBackendUpdatesEnabled(f)
    PROVE  FeaturesSane' /\ (FeaturesAlive => FeaturesAlive')
  <1>1. PICK o, w : o = feature[f] /\ w = ~o.updates OBVIOUS
  <1>2. Sane(o) /\ IsFeature(o) /\ o.updates \in BOOLEAN /\ w \in BOOLEAN
    BY <1>1 DEF FeaturesSane, Sane, IsFeature, FeatureIn
  <1>3. PICK r : r = Updating(o, w) OBVIOUS
  <1>4. /\ IsFeature(r) /\ r.so = o.so /\ r.updates = w
        /\ r.initialized = o.initialized /\ r.attached = o.attached /\ r.watching = o.watching
    BY <1>2, <1>3, UpdatingSet
  <1>5. PICK s : s = IF r.so = none THEN r ELSE IF r.updates THEN Connected(f, r) ELSE Disconnected(r)
    OBVIOUS
  <1>6. feature' = [feature EXCEPT ![f] = s] /\ UNCHANGED managerVars
    BY <1>1, <1>3, <1>4, <1>5 DEF SetBackendUpdatesEnabled, Updating
  <1>7. w = TRUE \/ w = FALSE BY <1>2
  <1>8. Sane(s) /\ (Alive(o) => Alive(s))
    <2>1. CASE r.so = none
      <3>1. s = r BY <1>5, <2>1
      <3> QED BY <1>2, <1>4, <2>1, <3>1 DEF Sane, Alive
    <2>2. CASE r.so # none /\ w = TRUE
      <3>1. s = Connected(f, r) BY <1>4, <1>5, <2>2
      <3>2. o.updates = FALSE BY <1>1, <1>2, <2>2
      <3>3. r.attached # TRUE /\ r.initialized # TRUE BY <1>2, <1>4, <3>2 DEF Sane
      <3>4. /\ IsFeature(s) /\ s.so = r.so /\ s.updates = r.updates
            /\ s.watching = r.watching /\ s.initialized = r.initialized
            /\ s.attached = TRUE => r.attached = TRUE \/ r.so[1] \notin Instanceless
        <4>1. IsFeature(r) BY <1>4
        <4> QED BY <3>1, <4>1, ConnectedSet
      <3> QED BY <1>4, <2>2, <3>3, <3>4 DEF Sane, Alive
    <2>3. CASE r.so # none /\ w = FALSE
      <3>1. s = Disconnected(r) BY <1>4, <1>5, <2>3
      <3>2. /\ IsFeature(s) /\ s.so = r.so /\ s.watching = r.watching
            /\ s.attached = FALSE /\ s.initialized = FALSE
        BY <1>4, <3>1, DisconnectedSet
      <3> QED BY <1>4, <3>2 DEF Sane, Alive
    <2> QED BY <1>7, <2>1, <2>2, <2>3
  <1>9. FeaturesAlive => Alive(o) BY <1>1 DEF FeaturesAlive
  <1>10. UNCHANGED proxies BY <1>6 DEF managerVars
  <1> QED BY <1>6, <1>8, <1>9, <1>10, OneFeatureChanges

\* Calls and searches that leave what a feature is bound to
LEMMA SearchKeepsBinding ==
    ASSUME FeaturesSane, UNCHANGED proxies, NEW f, NEW s, feature' = [feature EXCEPT ![f] = s],
           f \in Features => SameBinding(feature[f], s)
    PROVE  FeaturesSane' /\ (FeaturesAlive => FeaturesAlive')
  <1>1. f \in Features => Sane(feature[f]) /\ (FeaturesAlive => Alive(feature[f]))
    BY DEF FeaturesSane, FeaturesAlive
  <1>2. f \in Features => Sane(s) /\ (FeaturesAlive => Alive(s)) BY <1>1, BindingStays
  <1> QED BY <1>2, OneFeatureChanges

\* onServiceObjectLoaded()
LEMMA NotifyIsSane ==
    ASSUME FeaturesSane, OnServiceObjectLoaded
    PROVE  FeaturesSane' /\ (AlwaysConnects /\ ProxyInv /\ FeaturesAlive => FeaturesAlive')
  <1>1. PICK f, h, r, so : /\ f = Caller /\ h = Head(stack).h /\ r = feature[f]
                           /\ so = ServiceObjectOf(h)
    OBVIOUS
  <1>2. PICK set : set = AfterSet(f, r, so) OBVIOUS
  <1>3. PICK next : next = [set EXCEPT !.index = @ + 1] OBVIOUS
  <1>4. UNCHANGED proxies BY DEF OnServiceObjectLoaded
  <1>5. \/ feature' = feature
        \/ \E x : feature' = [feature EXCEPT ![f] = [set EXCEPT !.index = 0, !.handles = <<>>, !.result = x]]
        \/ feature' = [feature EXCEPT ![f] = next]
        \/ feature' = [feature EXCEPT ![f] = AfterFailure(next)]
    BY <1>1, <1>2, <1>3 DEF OnServiceObjectLoaded, featureVars
  <1>6. ASSUME ProxyInv, so # none PROVE so \in proxies
    <2>1. IsLoaded(h) /\ so = ProxyOf(h[1]) BY <1>1, <1>6 DEF ServiceObjectOf
    <2> QED BY <1>6, <2>1 DEF IsLoaded, IsValid, ProxyInv
  <1>7. ASSUME f \in Features
        PROVE  /\ Sane(set) /\ IsFeature(set)
               /\ AlwaysConnects /\ ProxyInv /\ FeaturesAlive => Alive(set)
    <2>1. Sane(r) /\ (FeaturesAlive => Alive(r)) BY <1>1, <1>7 DEF FeaturesSane, FeaturesAlive
    <2>2. Sane(set) /\ (AlwaysConnects /\ Alive(r) /\ (so # none => so \in proxies) => Alive(set))
      BY <1>2, <1>7, <2>1, SetIsSane
    <2> QED BY <1>6, <2>1, <2>2 DEF Sane
  <1>8. ASSUME NEW s, f \in Features => SameBinding(set, s), feature' = [feature EXCEPT ![f] = s]
        PROVE  FeaturesSane' /\ (AlwaysConnects /\ ProxyInv /\ FeaturesAlive => FeaturesAlive')
    <2>1. f \in Features => /\ Sane(s)
                            /\ AlwaysConnects /\ ProxyInv /\ FeaturesAlive => Alive(s)
      BY <1>7, <1>8, BindingStays
    <2> QED BY <1>4, <1>8, <2>1, OneFeatureChanges
  <1>9. f \in Features => SameBinding(set, next)
    BY <1>3, <1>7, SearchChanges
  <1>10. f \in Features => SameBinding(set, AfterFailure(next))
    <2>1. f \in Features => SameBinding(next, AfterFailure(next))
      BY <1>9, FailureKeepsBinding DEF SameBinding
    <2> QED BY <1>9, <2>1 DEF SameBinding
  <1>11. \A x : f \in Features => SameBinding(set, [set EXCEPT !.index = 0, !.handles = <<>>, !.result = x])
    BY <1>7, SearchChanges
  <1>12. CASE feature' = feature
    BY <1>4, <1>12 DEF FeaturesSane, FeaturesAlive, Sane, Alive
  <1> QED BY <1>5, <1>8, <1>9, <1>10, <1>11, <1>12

\* serviceObjectDestroyed() and initializationDone() reach every feature.
LEMMA SlotsAreSane ==
    ASSUME FeaturesSane, ServiceObjectsDestroyed \/ \E p \in Plugins : InitializationDone(p)
    PROVE  FeaturesSane' /\ (FeaturesAlive => FeaturesAlive')
  <1>1. CASE ServiceObjectsDestroyed
    <2>1. feature' = [f \in Features |-> IF feature[f].watching /\ feature[f].so \notin proxies'
                                         THEN Abandoned(feature[f]) ELSE feature[f]]
      BY <1>1 DEF ServiceObjectsDestroyed
    <2>2. \A f \in Features : LET s == Abandoned(feature[f])
                              IN  IsFeature(s) /\ s.so = none /\ s.initialized = FALSE /\ s.attached = FALSE
      BY AbandonedSet DEF FeaturesSane, Sane
    <2>3. ASSUME NEW f \in Features PROVE Sane(feature'[f]) /\ (Alive(feature[f]) => Alive(feature[f])')
      <3>1. CASE feature[f].watching /\ feature[f].so \notin proxies'
        <4>1. feature'[f] = Abandoned(feature[f]) BY <2>1, <3>1
        <4> QED BY <2>2, <4>1 DEF Sane, Alive
      <3>2. CASE ~(feature[f].watching /\ feature[f].so \notin proxies')
        <4>1. feature'[f] = feature[f] BY <2>1, <3>2
        <4> QED BY <3>2, <4>1 DEF FeaturesSane, Sane, Alive
      <3> QED BY <3>1, <3>2
    <2>4. feature' = [f \in Features |-> feature'[f]] BY <2>1
    <2> QED BY <2>3, <2>4 DEF FeaturesSane, FeaturesAlive, Sane, Alive
  <1>2. ASSUME NEW p \in Plugins, InitializationDone(p) PROVE FeaturesSane' /\ (FeaturesAlive => FeaturesAlive')
    <2>1. feature' = [f \in Features |-> IF feature[f].attached /\ feature[f].so[1] = p
                                         THEN Initialized(feature[f]) ELSE feature[f]]
      BY <1>2 DEF InitializationDone, Initialized
    <2>2. proxies' = proxies BY <1>2 DEF InitializationDone, managerVars
    <2>3. ASSUME NEW f \in Features PROVE Sane(feature'[f]) /\ (Alive(feature[f]) => Alive(feature[f])')
      <3>1. CASE feature[f].attached /\ feature[f].so[1] = p
        <4>1. PICK r, s : r = feature[f] /\ s = Initialized(r) OBVIOUS
        <4>2. feature'[f] = s BY <2>1, <3>1, <4>1
        <4>3. Sane(r) /\ IsFeature(r) BY <4>1 DEF FeaturesSane, Sane
        <4>4. /\ IsFeature(s) /\ s.so = r.so /\ s.updates = r.updates
              /\ s.initialized = TRUE /\ s.attached = r.attached /\ s.watching = r.watching
          BY <4>1, <4>3, InitializedSet
        <4>5. r.attached = TRUE BY <3>1, <4>1, <4>3 DEF IsFeature, FeatureIn
        <4> QED BY <2>2, <4>1, <4>2, <4>3, <4>4, <4>5 DEF Sane, Alive
      <3>2. CASE ~(feature[f].attached /\ feature[f].so[1] = p)
        <4>1. feature'[f] = feature[f] BY <2>1, <3>2
        <4> QED BY <2>2, <4>1 DEF FeaturesSane, Sane, Alive
      <3> QED BY <3>1, <3>2
    <2>4. feature' = [f \in Features |-> feature'[f]] BY <2>1
    <2> QED BY <2>3, <2>4 DEF FeaturesSane, FeaturesAlive, Sane, Alive
  <1> QED BY <1>1, <1>2

\* Only the deletion of a backend takes a service object away.
LEMMA ProxiesGrow ==
    ASSUME ManagerInternal \/ ManagerCalls \/ Threads \/ HandlePosted
    PROVE  proxies \subseteq proxies'
  <1>1. CASE ManagerInternal
    BY <1>1 DEF ManagerInternal, SearchPlugins, CreateAll, CreateEach, WaitForLoad, ThreadJoined,
                SpinDone, CreateServiceObject, UseDeletedBackend, EmitServiceObjectLoaded, AddProxies
  <1>2. CASE ManagerCalls
    BY <1>2 DEF ManagerCalls, RegisterService, ReadServiceObjectRole, AddLibraryPath,
                FindServiceByInterface, UserLoad
  <1>3. CASE Threads BY <1>3 DEF Threads, ThreadLoads, RunningThreadDeleted, ThreadDeleted
  <1>4. CASE HandlePosted BY <1>4 DEF HandlePosted, AddProxies
  <1> QED BY <1>1, <1>2, <1>3, <1>4

\* Every step keeps what the features are bound to.
LEMMA FeaturesKept ==
    ASSUME FeaturesSane, [Next]_vars
    PROVE  FeaturesSane' /\ (AlwaysConnects /\ ProxyInv /\ FeaturesAlive => FeaturesAlive')
  <1>1. ASSUME feature' = feature, proxies \subseteq proxies'
        PROVE  FeaturesSane' /\ (FeaturesAlive => FeaturesAlive')
    <2>1. FeaturesSane' BY <1>1 DEF FeaturesSane, Sane
    <2>2. ASSUME FeaturesAlive PROVE FeaturesAlive' BY <1>1, <2>2 DEF FeaturesAlive, Alive
    <2> QED BY <2>1, <2>2
  <1>2. CASE ManagerKeeps
    BY <1>1, <1>2, ProxiesGrow DEF ManagerKeeps, featureVars
  <1>3. CASE ServiceObjectsDestroyed \/ \E p \in Plugins : InitializationDone(p)
    BY <1>3, SlotsAreSane
  <1>4. CASE Discover
    BY <1>1, <1>4 DEF Discover, featureVars
  <1>5. ASSUME NEW f \in Features PROVE Sane(feature[f]) /\ IsFeature(feature[f])
    BY DEF FeaturesSane, Sane
  <1>6. CASE ChooseHandles
    <2>1. PICK f, hs, i : feature' = [feature EXCEPT ![f] = [feature[f] EXCEPT !.handles = hs, !.index = i]]
      BY <1>6 DEF ChooseHandles
    <2>2. proxies' = proxies BY <1>6 DEF ChooseHandles
    <2>3. f \in Features => SameBinding(feature[f], [feature[f] EXCEPT !.handles = hs, !.index = i])
      BY <1>5, SearchChanges
    <2> QED BY <2>1, <2>2, <2>3, SearchKeepsBinding
  <1>7. CASE LoadCurrentHandle
    <2>1. PICK f : f = Caller OBVIOUS
    <2>2. /\ proxies' = proxies
          /\ feature' = feature \/ feature' = [feature EXCEPT ![f] = AfterFailure(feature[f])]
      BY <1>7, <2>1 DEF LoadCurrentHandle
    <2>3. f \in Features => SameBinding(feature[f], AfterFailure(feature[f]))
      BY <1>5, FailureKeepsBinding
    <2> QED BY <1>1, <2>2, <2>3, SearchKeepsBinding
  <1>8. CASE OnServiceObjectLoaded BY <1>8, NotifyIsSane
  <1>9. CASE FeatureCalls
    <2>1. PICK f \in Features :
             \/ StartAutoDiscovery(f)
             \/ \E so \in proxies \cup {none} : SetServiceObject(f, so)
             \/ SetBackendUpdatesEnabled(f)
             \/ \E mode \in DiscoveryModes : SetDiscoveryMode(f, mode)
             \/ SetAsynchronousBackendLoading(f)
             \/ \E wildcards \in Preferences : SetPreferredBackends(f, wildcards)
      BY <1>9 DEF FeatureCalls
    <2>2. PICK r : r = feature[f] OBVIOUS
    <2>3. Sane(r) /\ IsFeature(r) BY <1>5, <2>2
    <2>4. ASSUME NEW s, SameBinding(r, s), proxies' = proxies, feature' = [feature EXCEPT ![f] = s]
          PROVE  FeaturesSane' /\ (FeaturesAlive => FeaturesAlive')
      BY <2>2, <2>4, SearchKeepsBinding
    <2>5. CASE StartAutoDiscovery(f)
      <3>1. /\ proxies' = proxies
            /\ \/ feature' = [feature EXCEPT ![f] = [r EXCEPT !.result = "NoResult"]]
               \/ \E x : feature' = [feature EXCEPT ![f] = [r EXCEPT !.search = x]]
        BY <2>2, <2>5 DEF StartAutoDiscovery
      <3> QED BY <2>3, <2>4, <3>1, SearchChanges
    <2>6. CASE \E so \in proxies \cup {none} : SetServiceObject(f, so)
      <3>1. PICK so \in proxies \cup {none} : SetServiceObject(f, so) BY <2>6
      <3>2. UNCHANGED managerVars /\ feature' = [feature EXCEPT ![f] = AfterSet(f, r, so)]
        BY <2>2, <3>1 DEF SetServiceObject
      <3>3. proxies' = proxies BY <3>2 DEF managerVars
      <3>4. /\ Sane(AfterSet(f, r, so))
            /\ AlwaysConnects /\ Alive(r) => Alive(AfterSet(f, r, so))
        BY <2>3, SetIsSane
      <3>5. FeaturesAlive => Alive(r) BY <2>2 DEF FeaturesAlive
      <3> QED BY <3>2, <3>3, <3>4, <3>5, OneFeatureChanges
    <2>7. CASE SetBackendUpdatesEnabled(f) BY <2>7, UpdatesAreSane
    <2>8. CASE \E mode \in DiscoveryModes : SetDiscoveryMode(f, mode)
      <3>1. /\ UNCHANGED managerVars
            /\ \E x : feature' = [feature EXCEPT ![f] = [r EXCEPT !.mode = x]]
        BY <2>2, <2>8 DEF SetDiscoveryMode
      <3>2. proxies' = proxies BY <3>1 DEF managerVars
      <3> QED BY <2>3, <2>4, <3>1, <3>2, SearchChanges
    <2>9. CASE SetAsynchronousBackendLoading(f)
      <3>1. PICK b \in BOOLEAN : b = ~r.async
        <4>1. r.async \in BOOLEAN BY <2>3 DEF IsFeature, FeatureIn
        <4> QED BY <4>1
      <3>2. UNCHANGED managerVars /\ feature' = [feature EXCEPT ![f] = [r EXCEPT !.async = b]]
        BY <2>2, <2>9, <3>1 DEF SetAsynchronousBackendLoading
      <3>3. proxies' = proxies BY <3>2 DEF managerVars
      <3> QED BY <2>3, <2>4, <3>2, <3>3, SearchChanges
    <2>10. CASE \E wildcards \in Preferences : SetPreferredBackends(f, wildcards)
      <3>1. /\ UNCHANGED managerVars
            /\ \E x : feature' = [feature EXCEPT ![f] = [r EXCEPT !.preferred = x]]
        BY <2>2, <2>10 DEF SetPreferredBackends
      <3>2. proxies' = proxies BY <3>1 DEF managerVars
      <3> QED BY <2>3, <2>4, <3>1, <3>2, SearchChanges
    <2> QED BY <2>1, <2>5, <2>6, <2>7, <2>8, <2>9, <2>10
  <1>10. CASE UNCHANGED vars
    <2>1. feature' = feature /\ proxies' = proxies BY <1>10 DEF vars, featureVars, managerVars
    <2> QED BY <1>1, <2>1
  <1> QED BY <1>2, <1>3, <1>4, <1>6, <1>7, <1>8, <1>9, <1>10 DEF Next, FeatureInternal

\* A new feature is bound to nothing.
LEMMA FeaturesInitially ==
    ASSUME Init PROVE FeaturesSane /\ FeaturesAlive
  <1>1. PICK mode \in InitialModes, async \in [Features -> InitialAsync] :
           feature = [f \in Features |-> NewFeature(mode, async[f])]
    BY DEF Init
  <1>2. ASSUME NEW f \in Features PROVE Sane(feature[f]) /\ feature[f].so = none
    <2>1. async[f] \in BOOLEAN BY <1>2, FeatureAssumption DEF Features
    <2>2. PICK U : U = {none, mode, "NoResult", "production", <<>>, 0} OBVIOUS
    <2>3. /\ NewFeature(mode, async[f]) \in FeatureIn(U) /\ NewFeature(mode, async[f]).so = none
          /\ NewFeature(mode, async[f]).initialized = FALSE
          /\ NewFeature(mode, async[f]).attached = FALSE
      BY <2>1, <2>2 DEF NewFeature, FeatureIn
    <2>4. feature[f] = NewFeature(mode, async[f]) BY <1>1
    <2> QED BY <2>3, <2>4 DEF Sane, IsFeature
  <1> QED BY <1>1, <1>2 DEF FeaturesSane, FeaturesAlive, Alive

\* Whatever is set, discovered, paused and unloaded, a feature is initialized only
\* by the backend it is connected to (onInitializationDone(),
\* disconnectFromServiceObject(), serviceObjectDestroyed()).
THEOREM InitializedAreAttached == Spec => []InitializedMeansAttached
  <1>1. Init => FeaturesSane BY FeaturesInitially
  <1>2. FeaturesSane /\ [Next]_vars => FeaturesSane' BY FeaturesKept
  <1>3. FeaturesSane => InitializedMeansAttached
    BY DEF FeaturesSane, Sane, IsFeature, FeatureIn, InitializedMeansAttached
  <1> QED BY <1>1, <1>2, <1>3, PTL DEF Spec

\* No feature keeps a service object that was deleted, or whose backend was
\* (setServiceObject(), serviceObjectDestroyed(), ~Backend()): where a feature
\* that accepts a service object can connect to it, and a backend that has its
\* service object is not loaded again.
THEOREM BoundAreAlive ==
    ASSUME NoReload, AlwaysConnects PROVE Spec => []BoundIsAlive
  <1>1. Init => ServiceInv /\ FeaturesSane /\ FeaturesAlive
    BY SystemInitially, FeaturesInitially
  <1>2. /\ ServiceInv /\ FeaturesSane /\ FeaturesAlive /\ [Next]_vars
        => (ServiceInv /\ FeaturesSane /\ FeaturesAlive)'
    BY SystemKeepsServices, FeaturesKept DEF ServiceInv
  <1>3. ServiceInv /\ FeaturesAlive => BoundIsAlive
    <2> SUFFICES ASSUME ServiceInv, FeaturesAlive, NEW f \in Features, feature[f].so # none
                 PROVE  feature[f].so \in proxies /\ IsValid(<<feature[f].so[1], feature[f].so[2]>>)
      BY DEF BoundIsAlive, NoDanglingServiceObject, BackendIsAlive
    <2>1. PICK x \in proxies : x = feature[f].so BY DEF FeaturesAlive, Alive
    <2>2. x[1] \in Registered /\ x = <<x[1], life[x[1]], backend[x[1]].proxy>>
      BY DEF ServiceInv, ProxyInv, ProxyOf
    <2>3. x[2] = life[x[1]] BY <2>2
    <2> QED BY <2>1, <2>2, <2>3 DEF IsValid
  <1> QED BY <1>1, <1>2, <1>3, PTL DEF Spec

-----------------------------------------------------------------------------
(* The types of the system *)

Backends == Plugins \X Nat
CallOps == {"notify", "discover", "choose", "load"}
PlainOps == {"search", "register", "create", "createAll", "wait", "spin"}

\* The frames there are, and what they are about
Frames ==
    [op : PlainOps, h : Backends, to : {<<>>}, match : SUBSET Plugins]
    \cup [op : {"createEach"}, h : Backends, to : Seq(Backends), match : SUBSET Plugins]
    \cup [op : {"emit"}, h : Backends, to : Seq(ListenerSet), match : SUBSET Plugins]
    \cup [op : CallOps, h : Backends, to : {<<f>> : f \in Features}, match : SUBSET Plugins]

ManagerTypes ==
    /\ m_backends \in Seq(Plugins)
    /\ m_loadedPaths \subseteq Dirs
    /\ m_staticLoaded \in BOOLEAN
    /\ m_interfaceNames \subseteq Interfaces
    /\ libraryPaths \in Seq(Dirs)
    /\ life \in [Plugins -> Nat]
    /\ backend \in [Plugins -> BackendType]
    /\ proxies \subseteq Plugins \X Nat \X Nat
    /\ running \subseteq Backends
    /\ posted \in Seq(Events)
    /\ stack \in Seq(Frames)
    /\ waiting \subseteq Backends
    /\ fault \in Faults

\* Each frame has its type.
LEMMA FramesAre ==
    ASSUME NEW h \in Backends
    PROVE  /\ \A op \in PlainOps, m \in SUBSET Plugins : Frame(op, h, <<>>, m) \in Frames
           /\ \A q \in Seq(Backends) : Frame("createEach", h, q, {}) \in Frames
           /\ \A q \in Seq(ListenerSet) : Frame("emit", h, q, {}) \in Frames
           /\ \A op \in CallOps, f \in Features : Frame(op, h, <<f>>, {}) \in Frames
  BY DEF Frames, Frame

\* What can be read of a frame.
LEMMA FramesHave ==
    ASSUME NEW x \in Frames
    PROVE  /\ x.h \in Backends /\ x.match \in SUBSET Plugins
           /\ x.op \in Ops
           /\ x.op = "createEach" => x.to \in Seq(Backends)
           /\ x.op = "emit" => x.to \in Seq(ListenerSet)
           /\ x.op \in CallOps => x.to[1] \in Features /\ x.to = <<x.to[1]>>
  <1>1. CASE x \in [op : PlainOps, h : Backends, to : {<<>>}, match : SUBSET Plugins]
    BY <1>1 DEF PlainOps, Ops, CallOps
  <1>2. CASE x \in [op : {"createEach"}, h : Backends, to : Seq(Backends), match : SUBSET Plugins]
    BY <1>2 DEF Ops, CallOps
  <1>3. CASE x \in [op : {"emit"}, h : Backends, to : Seq(ListenerSet), match : SUBSET Plugins]
    BY <1>3 DEF Ops, CallOps
  <1>4. CASE x \in [op : CallOps, h : Backends, to : {<<f>> : f \in Features}, match : SUBSET Plugins]
    <2>1. PICK f \in Features : x.to = <<f>> BY <1>4
    <2>2. x.to[1] = f BY <2>1
    <2>3. x.op \notin {"createEach", "emit"} /\ x.op \in Ops BY <1>4 DEF CallOps, Ops
    <2> QED BY <1>4, <2>1, <2>2, <2>3
  <1> QED BY <1>1, <1>2, <1>3, <1>4 DEF Frames

\* A frame is one of those TypeOK names.
LEMMA FramesFit ==
    Seq(Frames) \subseteq Seq([op : Ops, h : Plugins \X Nat,
                               to : Seq(ListenerSet \cup (Plugins \X Nat)), match : SUBSET Plugins])
  <1> DEFINE F == [op : Ops, h : Plugins \X Nat,
                   to : Seq(ListenerSet \cup (Plugins \X Nat)), match : SUBSET Plugins]
  <1>1. ASSUME NEW x \in Frames PROVE x \in F
    <2>1. x.to \in Seq(ListenerSet \cup (Plugins \X Nat))
      <3>1. CASE x.op \in PlainOps
        <4>1. x.to = <<>> BY <3>1 DEF Frames, PlainOps, CallOps
        <4> QED BY <4>1
      <3>2. CASE x.op = "createEach"
        <4>1. x.to \in Seq(Backends) BY <3>2, FramesHave
        <4>2. Backends \subseteq ListenerSet \cup (Plugins \X Nat) BY DEF Backends
        <4> HIDE DEF Backends
        <4> QED BY <4>1, <4>2
      <3>3. CASE x.op = "emit"
        <4>1. x.to \in Seq(ListenerSet) BY <3>3, FramesHave
        <4>2. ListenerSet \subseteq ListenerSet \cup (Plugins \X Nat) OBVIOUS
        <4> HIDE DEF ListenerSet
        <4> QED BY <4>1
      <3>4. CASE x.op \in CallOps
        <4>1. x.to[1] \in ListenerSet /\ x.to = <<x.to[1]>> BY <3>4, FramesHave DEF Features
        <4>2. PICK f \in ListenerSet : x.to = <<f>> BY <4>1
        <4>3. PICK L : L = ListenerSet \cup (Plugins \X Nat) OBVIOUS
        <4>4. f \in L BY <4>3
        <4>5. <<f>> \in Seq(L) BY <4>4
        <4> QED BY <4>2, <4>3, <4>5
      <3> QED BY <3>1, <3>2, <3>3, <3>4 DEF Frames
    <2>2. x.h \in Plugins \X Nat /\ x.op \in Ops /\ x.match \in SUBSET Plugins
      BY FramesHave DEF Backends
    <2>3. x = [op |-> x.op, h |-> x.h, to |-> x.to, match |-> x.match] BY DEF Frames
    <2> HIDE DEF Frames
    <2> QED BY <2>1, <2>2, <2>3
  <1> HIDE DEF F
  <1>2. Frames \subseteq F BY <1>1
  <1>3. Seq(Frames) \subseteq Seq(F) BY <1>2
  <1> QED BY <1>3 DEF F

\* Calls that begin and end.
LEMMA StackMoves ==
    ASSUME NEW T, NEW q \in Seq(T)
    PROVE  /\ q # <<>> => Head(q) \in T /\ Tail(q) \in Seq(T)
           /\ \A x \in T : /\ <<x>> \o q \in Seq(T)
                           /\ q # <<>> => <<x>> \o Tail(q) \in Seq(T)
           /\ \A x, y \in T : /\ <<x, y>> \o q \in Seq(T)
                              /\ q # <<>> => <<x, y>> \o Tail(q) \in Seq(T)
           /\ \A p \in Seq(T) : /\ p \o q \in Seq(T)
                                /\ q # <<>> => p \o Tail(q) \in Seq(T)
  OBVIOUS

\* The frames that name no backend.
LEMMA NowhereIs == Nowhere \in Backends
  BY PluginsThere DEF Nowhere, Backends

\* findServiceByInterface() finds registered backends.
LEMMA FoundAreRegistered ==
    ASSUME m_backends \in Seq(Plugins), NEW match, NEW preferred
    PROVE  /\ Found(match, preferred) \in Seq(Plugins)
           /\ \A i \in DOMAIN Found(match, preferred) : Found(match, preferred)[i] \in Registered
  <1> DEFINE found == Chosen(m_backends, match)
             Pick(w) == Chosen(found, preferred[w])
             hits == {w \in DOMAIN preferred : Pick(w) # <<>>}
             R == Plugins \cap Registered
  <1>1. m_backends \in Seq(R) BY DEF Registered
  <1> HIDE DEF R
  <1>2. found \in Seq(R \cap match) BY <1>1, ChosenEntries
  <1>3. R \cap match \subseteq R OBVIOUS
  <1>4. found \in Seq(R) BY <1>2, <1>3
  <1> HIDE DEF found
  <1>5. ASSUME NEW w PROVE Pick(w) \in Seq(R)
    <2>1. Pick(w) \in Seq(R \cap preferred[w]) BY <1>4, ChosenEntries
    <2>2. R \cap preferred[w] \subseteq R OBVIOUS
    <2> QED BY <2>1, <2>2
  <1> HIDE DEF Pick
  <1>6. PICK w : w = CHOOSE v \in hits : \A u \in hits : v <= u OBVIOUS
  <1>7. Found(match, preferred) = found \/ Found(match, preferred) = Pick(w)
    BY <1>6 DEF Found, found, Pick
  <1>8. Found(match, preferred) \in Seq(R) BY <1>4, <1>5, <1>7
  <1>9. R \subseteq Plugins /\ R \subseteq Registered BY DEF R
  <1> QED BY <1>8, <1>9

\* The handles of what was found.
LEMMA HandlesOfFound ==
    ASSUME life \in [Plugins -> Nat], NEW found \in Seq(Plugins), NEW hs,
           hs = [i \in DOMAIN found |-> HandleOf(found[i])]
    PROVE  hs \in Seq(Backends) /\ DOMAIN hs = 1..Len(found) /\ (hs = <<>> <=> found = <<>>)
  <1>1. \A i \in DOMAIN found : HandleOf(found[i]) \in Backends BY DEF HandleOf, Backends
  <1>2. Len(found) \in Nat /\ DOMAIN found = 1..Len(found) OBVIOUS
  <1> HIDE DEF Backends
  <1>3. hs \in [1..Len(found) -> Backends] BY <1>1, <1>2
  <1>4. hs \in Seq(Backends) /\ Len(hs) = Len(found) BY <1>2, <1>3
  <1> QED BY <1>2, <1>3, <1>4

\* createServiceObject() of one handle after the other
LEMMA CreationsAre ==
    ASSUME NEW hs \in Seq(Backends)
    PROVE  Creations(hs) \in Seq(Frames)
  <1>1. CASE hs = <<>> BY <1>1 DEF Creations
  <1>2. CASE hs # <<>>
    <2>1. Head(hs) \in Backends /\ Tail(hs) \in Seq(Backends) BY <1>2
    <2>2. CreateFrame(Head(hs)) \in Frames
      BY <2>1, FramesAre DEF CreateFrame, PlainOps
    <2>3. Frame("createEach", Nowhere, Tail(hs), {}) \in Frames BY <2>1, FramesAre, NowhereIs
    <2>4. PICK x, y \in Frames : x = CreateFrame(Head(hs)) /\ y = Frame("createEach", Nowhere, Tail(hs), {})
      BY <2>2, <2>3
    <2>5. Creations(hs) = <<x>> \o (IF Tail(hs) = <<>> THEN <<>> ELSE <<y>>)
      BY <1>2, <2>4 DEF Creations
    <2> QED BY <2>5
  <1> QED BY <1>1, <1>2

\* The frames that the manager's own calls push
LEMMA ManagerFrames ==
    ASSUME ManagerTypes
    PROVE  /\ SearchFrame \in Frames
           /\ \A h \in Backends : CreateFrame(h) \in Frames /\ Emission(h) \in Frames
           /\ \A h \in Backends : CreateThenEmit(h) \in Seq(Frames)
           /\ \A ps \in Seq(Plugins) : RegisterFrames(ps) \in Seq(Frames)
           /\ \A h \in Backends : Frame("wait", h, <<>>, {}) \in Frames /\ Frame("spin", h, <<>>, {}) \in Frames
  <1>1. SearchFrame \in Frames BY FramesAre, NowhereIs DEF SearchFrame, PlainOps
  <1>2. ASSUME NEW h \in Backends
        PROVE  /\ CreateFrame(h) \in Frames /\ Emission(h) \in Frames
               /\ Frame("wait", h, <<>>, {}) \in Frames /\ Frame("spin", h, <<>>, {}) \in Frames
    <2>1. Listeners \in Seq(ListenerSet) BY ManagerAssumption
    <2> QED BY <2>1, FramesAre DEF CreateFrame, Emission, PlainOps
  <1>3. ASSUME NEW h \in Backends PROVE CreateThenEmit(h) \in Seq(Frames)
    <2>1. PICK x, y \in Frames : x = CreateFrame(h) /\ y = Emission(h) BY <1>2
    <2>2. CreateThenEmit(h) = <<x, y>> BY <2>1 DEF CreateThenEmit
    <2> QED BY <2>2
  <1>4. ASSUME NEW ps \in Seq(Plugins) PROVE RegisterFrames(ps) \in Seq(Frames)
    <2>1. \A i \in DOMAIN ps : Frame("register", <<ps[i], 0>>, <<>>, {}) \in Frames
      BY FramesAre DEF Backends, PlainOps
    <2>2. Len(ps) \in Nat /\ DOMAIN ps = 1..Len(ps) OBVIOUS
    <2> HIDE DEF Frames
    <2>3. RegisterFrames(ps) \in [1..Len(ps) -> Frames] BY <2>1, <2>2 DEF RegisterFrames
    <2> QED BY <2>2, <2>3
  <1> QED BY <1>1, <1>2, <1>3, <1>4

\* A step that changes the stack only, and the fault.
LEMMA StackTyped ==
    ASSUME ManagerTypes, stack' \in Seq(Frames), fault' \in Faults, waiting' \subseteq Backends,
           UNCHANGED <<registry, libraryPaths, backend, proxies, running, posted>>
    PROVE  ManagerTypes'
  BY DEF ManagerTypes, registry

\* `if (!backend->proxyServiceObject)`, and the posted completion
LEMMA ProxiesTyped ==
    ASSUME ManagerTypes, NEW p \in Plugins, NEW b \in BackendType,
           backend' = [backend EXCEPT ![p] = b], UNCHANGED life,
           AddProxies({p})
    PROVE  /\ backend' \in [Plugins -> BackendType]
           /\ proxies' \subseteq Plugins \X Nat \X Nat
  <1>1. backend' \in [Plugins -> BackendType] /\ backend'[p] = b BY DEF ManagerTypes
  <1>2. <<p, life[p], backend'[p].proxy>> \in Plugins \X Nat \X Nat
    BY <1>1 DEF ManagerTypes, BackendType
  <1> QED BY <1>1, <1>2 DEF AddProxies, ManagerTypes

\* An entry of a list in the place of another, and one more
LEMMA EntryReplaced ==
    ASSUME NEW T, NEW q \in Seq(T), NEW i, NEW x \in T
    PROVE  [q EXCEPT ![i] = x] \in Seq(T) /\ Append(q, x) \in Seq(T)
  <1>1. q \in [1..Len(q) -> T] /\ Len(q) \in Nat OBVIOUS
  <1>2. [q EXCEPT ![i] = x] \in [1..Len(q) -> T] BY <1>1
  <1>3. [q EXCEPT ![i] = x] \in Seq(T) BY <1>1, <1>2
  <1> QED BY <1>3

\* A Backend whose service object is made, or that is tried once more
BackendWith(b, n) == [b EXCEPT !.proxy = n, !.made = n]
TriedPosting(b, n) == [b EXCEPT !.loading = TRUE, !.tries = n]
TriedRunning(b, n) == [b EXCEPT !.loading = TRUE, !.thread = TRUE, !.tries = n]

\* With a number for each count these are Backends.
LEMMA BackendsCounted ==
    ASSUME NEW b \in BackendType, NEW n \in Nat
    PROVE  BackendWith(b, n) \in BackendType /\ TriedPosting(b, n) \in BackendType
           /\ TriedRunning(b, n) \in BackendType
  BY DEF BackendWith, TriedPosting, TriedRunning, BackendType

\* What a service object makes of its Backend.
LEMMA ProxyMadeTyped ==
    ASSUME NEW b \in BackendType
    PROVE  WithProxy(b) \in BackendType /\ \A i \in BOOLEAN : ProxyMadeOnce(b, i) \in BackendType
  <1>1. \A c \in BackendType : WithProxy(c) \in BackendType 
    <2> SUFFICES ASSUME NEW c \in BackendType PROVE WithProxy(c) \in BackendType OBVIOUS
    <2>1. c.made + 1 \in Nat BY DEF BackendType
    <2>2. WithProxy(c) = BackendWith(c, c.made + 1) BY DEF WithProxy, BackendWith
    <2> QED BY <2>1, <2>2, BackendsCounted
  <1>2. [b EXCEPT !.interface = TRUE] \in BackendType BY DEF BackendType
  <1> HIDE DEF BackendType
  <1> QED BY <1>1, <1>2 DEF ProxyMadeOnce

\* loadServiceObject()
LEMMA LoadTyped ==
    ASSUME ManagerTypes, NEW h \in Backends, NEW async, NEW frames \in Seq(Frames),
           LoadServiceObject(h, async, frames),
           UNCHANGED <<registry, libraryPaths, proxies, fault>>
    PROVE  ManagerTypes'
  <1>1. waiting' \subseteq Backends BY DEF LoadServiceObject, ManagerTypes
  <1>2. stack' \in Seq(Frames)
    <2>1. PICK p \in Seq(Frames) : p = CreateThenEmit(h) BY ManagerFrames
    <2>2. stack' = frames \/ stack' = p \o frames BY <2>1 DEF LoadServiceObject
    <2>3. p \o frames \in Seq(Frames) BY StackMoves
    <2> QED BY <2>2, <2>3
  <1>3. CASE UNCHANGED <<backend, running, posted>>
    BY <1>1, <1>2, <1>3 DEF ManagerTypes, registry
  <1>4. CASE BeginAsyncLoad(h[1]) /\ IsValid(h)
    <2>1. PICK p \in Plugins : p = h[1] BY DEF Backends
    <2>2. PICK b \in BackendType : b = backend[p] BY DEF ManagerTypes
    <2>3. /\ [b EXCEPT !.loading = TRUE, !.tries = @ + 1] \in BackendType
          /\ [b EXCEPT !.loading = TRUE, !.thread = TRUE, !.tries = @ + 1] \in BackendType
      <3>1. PICK n \in Nat : n = b.tries + 1 BY DEF BackendType
      <3>2. /\ [b EXCEPT !.loading = TRUE, !.tries = @ + 1] = TriedPosting(b, n)
            /\ [b EXCEPT !.loading = TRUE, !.thread = TRUE, !.tries = @ + 1] = TriedRunning(b, n)
        BY <3>1 DEF TriedPosting, TriedRunning, BackendType
      <3> QED BY <3>2, BackendsCounted
    <2>4. PICK c, d \in BackendType : /\ c = [b EXCEPT !.loading = TRUE, !.tries = @ + 1]
                                      /\ d = [b EXCEPT !.loading = TRUE, !.thread = TRUE, !.tries = @ + 1]
      BY <2>3
    <2>5. \/ UNCHANGED <<backend, running, posted>>
          \/ /\ backend' = [backend EXCEPT ![p] = c]
             /\ posted' = Append(posted, [h |-> HandleOf(p), interface |-> TRUE])
             /\ UNCHANGED running
          \/ /\ backend' = [backend EXCEPT ![p] = d]
             /\ running' = running \cup {HandleOf(p)}
             /\ UNCHANGED posted
      BY <1>4, <2>1, <2>2, <2>4 DEF BeginAsyncLoad
    <2>6. HandleOf(p) \in Backends BY DEF HandleOf, Backends, ManagerTypes
    <2>7. PICK e \in Events : e = [h |-> HandleOf(p), interface |-> TRUE] BY <2>6 DEF Events, Backends
    <2>8. posted' \in Seq(Events) /\ running' \subseteq Backends
      <3>1. posted \in Seq(Events) /\ running \subseteq Backends BY DEF ManagerTypes
      <3>2. Append(posted, e) \in Seq(Events) BY <3>1, EntryReplaced
      <3>3. posted' = posted \/ posted' = Append(posted, e) BY <2>5, <2>7
      <3>4. running' = running \/ running' = running \cup {HandleOf(p)} BY <2>5
      <3> QED BY <2>6, <3>1, <3>2, <3>3, <3>4
    <2>9. backend' \in [Plugins -> BackendType] BY <2>5 DEF ManagerTypes
    <2> QED BY <1>1, <1>2, <2>8, <2>9 DEF ManagerTypes, registry
  <1> QED BY <1>3, <1>4 DEF LoadServiceObject

\* A new Backend
LEMMA AddTyped ==
    ASSUME ManagerTypes, AddBackend PROVE ManagerTypes'
  <1>1. stack # <<>> /\ Head(stack) \in Frames /\ Tail(stack) \in Seq(Frames)
    BY StackMoves DEF AddBackend, Top, ManagerTypes
  <1>2. PICK p \in Plugins : p = Head(stack).h[1] BY <1>1, FramesHave DEF Backends
  <1>3. NewBackend(p) \in BackendType BY DEF NewBackend, BackendType
  <1>4. PICK b \in BackendType : b = NewBackend(p) BY <1>3
  <1>5. stack' \in Seq(Frames) BY <1>1 DEF AddBackend
  <1>6. PICK i : i = FirstRival(p) OBVIOUS
  <1>7. /\ UNCHANGED <<m_loadedPaths, m_staticLoaded, libraryPaths,
                       running, posted, waiting, fault>>
        /\ \/ UNCHANGED <<m_backends, m_interfaceNames, life, backend, proxies>>
           \/ /\ life' = [life EXCEPT ![p] = @ + 1]
              /\ m_interfaceNames' = m_interfaceNames \cup Implements[p]
              /\ backend' = [backend EXCEPT ![p] = b]
              /\ proxies' \subseteq proxies
              /\ m_backends' = [m_backends EXCEPT ![i] = p] \/ m_backends' = Append(m_backends, p)
    BY <1>2, <1>4, <1>6 DEF AddBackend
  <1>8. life' \in [Plugins -> Nat] /\ backend' \in [Plugins -> BackendType]
    <2>1. life \in [Plugins -> Nat] /\ backend \in [Plugins -> BackendType] BY DEF ManagerTypes
    <2>2. life' = life \/ life' = [life EXCEPT ![p] = @ + 1] BY <1>7
    <2>3. backend' = backend \/ backend' = [backend EXCEPT ![p] = b] BY <1>7
    <2>4. [life EXCEPT ![p] = @ + 1] \in [Plugins -> Nat] BY <2>1
    <2> QED BY <2>1, <2>2, <2>3, <2>4
  <1>9. m_backends' \in Seq(Plugins)
    <2>1. m_backends \in Seq(Plugins) BY DEF ManagerTypes
    <2>2. [m_backends EXCEPT ![i] = p] \in Seq(Plugins) BY <2>1, EntryReplaced
    <2>3. Append(m_backends, p) \in Seq(Plugins) BY <2>1, EntryReplaced
    <2> QED BY <1>7, <2>1, <2>2, <2>3
  <1>10. m_interfaceNames' \subseteq Interfaces BY <1>7, ManagerAssumption DEF ManagerTypes
  <1> QED BY <1>5, <1>7, <1>8, <1>9, <1>10 DEF ManagerTypes

\* The posted completion
LEMMA HandleTyped ==
    ASSUME ManagerTypes, HandlePosted PROVE ManagerTypes'
  <1>1. posted # <<>> /\ posted \in Seq(Events) BY DEF HandlePosted, ManagerTypes
  <1>2. Head(posted) \in Events /\ posted' \in Seq(Events)
    <2>1. posted' = Tail(posted) BY DEF HandlePosted
    <2> QED BY <1>1, <2>1, StackMoves
  <1>3. PICK h \in Backends : h = Head(posted).h BY <1>2 DEF Events, Backends
  <1>4. PICK p \in Plugins : p = h[1] BY DEF Backends
  <1>5. [backend[p] EXCEPT !.loading = FALSE, !.interface = Head(posted).interface] \in BackendType
    BY <1>2 DEF Events, BackendType, ManagerTypes
  <1>6. PICK b \in BackendType : b = [backend[p] EXCEPT !.loading = FALSE, !.interface = Head(posted).interface]
    BY <1>5
  <1>7. PICK c \in BackendType : c = IF b.interface THEN WithProxy(b) ELSE b BY ProxyMadeTyped
  <1>8. /\ UNCHANGED <<registry, libraryPaths, running, waiting>>
        /\ \/ /\ IsValid(h)
              /\ backend' = [backend EXCEPT ![p] = c]
              /\ AddProxies({p})
              /\ stack' = <<Emission(h)>> \o stack
              /\ UNCHANGED fault
           \/ /\ fault' = "deleted backend"
              /\ UNCHANGED <<backend, proxies, stack>>
    BY <1>3, <1>4, <1>6, <1>7 DEF HandlePosted, Signal
  <1>9. CASE fault' = "deleted backend" /\ UNCHANGED <<backend, proxies, stack>>
    BY <1>2, <1>8, <1>9 DEF ManagerTypes, registry, Faults
  <1>10. CASE /\ backend' = [backend EXCEPT ![p] = c]
              /\ AddProxies({p})
              /\ stack' = <<Emission(h)>> \o stack
              /\ UNCHANGED fault
    <2>1. life' = life BY <1>8 DEF registry
    <2>2. /\ backend' \in [Plugins -> BackendType]
          /\ proxies' \subseteq Plugins \X Nat \X Nat
      BY <1>10, <2>1, ProxiesTyped
    <2>3. PICK x \in Frames : x = Emission(h) BY ManagerFrames
    <2>4. stack' \in Seq(Frames) BY <1>10, <2>3, StackMoves DEF ManagerTypes
    <2> QED BY <1>2, <1>8, <1>10, <2>2, <2>4 DEF ManagerTypes, registry
  <1> QED BY <1>8, <1>9, <1>10

\* Every step of the manager leaves its variables well-typed.
LEMMA ManagerTyped ==
    ASSUME ManagerTypes, [ManagerNext]_managerVars PROVE ManagerTypes'
  <1> DEFINE h == Head(stack).h
  <1>1. /\ stack \in Seq(Frames) /\ fault \in Faults /\ waiting \subseteq Backends
        /\ stack # <<>> => /\ Head(stack) \in Frames /\ Tail(stack) \in Seq(Frames)
                           /\ h \in Backends /\ Head(stack).match \in SUBSET Plugins
    BY StackMoves, FramesHave DEF ManagerTypes
  <1>2. "no thread to wait for" \in Faults /\ "deleted backend" \in Faults /\ "running thread deleted" \in Faults
    BY DEF Faults
  <1>3. ASSUME NEW p \in Seq(Frames),
               stack' = p \o stack \/ (stack # <<>> /\ stack' = p \o Tail(stack)),
               fault' = fault, waiting' \subseteq Backends,
               UNCHANGED <<registry, libraryPaths, backend, proxies, running, posted>>
        PROVE  ManagerTypes'
    <2>1. stack' \in Seq(Frames) BY <1>1, <1>3, StackMoves
    <2> QED BY <1>1, <1>3, <2>1, StackTyped
  <1>4. \A x \in Frames : <<x>> \in Seq(Frames) OBVIOUS
  <1>5. \A x, y \in Frames : <<x, y>> \in Seq(Frames) OBVIOUS
  <1>6. CASE SearchPlugins
    <2>1. \A i \in DOMAIN libraryPaths : libraryPaths[i] \in Dirs BY DEF ManagerTypes
    <2>2. \A i \in DOMAIN libraryPaths : Content[libraryPaths[i]] \in Seq(Plugins)
      BY <2>1, ManagerAssumption
    <2>3. /\ \A i \in DOMAIN libraryPaths : RegisterFrames(Content[libraryPaths[i]]) \in Seq(Frames)
          /\ RegisterFrames(StaticPlugins) \in Seq(Frames) /\ <<>> \in Seq(Frames)
      BY <2>2, ManagerAssumption, ManagerFrames
    <2>4. /\ stack # <<>>
          /\ UNCHANGED <<m_backends, m_interfaceNames, life, libraryPaths, backend, proxies,
                         running, posted, waiting, fault>>
          /\ \/ \E i \in DOMAIN libraryPaths :
                   /\ m_loadedPaths' = m_loadedPaths \cup {libraryPaths[i]}
                   /\ stack' = RegisterFrames(Content[libraryPaths[i]]) \o stack
                   /\ UNCHANGED m_staticLoaded
             \/ /\ m_staticLoaded' = TRUE /\ UNCHANGED m_loadedPaths
                /\ \/ stack' = <<>> \o Tail(stack)
                   \/ stack' = RegisterFrames(StaticPlugins) \o Tail(stack)
      BY <1>6 DEF SearchPlugins, Top, NewDirs
    <2>5. m_loadedPaths' \subseteq Dirs /\ m_staticLoaded' \in BOOLEAN
      BY <2>1, <2>4 DEF ManagerTypes
    <2>6. PICK p \in Seq(Frames) : stack' = p \o stack \/ stack' = p \o Tail(stack)
      BY <2>3, <2>4
    <2>7. stack' \in Seq(Frames) BY <1>1, <2>4, <2>6, StackMoves
    <2> QED BY <2>4, <2>5, <2>7 DEF ManagerTypes
  <1>7. CASE CreateAll
    <2>1. PICK hs : hs = [i \in DOMAIN Found(Head(stack).match, <<>>) |-> HandleOf(Found(Head(stack).match, <<>>)[i])]
      OBVIOUS
    <2>2. hs \in Seq(Backends) BY <2>1, FoundAreRegistered, HandlesOfFound DEF ManagerTypes
    <2>3. PICK p \in Seq(Frames) : p = Creations(hs) BY <2>2, CreationsAre
    <2>4. stack' = p \o Tail(stack) BY <1>7, <2>1, <2>3 DEF CreateAll
    <2> QED BY <1>1, <1>3, <1>7, <2>4 DEF CreateAll, Top
  <1>8. CASE CreateEach
    <2>1. Head(stack).to \in Seq(Backends) BY <1>1, <1>8, FramesHave DEF CreateEach, Top
    <2>2. PICK p \in Seq(Frames) : p = Creations(Head(stack).to) BY <2>1, CreationsAre
    <2> QED BY <1>1, <1>3, <1>8, <2>2 DEF CreateEach, Top
  <1>9. CASE WaitForLoad
    <2>1. PICK x \in Frames : x = Frame("wait", h, <<>>, {})
      BY <1>1, <1>9, ManagerFrames DEF WaitForLoad, Top
    <2>2. stack' \in Seq(Frames) /\ fault' \in Faults
      <3>1. stack # <<>> /\ (stack' = stack \/ stack' = <<x>> \o Tail(stack))
        BY <1>9, <2>1 DEF WaitForLoad, Top
      <3> QED BY <1>1, <1>2, <1>9, <3>1, StackMoves DEF WaitForLoad
    <2> QED BY <1>1, <1>9, <2>2, StackTyped DEF WaitForLoad
  <1>10. CASE ThreadJoined
    <2>1. PICK x \in Frames : x = Frame("spin", h, <<>>, {})
      BY <1>1, <1>10, ManagerFrames DEF ThreadJoined, Top
    <2> QED BY <1>1, <1>3, <1>4, <1>10, <2>1 DEF ThreadJoined, Top
  <1>11. CASE SpinDone
    <2>1. PICK x \in Frames : x = CreateFrame(h)
      BY <1>1, <1>11, ManagerFrames DEF SpinDone, Top
    <2> QED BY <1>1, <1>3, <1>4, <1>11, <2>1 DEF SpinDone, Top
  <1>12. CASE CreateServiceObject
    <2>1. stack # <<>> BY <1>12 DEF CreateServiceObject, Top
    <2>2. PICK p \in Plugins : p = h[1] BY <1>1, <2>1 DEF Backends
    <2>3. backend[p].interface \in BOOLEAN /\ backend[p] \in BackendType BY DEF ManagerTypes, BackendType
    <2>4. PICK i \in BOOLEAN : i = (backend[p].interface \/ p \in Loadable) BY <2>3
    <2>5. PICK b \in BackendType : b = ProxyMadeOnce(backend[p], i) BY <2>3, ProxyMadeTyped
    <2>6. /\ backend' = [backend EXCEPT ![p] = b] /\ AddProxies({p})
          /\ stack' = Tail(stack)
          /\ UNCHANGED <<registry, libraryPaths, running, posted, waiting, fault>>
      BY <1>12, <2>2, <2>4, <2>5 DEF CreateServiceObject
    <2>7. life' = life BY <2>6 DEF registry
    <2>8. /\ backend' \in [Plugins -> BackendType]
          /\ proxies' \subseteq Plugins \X Nat \X Nat
      BY <2>6, <2>7, ProxiesTyped
    <2> QED BY <1>1, <2>1, <2>6, <2>8 DEF ManagerTypes, registry
  <1>13. CASE UseDeletedBackend
    BY <1>1, <1>2, <1>13, StackTyped DEF UseDeletedBackend
  <1>14. CASE EmitServiceObjectLoaded
    <2>1. stack # <<>> /\ Head(stack).op = "emit" /\ h \in Backends
      BY <1>1, <1>14 DEF EmitServiceObjectLoaded, Top
    <2>2. PICK to \in Seq(ListenerSet) : to = Head(stack).to BY <1>1, <2>1, FramesHave
    <2>3. waiting' \subseteq Backends BY <1>1, <1>14 DEF EmitServiceObjectLoaded
    <2>4. CASE to = <<>>
      <3>1. stack' = Tail(stack) BY <1>14, <2>2, <2>4 DEF EmitServiceObjectLoaded
      <3>3. /\ UNCHANGED <<registry, libraryPaths, backend, proxies, running, posted>>
            /\ fault' = fault
        BY <1>14 DEF EmitServiceObjectLoaded
      <3>4. stack' \in Seq(Frames) BY <1>1, <2>1, <3>1
      <3> QED BY <1>1, <2>3, <3>3, <3>4, StackTyped
    <2>5. CASE to # <<>>
      <3>1. Head(to) \in Features /\ Tail(to) \in Seq(ListenerSet) BY <2>5 DEF Features
      <3>2. PICK x, y \in Frames : /\ x = Frame("notify", h, <<Head(to)>>, {})
                                   /\ y = Frame("emit", h, Tail(to), {})
        BY <2>1, <3>1, FramesAre DEF CallOps
      <3>3. stack' = <<x, y>> \o Tail(stack)
        BY <1>14, <2>2, <2>5, <3>2 DEF EmitServiceObjectLoaded
      <3> QED BY <1>3, <1>5, <1>14, <2>1, <2>3, <3>2, <3>3 DEF EmitServiceObjectLoaded
    <2> QED BY <2>4, <2>5
  <1>15. CASE \E p \in Plugins : RegisterService(p) \/ ReadServiceObjectRole(p)
    <2>1. PICK p \in Plugins : RegisterService(p) \/ ReadServiceObjectRole(p) BY <1>15
    <2>2. <<p>> \in Seq(Plugins) /\ HandleOf(p) \in Backends BY DEF HandleOf, Backends, ManagerTypes
    <2>3. RegisterFrames(<<p>>) \in Seq(Frames) /\ <<CreateFrame(HandleOf(p))>> \in Seq(Frames)
      BY <1>4, <2>2, ManagerFrames
    <2>4. PICK q \in Seq(Frames) : stack' = q \o stack
      BY <2>1, <2>3 DEF RegisterService, ReadServiceObjectRole
    <2>5. UNCHANGED <<registry, libraryPaths, backend, proxies, running, posted, waiting, fault>>
      BY <2>1 DEF RegisterService, ReadServiceObjectRole
    <2>6. stack' \in Seq(Frames) BY <1>1, <2>4, StackMoves
    <2> QED BY <1>1, <2>5, <2>6, StackTyped
  <1>16. CASE \E d \in Dirs : AddLibraryPath(d)
    <2>1. PICK d \in Dirs : libraryPaths' = <<d>> \o libraryPaths BY <1>16 DEF AddLibraryPath
    <2>2. libraryPaths' \in Seq(Dirs) BY <2>1 DEF ManagerTypes
    <2> QED BY <1>16, <2>2 DEF AddLibraryPath, ManagerTypes, registry
  <1>17. CASE \E i \in Interfaces, flags \in (SUBSET {"production", "simulation"}) \ {{}} :
                 FindServiceByInterface(i, flags)
    <2>1. PICK i \in Interfaces, flags \in SUBSET {"production", "simulation"} : FindServiceByInterface(i, flags) BY <1>17
    <2>2. Matching(i, flags) \in SUBSET Plugins BY DEF Matching
    <2>3. PICK x, y \in Frames : x = SearchFrame /\ y = Frame("createAll", Nowhere, <<>>, Matching(i, flags))
      BY <2>2, FramesAre, ManagerFrames, NowhereIs DEF PlainOps
    <2>4. stack' = <<x, y>> \o stack BY <2>1, <2>3 DEF FindServiceByInterface
    <2>5. UNCHANGED <<registry, libraryPaths, backend, proxies, running, posted, waiting, fault>>
      BY <2>1 DEF FindServiceByInterface
    <2>6. stack' \in Seq(Frames) BY <1>1, <2>3, <2>4, StackMoves
    <2> QED BY <1>1, <2>5, <2>6, StackTyped
  <1>18. CASE \E g \in Handles, async \in BOOLEAN : UserLoad(g, async)
    <2>1. PICK g \in Handles, async \in BOOLEAN : UserLoad(g, async) BY <1>18
    <2>2. g \in Backends BY ManagerAssumption DEF Handles, Backends
    <2> QED BY <1>1, <2>1, <2>2, LoadTyped DEF UserLoad
  <1>19. CASE ManagerDeletes
    <2>1. CASE AddBackend BY <2>1, AddTyped
    <2>2. CASE UnloadAllBackends
      <3>1. <<>> \in Seq(Plugins) OBVIOUS
      <3> QED BY <2>2, <3>1 DEF UnloadAllBackends, NotSearched, ManagerTypes
    <2> QED BY <1>19, <2>1, <2>2 DEF ManagerDeletes
  <1>20. CASE Threads
    <2>1. CASE \E g \in Handles : ThreadLoads(g)
      <3>1. PICK g \in Handles : ThreadLoads(g) BY <2>1
      <3>2. PICK e : e = [h |-> g, interface |-> g[1] \in Loadable] OBVIOUS
      <3>3. g \in running /\ g \in Plugins \X Nat BY <3>1 DEF ThreadLoads, ManagerTypes, Backends
      <3>4. e \in Events BY <3>2, <3>3 DEF Events
      <3>5. posted' = posted \o <<e>> BY <3>1, <3>2 DEF ThreadLoads, Posts
      <3>6. posted' \in Seq(Events) BY <3>4, <3>5 DEF ManagerTypes
      <3> QED BY <3>1, <3>6 DEF ThreadLoads, ManagerTypes, registry
    <2>2. CASE \E g \in Handles : RunningThreadDeleted(g)
      BY <1>1, <1>2, <2>2, StackTyped DEF RunningThreadDeleted
    <2>3. CASE \E p \in Plugins : ThreadDeleted(p)
      <3>1. PICK p \in Plugins : backend' = [backend EXCEPT ![p].thread = FALSE] BY <2>3 DEF ThreadDeleted
      <3>2. backend' \in [Plugins -> BackendType] BY <3>1 DEF ManagerTypes, BackendType
      <3> QED BY <2>3, <3>2 DEF ThreadDeleted, ManagerTypes, registry
    <2> QED BY <1>20, <2>1, <2>2, <2>3 DEF Threads
  <1>21. CASE HandlePosted BY <1>21, HandleTyped
  <1>22. CASE UNCHANGED managerVars BY <1>22 DEF managerVars, ManagerTypes, registry
  <1> QED BY <1>6, <1>7, <1>8, <1>9, <1>10, <1>11, <1>12, <1>13, <1>14, <1>15, <1>16, <1>17, <1>18,
             <1>19, <1>20, <1>21, <1>22
          DEF ManagerNext, ManagerInternal, ManagerCalls

ServiceObjectOrNone == ServiceObjects \cup {none}
FeatureType ==
    [so : ServiceObjectOrNone, mode : DiscoveryModes, result : DiscoveryResults,
     search : {"production", "simulation"}, handles : Seq(Backends), index : Nat,
     preferred : Preferences, async : BOOLEAN, updates : BOOLEAN, initialized : BOOLEAN,
     connected : BOOLEAN, attached : BOOLEAN, watching : BOOLEAN]

\* What the binding leaves of the search
SameSearch(r, s) ==
    /\ s.mode = r.mode /\ s.search = r.search /\ s.handles = r.handles /\ s.index = r.index

\* setServiceObject(), connecting and disconnecting leave a well-typed feature and its search.
LEMMA BindingTyped ==
    ASSUME NEW f, NEW r \in FeatureType
    PROVE  /\ Connected(f, r) \in FeatureType /\ SameSearch(r, Connected(f, r))
           /\ Disconnected(r) \in FeatureType /\ SameSearch(r, Disconnected(r))
           /\ Unbound(r) \in FeatureType /\ SameSearch(r, Unbound(r))
           /\ Abandoned(r) \in FeatureType /\ SameSearch(r, Abandoned(r))
           /\ Initialized(r) \in FeatureType /\ SameSearch(r, Initialized(r))
           /\ \A w \in BOOLEAN : /\ Watching(r, w) \in FeatureType /\ SameSearch(r, Watching(r, w))
                                 /\ Updating(r, w) \in FeatureType /\ SameSearch(r, Updating(r, w))
           /\ \A so \in ServiceObjectOrNone : WithPointer(r, so) \in FeatureType /\ SameSearch(r, WithPointer(r, so))
  <1>1. Disconnected(r) \in FeatureType /\ SameSearch(r, Disconnected(r))
    BY DEF Disconnected, FeatureType, SameSearch
  <1>2. Connected(f, r) \in FeatureType /\ SameSearch(r, Connected(f, r))
    <2>1. PICK v \in BOOLEAN : v = (r.so[1] \notin Instanceless) OBVIOUS
    <2>2. Connected(f, r) = r \/ Connected(f, r) = [r EXCEPT !.connected = TRUE, !.attached = v]
      BY <2>1 DEF Connected
    <2>3. /\ [r EXCEPT !.connected = TRUE, !.attached = v] \in FeatureType
          /\ SameSearch(r, [r EXCEPT !.connected = TRUE, !.attached = v])
          /\ SameSearch(r, r)
      BY DEF FeatureType, SameSearch
    <2> QED BY <2>2, <2>3
  <1>3. none \in ServiceObjectOrNone BY DEF ServiceObjectOrNone
  <1>4. Abandoned(r) \in FeatureType /\ SameSearch(r, Abandoned(r))
    BY <1>3 DEF Abandoned, FeatureType, SameSearch
  <1>5. Unbound(r) \in FeatureType /\ SameSearch(r, Unbound(r))
    BY <1>3 DEF Unbound, Disconnected, FeatureType, SameSearch
  <1>6. Initialized(r) \in FeatureType /\ SameSearch(r, Initialized(r))
    BY DEF Initialized, FeatureType, SameSearch
  <1>7. \A w \in BOOLEAN : /\ Watching(r, w) \in FeatureType /\ SameSearch(r, Watching(r, w))
                           /\ Updating(r, w) \in FeatureType /\ SameSearch(r, Updating(r, w))
    BY DEF Watching, Updating, FeatureType, SameSearch
  <1>8. \A so \in ServiceObjectOrNone : WithPointer(r, so) \in FeatureType /\ SameSearch(r, WithPointer(r, so))
    BY DEF WithPointer, FeatureType, SameSearch
  <1> QED BY <1>1, <1>2, <1>4, <1>5, <1>6, <1>7, <1>8

\* A feature that has been given a service object, or lost one, is a feature and searches what it has.
LEMMA SetTyped ==
    ASSUME NEW f, NEW r \in FeatureType, NEW so \in ServiceObjectOrNone
    PROVE  AfterSet(f, r, so) \in FeatureType /\ SameSearch(r, AfterSet(f, r, so))
  <1>1. PICK u \in FeatureType : u = Unbound(r) /\ SameSearch(r, u) BY BindingTyped
  <1>2. PICK set \in FeatureType : set = WithPointer(u, so) /\ SameSearch(u, set) BY BindingTyped
  <1>3. PICK con \in FeatureType : /\ con = IF so # none /\ r.updates THEN Connected(f, set) ELSE set
                                   /\ SameSearch(set, con)
    <2>1. SameSearch(set, set) BY DEF SameSearch
    <2> QED BY <2>1, BindingTyped
  <1>4. PICK w \in BOOLEAN : w = (so # none /\ Watches(r, con)) OBVIOUS
  <1>5. PICK b \in FeatureType : b = Watching(con, w) /\ SameSearch(con, b) BY BindingTyped
  <1>6. Bound(f, r, so) = b BY <1>1, <1>2, <1>3, <1>4, <1>5 DEF Bound, WithPointer, Watching
  <1>7. AfterSet(f, r, so) \in {r, u, b} BY <1>1, <1>6 DEF AfterSet
  <1>8. SameSearch(r, r) /\ SameSearch(r, u) /\ SameSearch(r, b)
    BY <1>1, <1>2, <1>3, <1>5 DEF SameSearch
  <1> QED BY <1>7, <1>8

\* What the search makes of a feature
LEMMA SearchTyped ==
    ASSUME NEW r \in FeatureType
    PROVE  /\ \A x \in DiscoveryModes : [r EXCEPT !.mode = x] \in FeatureType
           /\ \A x \in DiscoveryResults : [r EXCEPT !.result = x] \in FeatureType
           /\ \A x \in {"production", "simulation"} : [r EXCEPT !.search = x] \in FeatureType
           /\ \A x \in Preferences : [r EXCEPT !.preferred = x] \in FeatureType
           /\ \A x \in BOOLEAN : [r EXCEPT !.async = x] \in FeatureType
           /\ \A x \in Nat : [r EXCEPT !.index = x] \in FeatureType
           /\ \A x \in Nat, y \in Seq(Backends) : [r EXCEPT !.handles = y, !.index = x] \in FeatureType
           /\ \A x \in DiscoveryResults : [r EXCEPT !.index = 0, !.handles = <<>>, !.result = x] \in FeatureType
           /\ AfterFailure(r) \in FeatureType
  <1>1. <<>> \in Seq(Backends) OBVIOUS
  <1>2. "ErrorWhileLoading" \in DiscoveryResults BY DEF DiscoveryResults
  <1>3. /\ [r EXCEPT !.index = 0, !.search = "simulation"] \in FeatureType
        /\ \A x \in DiscoveryResults : [r EXCEPT !.index = 0, !.handles = <<>>, !.result = x] \in FeatureType
    BY <1>1 DEF FeatureType
  <1>4. AfterFailure(r) \in FeatureType BY <1>2, <1>3 DEF AfterFailure
  <1>5. /\ \A x \in DiscoveryModes : [r EXCEPT !.mode = x] \in FeatureType
        /\ \A x \in DiscoveryResults : [r EXCEPT !.result = x] \in FeatureType
        /\ \A x \in {"production", "simulation"} : [r EXCEPT !.search = x] \in FeatureType
    BY DEF FeatureType
  <1>6. /\ \A x \in Preferences : [r EXCEPT !.preferred = x] \in FeatureType
        /\ \A x \in BOOLEAN : [r EXCEPT !.async = x] \in FeatureType
        /\ \A x \in Nat : [r EXCEPT !.index = x] \in FeatureType
    BY DEF FeatureType
  <1>7. \A x \in Nat, y \in Seq(Backends) : [r EXCEPT !.handles = y, !.index = x] \in FeatureType
    BY DEF FeatureType
  <1> QED BY <1>3, <1>4, <1>5, <1>6, <1>7

-----------------------------------------------------------------------------
(* What the main thread is in the middle of *)

Elements(q) == {q[k] : k \in 1..Len(q)}

\* The frames of a stack that grows or shrinks.
LEMMA ElementsOf ==
    ASSUME NEW T, NEW q \in Seq(T), NEW p \in Seq(T)
    PROVE  /\ Elements(q) \subseteq T
           /\ Elements(p \o q) = Elements(p) \cup Elements(q)
           /\ q # <<>> => Elements(q) = {Head(q)} \cup Elements(Tail(q))
  <1>1. Elements(q) \subseteq T BY DEF Elements
  <1>2. Elements(p \o q) = Elements(p) \cup Elements(q)
    <2>1. /\ Len(p) \in Nat /\ Len(q) \in Nat /\ Len(p \o q) = Len(p) + Len(q)
          /\ \A k \in 1..Len(p) : (p \o q)[k] = p[k]
          /\ \A k \in 1..Len(q) : (p \o q)[Len(p) + k] = q[k]
      OBVIOUS
    <2>2. PICK m, n \in Nat : m = Len(p) /\ n = Len(q) BY <2>1
    <2>3. \A k \in 1..(m + n) : k \in 1..m \/ (k - m \in 1..n /\ k = m + (k - m)) BY <2>2
    <2>4. /\ \A k \in 1..m : k \in 1..(m + n)
          /\ \A k \in 1..n : m + k \in 1..(m + n)
      BY <2>2
    <2>5. ASSUME NEW x \in Elements(p \o q) PROVE x \in Elements(p) \cup Elements(q)
      <3>1. PICK k \in 1..(m + n) : x = (p \o q)[k] BY <2>1, <2>2, <2>5 DEF Elements
      <3>2. CASE k \in 1..m BY <2>1, <2>2, <3>1, <3>2 DEF Elements
      <3>3. CASE k - m \in 1..n /\ k = m + (k - m)
        <4>1. PICK j \in 1..n : k = m + j BY <3>3
        <4>2. x = q[j] BY <2>1, <2>2, <3>1, <4>1
        <4> QED BY <2>2, <4>2 DEF Elements
      <3> QED BY <2>3, <3>1, <3>2, <3>3
    <2>6. ASSUME NEW x \in Elements(p) PROVE x \in Elements(p \o q)
      <3>1. PICK k \in 1..m : x = p[k] BY <2>2, <2>6 DEF Elements
      <3>2. x = (p \o q)[k] /\ k \in 1..Len(p \o q) BY <2>1, <2>2, <2>4, <3>1
      <3> QED BY <3>2 DEF Elements
    <2>7. ASSUME NEW x \in Elements(q) PROVE x \in Elements(p \o q)
      <3>1. PICK k \in 1..n : x = q[k] BY <2>2, <2>7 DEF Elements
      <3>2. x = (p \o q)[m + k] /\ m + k \in 1..Len(p \o q) BY <2>1, <2>2, <2>4, <3>1
      <3> QED BY <3>2 DEF Elements
    <2> QED BY <2>5, <2>6, <2>7
  <1>3. ASSUME q # <<>> PROVE Elements(q) = {Head(q)} \cup Elements(Tail(q))
    <2>1. /\ Len(q) \in Nat \ {0} /\ Len(Tail(q)) = Len(q) - 1 /\ Head(q) = q[1]
          /\ \A k \in 1..Len(Tail(q)) : Tail(q)[k] = q[k + 1]
      BY <1>3
    <2>2. PICK n \in Nat : n = Len(Tail(q)) /\ Len(q) = n + 1
      <3>1. PICK m \in Nat \ {0} : m = Len(q) BY <2>1
      <3>2. PICK n \in Nat : n = m - 1 /\ m = n + 1 OBVIOUS
      <3> QED BY <2>1, <3>1, <3>2
    <2>3. \A k \in 1..(n + 1) : k = 1 \/ (k - 1 \in 1..n /\ k = (k - 1) + 1) BY <2>2
    <2>4. 1 \in 1..(n + 1) /\ \A k \in 1..n : k + 1 \in 1..(n + 1) BY <2>2
    <2>5. ASSUME NEW x \in Elements(q) PROVE x = Head(q) \/ x \in Elements(Tail(q))
      <3>1. PICK k \in 1..(n + 1) : x = q[k] BY <2>2, <2>5 DEF Elements
      <3>2. CASE k = 1 BY <2>1, <3>1, <3>2
      <3>3. CASE k - 1 \in 1..n /\ k = (k - 1) + 1
        <4>1. PICK j \in 1..n : k = j + 1 BY <3>3
        <4>2. x = Tail(q)[j] BY <2>1, <2>2, <3>1, <4>1
        <4> QED BY <2>2, <4>2 DEF Elements
      <3> QED BY <2>3, <3>1, <3>2, <3>3
    <2>6. Head(q) \in Elements(q) BY <2>1, <2>2, <2>4 DEF Elements
    <2>7. ASSUME NEW x \in Elements(Tail(q)) PROVE x \in Elements(q)
      <3>1. PICK k \in 1..n : x = Tail(q)[k] BY <2>2, <2>7 DEF Elements
      <3>2. x = q[k + 1] /\ k + 1 \in 1..Len(q) BY <2>1, <2>2, <2>4, <3>1
      <3> QED BY <3>2 DEF Elements
    <2> QED BY <2>5, <2>6, <2>7
  <1> QED BY <1>1, <1>2, <1>3

\* The calls that are made at once, and are not made in the middle of another
AtOnce == {"discover", "load"}
FirstOnly(q) == \A k \in 1..Len(q) : q[k].op \in AtOnce => k = 1
NoneAtOnce(q) == \A x \in Elements(q) : x.op \notin AtOnce

\* A call that is made at once stays the innermost of all, whatever is put on the stack.
LEMMA CallsStayFirst ==
    ASSUME NEW T, NEW q \in Seq(T), NEW p \in Seq(T)
    PROVE  /\ FirstOnly(q) /\ q # <<>> => NoneAtOnce(Tail(q))
           /\ FirstOnly(q) /\ q # <<>> /\ Head(q).op \notin AtOnce => NoneAtOnce(q)
           /\ q = <<>> => NoneAtOnce(q)
           /\ NoneAtOnce(q) => FirstOnly(q)
           /\ FirstOnly(p) /\ NoneAtOnce(q) => FirstOnly(p \o q)
           /\ NoneAtOnce(p) /\ NoneAtOnce(q) => NoneAtOnce(p \o q)
  <1>1. ASSUME FirstOnly(q), q # <<>> PROVE NoneAtOnce(Tail(q))
    <2>1. /\ Len(q) \in Nat /\ Len(Tail(q)) = Len(q) - 1
          /\ \A k \in 1..Len(Tail(q)) : Tail(q)[k] = q[k + 1] /\ k + 1 \in 1..Len(q) /\ k + 1 # 1
      BY <1>1
    <2> QED BY <1>1, <2>1 DEF FirstOnly, NoneAtOnce, Elements
  <1>2. FirstOnly(q) /\ q # <<>> /\ Head(q).op \notin AtOnce => NoneAtOnce(q)
    BY <1>1, ElementsOf DEF NoneAtOnce
  <1>3. q = <<>> => NoneAtOnce(q) BY DEF NoneAtOnce, Elements
  <1>4. NoneAtOnce(q) => FirstOnly(q) BY DEF FirstOnly, NoneAtOnce, Elements
  <1>5. NoneAtOnce(p) /\ NoneAtOnce(q) => NoneAtOnce(p \o q) BY ElementsOf DEF NoneAtOnce
  <1>6. ASSUME FirstOnly(p), NoneAtOnce(q) PROVE FirstOnly(p \o q)
    <2>1. /\ Len(p) \in Nat /\ Len(q) \in Nat /\ Len(p \o q) = Len(p) + Len(q)
          /\ \A k \in 1..Len(p) : (p \o q)[k] = p[k]
          /\ \A k \in 1..Len(q) : (p \o q)[Len(p) + k] = q[k]
      OBVIOUS
    <2>2. PICK m, n \in Nat : m = Len(p) /\ n = Len(q) BY <2>1
    <2>3. ASSUME NEW k \in 1..(m + n), (p \o q)[k].op \in AtOnce PROVE k = 1
      <3>1. CASE k \in 1..m BY <1>6, <2>1, <2>2, <2>3, <3>1 DEF FirstOnly
      <3>2. CASE k \notin 1..m
        <4>1. k - m \in 1..n /\ k = m + (k - m) BY <2>2, <3>2
        <4>2. PICK j \in 1..n : k = m + j BY <4>1
        <4>3. (p \o q)[k] = q[j] BY <2>1, <2>2, <4>2
        <4> QED BY <1>6, <2>2, <2>3, <4>3 DEF NoneAtOnce, Elements
      <3> QED BY <3>1, <3>2
    <2> QED BY <2>1, <2>2, <2>3 DEF FirstOnly
  <1> QED BY <1>1, <1>2, <1>3, <1>4, <1>5, <1>6

\* Frames of one and of two
LEMMA FewElements ==
    /\ Elements(<<>>) = {}
    /\ \A x : Elements(<<x>>) = {x}
    /\ \A x, y : Elements(<<x, y>>) = {x, y}
  <1>1. Elements(<<>>) = {} BY DEF Elements
  <1>2. ASSUME NEW x PROVE Elements(<<x>>) = {x}
    <2>1. 1..Len(<<x>>) = {1} /\ <<x>>[1] = x OBVIOUS
    <2> QED BY <2>1 DEF Elements
  <1>3. ASSUME NEW x, NEW y PROVE Elements(<<x, y>>) = {x, y}
    <2>1. 1..Len(<<x, y>>) = {1, 2} /\ <<x, y>>[1] = x /\ <<x, y>>[2] = y OBVIOUS
    <2> QED BY <2>1 DEF Elements
  <1> QED BY <1>1, <1>2, <1>3

\* What takes the search of a feature further: a call of its own, or being told of
\* the handle it waits for.
Calls(x, f) == x.op \in {"discover", "choose", "load"} /\ x.to[1] = f
Tells(x, f, h) ==
    /\ x.h = h
    /\ \/ x.op = "notify" /\ x.to[1] = f
       \/ x.op = "emit" /\ \E i \in 1..Len(x.to) : x.to[i] = f

\* The frames p take the place of the innermost call, or interrupt it.
Replaced(p) ==
    /\ stack # <<>> /\ Head(stack).op \notin CallOps
    /\ stack' = p \o Tail(stack)
    /\ \A f, h : Tells(Head(stack), f, h) => \E x \in Elements(p) : Tells(x, f, h)
Interrupts(p) ==
    /\ AtEventLoop \/ Top("search")
    /\ stack' = p \o stack
ManagerMoves(p) == NoneAtOnce(p) /\ (Replaced(p) \/ Interrupts(p))

\* The frames of the manager call no feature.
LEMMA ManagerCallsNone ==
    ASSUME ManagerTypes
    PROVE  /\ NoneAtOnce(<<>>)
           /\ \A x : x.op \notin AtOnce => NoneAtOnce(<<x>>)
           /\ \A x, y : x.op \notin AtOnce /\ y.op \notin AtOnce => NoneAtOnce(<<x, y>>)
           /\ \A ps \in Seq(Plugins) : NoneAtOnce(RegisterFrames(ps))
           /\ \A h : NoneAtOnce(CreateThenEmit(h))
           /\ \A hs \in Seq(Backends) : NoneAtOnce(Creations(hs))
  <1>1. NoneAtOnce(<<>>) BY FewElements DEF NoneAtOnce
  <1>2. \A x : x.op \notin AtOnce => NoneAtOnce(<<x>>) BY FewElements DEF NoneAtOnce
  <1>3. \A x, y : x.op \notin AtOnce /\ y.op \notin AtOnce => NoneAtOnce(<<x, y>>)
    BY FewElements DEF NoneAtOnce
  <1>4. ASSUME NEW ps \in Seq(Plugins) PROVE NoneAtOnce(RegisterFrames(ps))
    <2>1. \A k \in 1..Len(RegisterFrames(ps)) : RegisterFrames(ps)[k].op = "register"
      BY FrameFields DEF RegisterFrames
    <2> QED BY <2>1 DEF NoneAtOnce, Elements, AtOnce
  <1>5. ASSUME NEW h PROVE NoneAtOnce(CreateThenEmit(h))
    <2>1. PICK x, y : x = CreateFrame(h) /\ y = Emission(h) OBVIOUS
    <2>2. x.op = "create" /\ y.op = "emit" BY <2>1, FrameFields DEF CreateFrame, Emission
    <2>3. NoneAtOnce(<<x, y>>) BY <1>3, <2>2 DEF AtOnce
    <2> QED BY <2>1, <2>3 DEF CreateThenEmit
  <1>6. ASSUME NEW hs \in Seq(Backends) PROVE NoneAtOnce(Creations(hs))
    <2>1. PICK x, y : x = CreateFrame(Head(hs)) /\ y = Frame("createEach", Nowhere, Tail(hs), {}) OBVIOUS
    <2>2. x.op = "create" /\ y.op = "createEach" BY <2>1, FrameFields DEF CreateFrame
    <2>3. NoneAtOnce(<<x>>) /\ NoneAtOnce(<<y>>) BY <1>2, <2>2 DEF AtOnce
    <2>4. NoneAtOnce(<<x>> \o <<>>) /\ NoneAtOnce(<<x>> \o <<y>>)
      <3>1. PICK T : T = {x, y} OBVIOUS
      <3>2. <<x>> \in Seq(T) /\ <<y>> \in Seq(T) /\ <<>> \in Seq(T) BY <3>1
      <3> QED BY <1>1, <2>3, <3>2, CallsStayFirst
    <2>5. \/ Creations(hs) = <<>>
          \/ Creations(hs) = <<x>> \o <<>>
          \/ Creations(hs) = <<x>> \o <<y>>
      BY <2>1 DEF Creations
    <2> QED BY <1>1, <2>4, <2>5
  <1> QED BY <1>1, <1>2, <1>3, <1>4, <1>5, <1>6

\* serviceObjectLoaded() goes from one receiver to the next.
LEMMA EmissionGoesOn ==
    ASSUME ManagerTypes, EmitServiceObjectLoaded
    PROVE  \E p \in Seq(Frames) : ManagerMoves(p)
  <1>1. stack # <<>> /\ Head(stack).op = "emit" /\ stack \in Seq(Frames)
    BY DEF EmitServiceObjectLoaded, Top, ManagerTypes
  <1>2. Head(stack) \in Frames /\ Tail(stack) \in Seq(Frames) BY <1>1
  <1>3. PICK to \in Seq(ListenerSet), h \in Backends : to = Head(stack).to /\ h = Head(stack).h
    BY <1>1, <1>2, FramesHave
  <1>4. CASE to = <<>>
    <2>1. stack' = Tail(stack) BY <1>3, <1>4 DEF EmitServiceObjectLoaded
    <2>2. Tail(stack) = <<>> \o Tail(stack) BY <1>2
    <2>3. \A f, g : ~Tells(Head(stack), f, g) BY <1>1, <1>3, <1>4 DEF Tells
    <2>4. <<>> \in Seq(Frames) OBVIOUS
    <2> QED BY <1>1, <2>1, <2>2, <2>3, <2>4, ManagerCallsNone DEF ManagerMoves, Replaced, CallOps
  <1>5. CASE to # <<>>
    <2>1. PICK g \in Features, rest \in Seq(ListenerSet) : g = Head(to) /\ rest = Tail(to)
      <3>1. Head(to) \in ListenerSet /\ Tail(to) \in Seq(ListenerSet) BY <1>5
      <3> QED BY <3>1 DEF Features
    <2>2. PICK x, y \in Frames : x = Frame("notify", h, <<g>>, {}) /\ y = Frame("emit", h, rest, {})
      BY FramesAre DEF CallOps
    <2>3. stack' = <<x, y>> \o Tail(stack) BY <1>3, <1>5, <2>1, <2>2 DEF EmitServiceObjectLoaded
    <2>4. /\ x.op = "notify" /\ x.h = h /\ x.to = <<g>>
          /\ y.op = "emit" /\ y.h = h /\ y.to = rest
      BY <2>2, FrameFields
    <2>5. ASSUME NEW f, NEW k, Tells(Head(stack), f, k) PROVE Tells(x, f, k) \/ Tells(y, f, k)
      <3>1. k = h /\ \E i \in 1..Len(to) : to[i] = f BY <1>1, <1>3, <2>5 DEF Tells
      <3>2. PICK i \in 1..Len(to) : to[i] = f BY <3>1
      <3>3. CASE i = 1
        <4>1. x.to[1] = f BY <1>5, <2>1, <2>4, <3>2, <3>3
        <4> QED BY <2>4, <3>1, <4>1 DEF Tells
      <3>4. CASE i # 1
        <4>1. i - 1 \in 1..Len(rest) /\ rest[i - 1] = to[i] BY <1>5, <2>1, <3>2, <3>4
        <4>2. PICK j \in 1..Len(y.to) : y.to[j] = f BY <2>4, <3>2, <4>1
        <4> QED BY <2>4, <3>1, <4>2 DEF Tells
      <3> QED BY <3>3, <3>4
    <2>6. <<x, y>> \in Seq(Frames) /\ Elements(<<x, y>>) = {x, y} BY FewElements
    <2>7. NoneAtOnce(<<x, y>>) BY <2>4, ManagerCallsNone DEF AtOnce
    <2>8. Replaced(<<x, y>>) BY <1>1, <2>3, <2>5, <2>6 DEF Replaced, CallOps
    <2> QED BY <2>6, <2>7, <2>8 DEF ManagerMoves
  <1> QED BY <1>4, <1>5

\* A step of the manager replaces its own innermost call, interrupts, or calls nothing.
LEMMA ManagerOnlyMoves ==
    ASSUME ManagerTypes, ManagerNext
    PROVE  stack' = stack \/ \E p \in Seq(Frames) : ManagerMoves(p)
  <1> DEFINE h == Head(stack).h
  <1>1. /\ stack \in Seq(Frames)
        /\ stack # <<>> => /\ Head(stack) \in Frames /\ Tail(stack) \in Seq(Frames) /\ h \in Backends
    BY StackMoves, FramesHave DEF ManagerTypes
  <1>2. ASSUME NEW p \in Seq(Frames), NoneAtOnce(p), stack # <<>>, Head(stack).op \in PlainOps \cup {"createEach"},
               stack' = p \o Tail(stack)
        PROVE  \E q \in Seq(Frames) : ManagerMoves(q)
    <2>1. \A f, g : ~Tells(Head(stack), f, g) BY <1>2 DEF Tells, PlainOps
    <2>2. Head(stack).op \notin CallOps BY <1>2 DEF PlainOps, CallOps
    <2> QED BY <1>2, <2>1, <2>2 DEF ManagerMoves, Replaced
  <1>3. ASSUME NEW p \in Seq(Frames), NoneAtOnce(p), AtEventLoop \/ Top("search"), stack' = p \o stack
        PROVE  \E q \in Seq(Frames) : ManagerMoves(q)
    BY <1>3 DEF ManagerMoves, Interrupts
  <1>4. <<>> \in Seq(Frames) /\ NoneAtOnce(<<>>) /\ (stack # <<>> => Tail(stack) = <<>> \o Tail(stack))
    BY <1>1, ManagerCallsNone
  <1>5. \A x \in Frames : x.op \notin AtOnce => <<x>> \in Seq(Frames) /\ NoneAtOnce(<<x>>)
    BY ManagerCallsNone
  <1>6. \A x, y \in Frames : x.op \notin AtOnce /\ y.op \notin AtOnce
                                => <<x, y>> \in Seq(Frames) /\ NoneAtOnce(<<x, y>>)
    BY ManagerCallsNone
  <1>7. CASE SearchPlugins
    <2>1. \A i \in DOMAIN libraryPaths : Content[libraryPaths[i]] \in Seq(Plugins)
      BY ManagerAssumption DEF ManagerTypes
    <2>2. \A i \in DOMAIN libraryPaths : /\ RegisterFrames(Content[libraryPaths[i]]) \in Seq(Frames)
                                         /\ NoneAtOnce(RegisterFrames(Content[libraryPaths[i]]))
      BY <2>1, ManagerFrames, ManagerCallsNone
    <2>3. RegisterFrames(StaticPlugins) \in Seq(Frames) /\ NoneAtOnce(RegisterFrames(StaticPlugins))
      BY ManagerAssumption, ManagerFrames, ManagerCallsNone
    <2>4. /\ Top("search") /\ stack # <<>> /\ Head(stack).op \in PlainOps
          /\ \/ \E i \in DOMAIN libraryPaths : stack' = RegisterFrames(Content[libraryPaths[i]]) \o stack
             \/ stack' = <<>> \o Tail(stack)
             \/ stack' = RegisterFrames(StaticPlugins) \o Tail(stack)
      BY <1>7 DEF SearchPlugins, Top, NewDirs, PlainOps
    <2> QED BY <1>2, <1>3, <1>4, <2>2, <2>3, <2>4
  <1>8. CASE CreateAll
    <2>1. PICK hs : hs = [i \in DOMAIN Found(Head(stack).match, <<>>) |-> HandleOf(Found(Head(stack).match, <<>>)[i])]
      OBVIOUS
    <2>2. hs \in Seq(Backends) BY <2>1, FoundAreRegistered, HandlesOfFound DEF ManagerTypes
    <2>3. PICK p \in Seq(Frames) : p = Creations(hs) /\ NoneAtOnce(p)
      BY <2>2, CreationsAre, ManagerCallsNone
    <2>4. stack' = p \o Tail(stack) BY <1>8, <2>1, <2>3 DEF CreateAll
    <2>5. stack # <<>> /\ Head(stack).op \in PlainOps BY <1>8 DEF CreateAll, Top, PlainOps
    <2> QED BY <1>2, <2>3, <2>4, <2>5
  <1>9. CASE CreateEach
    <2>1. stack # <<>> /\ Head(stack).op = "createEach" BY <1>9 DEF CreateEach, Top
    <2>2. Head(stack).to \in Seq(Backends) BY <1>1, <2>1, FramesHave
    <2>3. PICK p \in Seq(Frames) : p = Creations(Head(stack).to) /\ NoneAtOnce(p)
      BY <2>2, CreationsAre, ManagerCallsNone
    <2>4. stack' = p \o Tail(stack) BY <1>9, <2>3 DEF CreateEach
    <2> QED BY <1>2, <2>1, <2>3, <2>4
  <1>10. CASE WaitForLoad \/ ThreadJoined \/ SpinDone
    <2>1. stack # <<>> /\ Head(stack).op \in PlainOps
      BY <1>10 DEF WaitForLoad, ThreadJoined, SpinDone, Top, PlainOps
    <2>2. PICK x, y, z \in Frames : /\ x = Frame("wait", h, <<>>, {}) /\ y = Frame("spin", h, <<>>, {})
                                    /\ z = CreateFrame(h)
      BY <1>1, <2>1, ManagerFrames
    <2>3. x.op = "wait" /\ y.op = "spin" /\ z.op = "create" BY <2>2, FrameFields DEF CreateFrame
    <2>4. x.op \notin AtOnce /\ y.op \notin AtOnce /\ z.op \notin AtOnce BY <2>3 DEF AtOnce
    <2>5. \/ stack' = stack \/ stack' = <<x>> \o Tail(stack) \/ stack' = <<y>> \o Tail(stack)
          \/ stack' = <<z>> \o Tail(stack)
      BY <1>10, <2>2 DEF WaitForLoad, ThreadJoined, SpinDone
    <2> QED BY <1>2, <1>5, <2>1, <2>4, <2>5
  <1>11. CASE CreateServiceObject
    <2>1. stack # <<>> /\ Head(stack).op \in PlainOps /\ stack' = Tail(stack)
      BY <1>11 DEF CreateServiceObject, Top, PlainOps
    <2> QED BY <1>2, <1>4, <2>1
  <1>12. CASE EmitServiceObjectLoaded BY <1>12, EmissionGoesOn
  <1>13. CASE ManagerCalls
    <2>1. CASE \E p \in Plugins : RegisterService(p) \/ ReadServiceObjectRole(p)
      <3>1. PICK p \in Plugins : RegisterService(p) \/ ReadServiceObjectRole(p) BY <2>1
      <3>2. <<p>> \in Seq(Plugins) /\ HandleOf(p) \in Backends BY DEF HandleOf, Backends, ManagerTypes
      <3>3. PICK x \in Frames : x = CreateFrame(HandleOf(p)) BY <3>2, ManagerFrames
      <3>4. x.op \notin AtOnce BY <3>3, FrameFields DEF CreateFrame, AtOnce
      <3>5. RegisterFrames(<<p>>) \in Seq(Frames) /\ NoneAtOnce(RegisterFrames(<<p>>))
        BY <3>2, ManagerFrames, ManagerCallsNone
      <3>6. AtEventLoop /\ (stack' = RegisterFrames(<<p>>) \o stack \/ stack' = <<x>> \o stack)
        BY <3>1, <3>3 DEF RegisterService, ReadServiceObjectRole, MayCall
      <3> QED BY <1>3, <1>5, <3>4, <3>5, <3>6
    <2>2. CASE \E d \in Dirs : AddLibraryPath(d) BY <2>2 DEF AddLibraryPath
    <2>3. CASE \E i \in Interfaces, flags \in (SUBSET {"production", "simulation"}) \ {{}} :
                 FindServiceByInterface(i, flags)
      <3>1. PICK i \in Interfaces, flags \in SUBSET {"production", "simulation"} : FindServiceByInterface(i, flags)
        BY <2>3
      <3>2. Matching(i, flags) \in SUBSET Plugins BY DEF Matching
      <3>3. PICK x, y \in Frames : x = SearchFrame /\ y = Frame("createAll", Nowhere, <<>>, Matching(i, flags))
        BY <3>2, FramesAre, ManagerFrames, NowhereIs DEF PlainOps
      <3>4. x.op \notin AtOnce /\ y.op \notin AtOnce BY <3>3, FrameFields DEF SearchFrame, AtOnce
      <3>5. AtEventLoop /\ stack' = <<x, y>> \o stack BY <3>1, <3>3 DEF FindServiceByInterface, MayCall
      <3> QED BY <1>3, <1>6, <3>4, <3>5
    <2>4. CASE \E g \in Handles, async \in BOOLEAN : UserLoad(g, async)
      <3>1. PICK g \in Handles, async \in BOOLEAN : UserLoad(g, async) BY <2>4
      <3>2. g \in Backends BY ManagerAssumption DEF Handles, Backends
      <3>3. PICK p \in Seq(Frames) : p = CreateThenEmit(g) /\ NoneAtOnce(p)
        BY <3>2, ManagerFrames, ManagerCallsNone
      <3>4. AtEventLoop /\ (stack' = stack \/ stack' = p \o stack)
        BY <3>1, <3>3 DEF UserLoad, LoadServiceObject, MayCall
      <3> QED BY <1>3, <3>3, <3>4
    <2> QED BY <1>13, <2>1, <2>2, <2>3, <2>4 DEF ManagerCalls
  <1>14. CASE AddBackend
    <2>1. stack # <<>> /\ Head(stack).op \in PlainOps /\ stack' = Tail(stack)
      BY <1>14 DEF AddBackend, Top, PlainOps
    <2> QED BY <1>2, <1>4, <2>1
  <1>15. CASE HandlePosted
    <2>1. posted # <<>> /\ posted \in Seq(Events) BY <1>15 DEF HandlePosted, ManagerTypes
    <2>2. Head(posted) \in Events BY <2>1
    <2>3. Head(posted).h \in Backends BY <2>2 DEF Events, Backends
    <2>4. PICK x \in Frames : x = Emission(Head(posted).h) BY <2>3, ManagerFrames
    <2>5. x.op \notin AtOnce BY <2>4, FrameFields DEF Emission, AtOnce
    <2>6. AtEventLoop /\ (stack' = stack \/ stack' = <<x>> \o stack)
      BY <1>15, <2>4 DEF HandlePosted, Signal
    <2> QED BY <1>3, <1>5, <2>5, <2>6
  <1>16. CASE UseDeletedBackend \/ UnloadAllBackends \/ Threads
    BY <1>16 DEF UseDeletedBackend, UnloadAllBackends, Threads, ThreadLoads, RunningThreadDeleted, ThreadDeleted
  <1> QED BY <1>7, <1>8, <1>9, <1>10, <1>11, <1>12, <1>13, <1>14, <1>15, <1>16
          DEF ManagerNext, ManagerInternal, ManagerDeletes

FeatureTypes ==
    /\ initializing \subseteq Plugins
    /\ feature \in [Features -> FeatureType]
SystemTypes == ManagerTypes /\ FeatureTypes

\* The position a search has come to is one of its handles, and a call that loads
\* the current handle, the innermost there is, finds one.
Indexed(r) == r.index = 0 \/ r.index \in DOMAIN r.handles
HasOne(r) == r.handles = <<>> \/ r.index # 0
SearchOrder ==
    /\ FirstOnly(stack)
    /\ \A f \in Features : Indexed(feature[f])
    /\ stack # <<>> /\ Head(stack).op = "load" => HasOne(feature[Caller])

\* The caller of a frame of a feature
LEMMA CallerIs ==
    ASSUME ManagerTypes, stack # <<>>, Head(stack).op \in CallOps
    PROVE  /\ Caller \in Features /\ Head(stack).h \in Backends
           /\ Head(stack) \in Frames /\ Tail(stack) \in Seq(Frames)
  <1>1. stack \in Seq(Frames) BY DEF ManagerTypes
  <1>2. Head(stack) \in Frames /\ Tail(stack) \in Seq(Frames) BY <1>1
  <1> QED BY <1>2, FramesHave DEF Caller

\* One feature is changed, and starts what it is attached to.
LEMMA FeatureTyped ==
    ASSUME FeatureTypes, NEW f \in Features, NEW s \in FeatureType, feature' = [feature EXCEPT ![f] = s],
           initializing' = initializing
    PROVE  FeatureTypes' /\ feature'[f] = s /\ \A g \in Features : g # f => feature'[g] = feature[g]
  BY DEF FeatureTypes

\* Only backends of plugins are initialized.
LEMMA InitializesTyped ==
    ASSUME initializing \subseteq Plugins, NEW old, NEW new \in FeatureType,
           new.attached = TRUE => new.so # none, Initializes(old, new)
    PROVE  initializing' \subseteq Plugins
  <1>1. new.attached = TRUE => new.so[1] \in Plugins
    BY DEF FeatureType, ServiceObjectOrNone, ServiceObjects
  <1>2. new.attached \in BOOLEAN BY DEF FeatureType
  <1> QED BY <1>1, <1>2 DEF Initializes

\* Nothing is done for the search.
SamePlace(r, s) == s.handles = r.handles /\ s.index = r.index

\* The order of the search stays when no place of a feature does change and the manager moves.
LEMMA OrderStays ==
    ASSUME SystemTypes, SearchOrder, \A f \in Features : SamePlace(feature[f], feature'[f]),
           stack' = stack \/ \E p \in Seq(Frames) : ManagerMoves(p)
    PROVE  SearchOrder'
  <1>1. \A f \in Features : Indexed(feature[f])' /\ (HasOne(feature[f]) => HasOne(feature[f])')
    BY DEF SearchOrder, SamePlace, Indexed, HasOne
  <1>2. stack \in Seq(Frames) BY DEF SystemTypes, ManagerTypes
  <1>3. CASE stack' = stack
    <2>1. stack # <<>> /\ Head(stack).op = "load" => Caller \in Features /\ HasOne(feature[Caller])
      BY CallerIs DEF SystemTypes, SearchOrder, CallOps
    <2>2. \A f \in Features : HasOne(feature[f]) => HasOne(feature'[f]) BY <1>1
    <2>3. stack # <<>> /\ Head(stack).op = "load" => HasOne(feature'[Caller]) BY <2>1, <2>2
    <2>4. Caller' = Caller BY <1>3 DEF Caller
    <2>5. FirstOnly(stack)' BY <1>3 DEF SearchOrder, FirstOnly
    <2> QED BY <1>1, <1>3, <2>3, <2>4, <2>5 DEF SearchOrder
  <1>4. ASSUME NEW p \in Seq(Frames), ManagerMoves(p) PROVE NoneAtOnce(stack') /\ stack' \in Seq(Frames)
    <2>1. NoneAtOnce(p) BY <1>4 DEF ManagerMoves
    <2>2. CASE Replaced(p)
      <3>1. Tail(stack) \in Seq(Frames) /\ NoneAtOnce(Tail(stack))
        BY <1>2, <2>2, CallsStayFirst DEF SearchOrder, Replaced
      <3>2. stack' = p \o Tail(stack) BY <2>2 DEF Replaced
      <3>3. PICK q \in Seq(Frames) : q = Tail(stack) /\ NoneAtOnce(q) BY <3>1
      <3>4. p \o q \in Seq(Frames) OBVIOUS
      <3>5. NoneAtOnce(p \o q) BY <2>1, <3>3, CallsStayFirst
      <3> QED BY <3>2, <3>3, <3>4, <3>5
    <2>3. CASE Interrupts(p)
      <3>1. NoneAtOnce(stack)
        BY <1>2, <2>3, CallsStayFirst DEF SearchOrder, Interrupts, AtEventLoop, Top, AtOnce
      <3>2. stack' = p \o stack BY <2>3 DEF Interrupts
      <3> QED BY <1>2, <2>1, <3>1, <3>2, CallsStayFirst
    <2> QED BY <1>4, <2>2, <2>3 DEF ManagerMoves
  <1>5. CASE \E p \in Seq(Frames) : ManagerMoves(p)
    <2>1. NoneAtOnce(stack') /\ stack' \in Seq(Frames) BY <1>4, <1>5
    <2>2. FirstOnly(stack') BY <2>1, CallsStayFirst
    <2>3. stack' # <<>> => Head(stack').op # "load"
      BY <2>1, ElementsOf DEF NoneAtOnce, AtOnce
    <2>4. FirstOnly(stack)' BY <2>2 DEF FirstOnly
    <2> QED BY <1>1, <2>3, <2>4 DEF SearchOrder
  <1> QED BY <1>3, <1>5

\* A call of a feature is replaced by others, or begins.
LEMMA CallMoves ==
    ASSUME SystemTypes, SearchOrder, NEW p \in Seq(Frames), FirstOnly(p),
           \/ stack # <<>> /\ Head(stack).op \in CallOps /\ stack' = p \o Tail(stack)
           \/ AtEventLoop /\ stack' = p \o stack,
           \A f \in Features : Indexed(feature'[f]),
           p # <<>> /\ Head(p).op = "load" => HasOne(feature'[Head(p).to[1]])
    PROVE  stack' \in Seq(Frames) /\ SearchOrder'
  <1>1. stack \in Seq(Frames) BY DEF SystemTypes, ManagerTypes
  <1>2. PICK q \in Seq(Frames) : NoneAtOnce(q) /\ stack' = p \o q
    <2>1. CASE stack # <<>> /\ stack' = p \o Tail(stack)
      <3>1. Tail(stack) \in Seq(Frames) /\ NoneAtOnce(Tail(stack))
        BY <1>1, <2>1, CallsStayFirst DEF SearchOrder
      <3> QED BY <2>1, <3>1
    <2>2. CASE AtEventLoop /\ stack' = p \o stack
      <3>1. NoneAtOnce(stack)
        BY <1>1, <2>2, CallsStayFirst DEF SearchOrder, AtEventLoop, AtOnce
      <3> QED BY <1>1, <2>2, <3>1
    <2> QED BY <2>1, <2>2
  <1>3. p \o q \in Seq(Frames) BY <1>2
  <1>4. FirstOnly(p \o q) BY <1>2, CallsStayFirst
  <1>5. ASSUME p \o q # <<>>, Head(p \o q).op = "load" PROVE HasOne(feature'[Head(p \o q).to[1]])
    <2>1. CASE p = <<>>
      <3>1. p \o q = q BY <1>2, <2>1
      <3>2. Head(q).op \notin AtOnce BY <1>2, <1>5, <3>1, ElementsOf DEF NoneAtOnce
      <3> QED BY <1>5, <3>1, <3>2 DEF AtOnce
    <2>2. CASE p # <<>>
      <3>1. Head(p \o q) = Head(p) BY <1>2, <2>2
      <3> QED BY <1>5, <2>2, <3>1
    <2> QED BY <2>1, <2>2
  <1>6. FirstOnly(stack)' BY <1>2, <1>4 DEF FirstOnly
  <1>7. \A f \in Features : Indexed(feature[f])' OBVIOUS
  <1>8. (stack # <<>> /\ Head(stack).op = "load" => HasOne(feature[Caller]))'
    BY <1>2, <1>5 DEF Caller
  <1> QED BY <1>2, <1>3, <1>6, <1>7, <1>8 DEF SearchOrder

\* The calls that features make
LEMMA FeatureFrames ==
    ASSUME NEW f \in Features
    PROVE  /\ \A op \in CallOps : /\ Call(op, f) \in Frames /\ <<Call(op, f)>> \in Seq(Frames)
                                  /\ FirstOnly(<<Call(op, f)>>) /\ Head(<<Call(op, f)>>) = Call(op, f)
                                  /\ Call(op, f).op = op /\ Call(op, f).to[1] = f
           /\ \A h \in Backends : /\ Frame("notify", h, <<f>>, {}) \in Frames
                                  /\ <<Frame("notify", h, <<f>>, {})>> \in Seq(Frames)
                                  /\ FirstOnly(<<Frame("notify", h, <<f>>, {})>>)
                                  /\ Head(<<Frame("notify", h, <<f>>, {})>>).op = "notify"
           /\ <<SearchFrame, Call("choose", f)>> \in Seq(Frames)
           /\ FirstOnly(<<SearchFrame, Call("choose", f)>>)
           /\ Head(<<SearchFrame, Call("choose", f)>>).op = "search"
           /\ <<>> \in Seq(Frames) /\ FirstOnly(<<>>)
  <1>1. ASSUME NEW x \in Frames PROVE <<x>> \in Seq(Frames) /\ FirstOnly(<<x>>) /\ Head(<<x>>) = x
    <2>1. <<x>> \in Seq(Frames) /\ 1..Len(<<x>>) = {1} /\ Head(<<x>>) = x BY <1>1
    <2> QED BY <2>1 DEF FirstOnly
  <1>2. ASSUME NEW op \in CallOps PROVE Call(op, f) \in Frames /\ Call(op, f).op = op /\ Call(op, f).to[1] = f
    BY FramesAre, NowhereIs, FrameFields DEF Call
  <1>3. ASSUME NEW h \in Backends
        PROVE  Frame("notify", h, <<f>>, {}) \in Frames /\ Frame("notify", h, <<f>>, {}).op = "notify"
    BY FramesAre, FrameFields DEF CallOps
  <1>4. SearchFrame \in Frames /\ SearchFrame.op = "search"
    BY FramesAre, NowhereIs, FrameFields DEF SearchFrame, PlainOps
  <1>5. PICK x, y \in Frames : x = SearchFrame /\ y = Call("choose", f) /\ y.op = "choose"
    BY <1>2, <1>4 DEF CallOps
  <1>6. <<x, y>> \in Seq(Frames) /\ Head(<<x, y>>) = x /\ <<x, y>>[1] = x /\ <<x, y>>[2] = y
        /\ 1..Len(<<x, y>>) = {1, 2}
    OBVIOUS
  <1>7. FirstOnly(<<x, y>>) BY <1>4, <1>5, <1>6 DEF FirstOnly, AtOnce
  <1>8. <<>> \in Seq(Frames) /\ FirstOnly(<<>>) BY DEF FirstOnly
  <1> QED BY <1>1, <1>2, <1>3, <1>4, <1>5, <1>6, <1>7, <1>8

\* One call of a feature
CallOf(p, op, f) ==
    p \in Seq(Frames) /\ FirstOnly(p) /\ p # <<>> /\ Head(p).op = op /\ Head(p).to[1] = f

\* A single call of a feature is one that may be put on the stack.
LEMMA OneCall ==
    ASSUME NEW f \in Features, NEW op \in CallOps
    PROVE  CallOf(<<Call(op, f)>>, op, f)
  <1>1. PICK x \in Frames : x = Call(op, f) /\ x.op = op /\ x.to[1] = f
    BY FramesAre, NowhereIs, FrameFields DEF Call
  <1>2. <<x>> \in Seq(Frames) /\ 1..Len(<<x>>) = {1} /\ Head(<<x>>) = x /\ <<x>> # <<>> OBVIOUS
  <1>3. FirstOnly(<<x>>) BY <1>2 DEF FirstOnly
  <1> QED BY <1>1, <1>2, <1>3 DEF CallOf

\* loadServiceObject(), and the search for handles before it
LEMMA DiscoverTyped ==
    ASSUME SystemTypes, SearchOrder, Discover PROVE SystemTypes' /\ SearchOrder'
  <1>1. stack # <<>> /\ Head(stack).op \in CallOps BY DEF Discover, Top, CallOps
  <1>2. PICK f \in Features : f = Caller BY <1>1, CallerIs DEF SystemTypes
  <1>3. /\ UNCHANGED <<registry, libraryPaths, backend, proxies, running, posted, waiting, fault>>
        /\ UNCHANGED <<feature, initializing>>
        /\ \/ stack' = <<SearchFrame, Call("choose", f)>> \o Tail(stack)
           \/ stack' = <<Call("load", f)>> \o Tail(stack) /\ feature[f].index # 0
    BY <1>2 DEF Discover, featureVars
  <1>4. PICK p \in Seq(Frames) : /\ FirstOnly(p) /\ stack' = p \o Tail(stack)
                                 /\ Head(p).op = "load" => feature[f].index # 0 /\ Head(p).to[1] = f
    <2>1. CASE stack' = <<SearchFrame, Call("choose", f)>> \o Tail(stack)
      BY <2>1, FeatureFrames
    <2>2. CASE stack' = <<Call("load", f)>> \o Tail(stack) /\ feature[f].index # 0
      <3>1. "load" \in CallOps BY DEF CallOps
      <3>2. CallOf(<<Call("load", f)>>, "load", f) BY <3>1, OneCall
      <3> QED BY <2>2, <3>2 DEF CallOf
    <2> QED BY <1>3, <2>1, <2>2
  <1>5. \A g \in Features : Indexed(feature'[g]) BY <1>3 DEF SearchOrder
  <1>6. p # <<>> /\ Head(p).op = "load" => HasOne(feature'[Head(p).to[1]])
    BY <1>3, <1>4 DEF HasOne
  <1>7. stack' \in Seq(Frames) /\ SearchOrder' BY <1>1, <1>4, <1>5, <1>6, CallMoves
  <1>8. fault' \in Faults /\ waiting' \subseteq Backends BY <1>3 DEF SystemTypes, ManagerTypes
  <1>9. ManagerTypes' BY <1>3, <1>7, <1>8, StackTyped DEF SystemTypes
  <1> QED BY <1>3, <1>7, <1>9 DEF SystemTypes, FeatureTypes

\* loadServiceObject() takes the handles it finds.
LEMMA ChooseTyped ==
    ASSUME SystemTypes, SearchOrder, ChooseHandles PROVE SystemTypes' /\ SearchOrder'
  <1>1. stack # <<>> /\ Head(stack).op \in CallOps BY DEF ChooseHandles, Top, CallOps
  <1>2. PICK f \in Features : f = Caller BY <1>1, CallerIs DEF SystemTypes
  <1>3. PICK r \in FeatureType : r = feature[f] BY DEF SystemTypes, FeatureTypes
  <1>4. PICK found : found = Found(Matching(FeatureInterface[f], Kind(r.search)), r.preferred) OBVIOUS
  <1>5. found \in Seq(Plugins) BY <1>4, FoundAreRegistered DEF SystemTypes, ManagerTypes
  <1>6. PICK hs : hs = [i \in DOMAIN found |-> HandleOf(found[i])] OBVIOUS
  <1>7. hs \in Seq(Backends) /\ DOMAIN hs = 1..Len(found) /\ (hs = <<>> <=> found = <<>>)
    BY <1>5, <1>6, HandlesOfFound DEF SystemTypes, ManagerTypes
  <1>8. PICK n \in Nat : n = IF found = <<>> THEN 0 ELSE 1 OBVIOUS
  <1>9. PICK s \in FeatureType : s = [r EXCEPT !.handles = hs, !.index = n] BY <1>7, SearchTyped
  <1>10. s.handles = hs /\ s.index = n BY <1>9 DEF FeatureType
  <1>11. Indexed(s) /\ HasOne(s)
    <2>1. found # <<>> => 1 \in 1..Len(found) BY <1>5
    <2> QED BY <1>7, <1>8, <1>10, <2>1 DEF Indexed, HasOne
  <1>12. /\ feature' = [feature EXCEPT ![f] = s] /\ initializing' = initializing
         /\ stack' = <<Call("load", f)>> \o Tail(stack)
         /\ UNCHANGED <<registry, libraryPaths, backend, proxies, running, posted, waiting, fault>>
    BY <1>2, <1>3, <1>4, <1>6, <1>8, <1>9 DEF ChooseHandles
  <1>13. FeatureTypes' /\ feature'[f] = s /\ \A g \in Features : g # f => feature'[g] = feature[g]
    BY <1>12, FeatureTyped DEF SystemTypes
  <1>14. PICK p \in Seq(Frames) : p = <<Call("load", f)>> /\ FirstOnly(p) /\ Head(p).to[1] = f
    <2>1. "load" \in CallOps BY DEF CallOps
    <2>2. CallOf(<<Call("load", f)>>, "load", f) BY <2>1, OneCall
    <2> QED BY <2>2 DEF CallOf
  <1>15. \A g \in Features : Indexed(feature'[g]) BY <1>11, <1>13 DEF SearchOrder
  <1>16. HasOne(feature'[Head(p).to[1]]) BY <1>11, <1>13, <1>14
  <1>17. stack' \in Seq(Frames) /\ SearchOrder' BY <1>1, <1>12, <1>14, <1>15, <1>16, CallMoves
  <1>18. fault' \in Faults /\ waiting' \subseteq Backends BY <1>12 DEF SystemTypes, ManagerTypes
  <1>19. ManagerTypes' BY <1>12, <1>17, <1>18, StackTyped DEF SystemTypes
  <1> QED BY <1>13, <1>17, <1>19 DEF SystemTypes

\* onServiceObjectFailure() and what it calls
LEMMA FailureTyped ==
    ASSUME NEW f \in Features, NEW r \in FeatureType
    PROVE  /\ AfterFailure(r) \in FeatureType /\ AfterFailure(r).index = 0 /\ Indexed(AfterFailure(r))
           /\ NextAfterFailure(f, r) \in Seq(Frames) /\ FirstOnly(NextAfterFailure(f, r))
           /\ NextAfterFailure(f, r) # <<>> => Head(NextAfterFailure(f, r)).op = "discover"
  <1>1. AfterFailure(r) \in FeatureType BY SearchTyped
  <1>2. AfterFailure(r).index = 0 BY DEF AfterFailure, FeatureType
  <1>3. /\ NextAfterFailure(f, r) \in Seq(Frames) /\ FirstOnly(NextAfterFailure(f, r))
        /\ NextAfterFailure(f, r) # <<>> => Head(NextAfterFailure(f, r)).op = "discover"
    <2>1. "discover" \in CallOps BY DEF CallOps
    <2>2. CallOf(<<Call("discover", f)>>, "discover", f) BY <2>1, OneCall
    <2>3. NextAfterFailure(f, r) = <<Call("discover", f)>> \/ NextAfterFailure(f, r) = <<>>
      BY DEF NextAfterFailure
    <2> QED BY <2>2, <2>3, FeatureFrames DEF CallOf
  <1> QED BY <1>1, <1>2, <1>3 DEF Indexed

\* loadServiceObject() loads the current handle, or fails and goes on.
LEMMA LoadCurrentTyped ==
    ASSUME SystemTypes, SearchOrder, LoadCurrentHandle PROVE SystemTypes' /\ SearchOrder'
  <1>1. stack # <<>> /\ Head(stack).op = "load" /\ Head(stack).op \in CallOps
    BY DEF LoadCurrentHandle, Top, CallOps
  <1>2. PICK f \in Features : f = Caller /\ Tail(stack) \in Seq(Frames) BY <1>1, CallerIs DEF SystemTypes
  <1>3. PICK r \in FeatureType : r = feature[f] BY DEF SystemTypes, FeatureTypes
  <1>4. PICK h : h = r.handles[r.index] OBVIOUS
  <1>5. UNCHANGED <<registry, libraryPaths, proxies, fault, initializing>>
    BY DEF LoadCurrentHandle
  <1>6. \A g \in Features : Indexed(feature[g]) BY DEF SearchOrder
  <1>7. fault' \in Faults /\ waiting \subseteq Backends BY <1>5 DEF SystemTypes, ManagerTypes
  <1>8. CASE r.handles = <<>>
    <2>1. /\ feature' = [feature EXCEPT ![f] = AfterFailure(r)]
          /\ stack' = NextAfterFailure(f, r) \o Tail(stack)
          /\ UNCHANGED <<backend, running, posted, waiting>>
      BY <1>2, <1>3, <1>8 DEF LoadCurrentHandle
    <2>2. PICK s \in FeatureType, p \in Seq(Frames) :
             /\ s = AfterFailure(r) /\ p = NextAfterFailure(f, r) /\ Indexed(s) /\ FirstOnly(p)
             /\ p # <<>> => Head(p).op = "discover"
      BY FailureTyped
    <2>3. FeatureTypes' /\ feature'[f] = s /\ \A g \in Features : g # f => feature'[g] = feature[g]
      BY <1>5, <2>1, <2>2, FeatureTyped DEF SystemTypes
    <2>4. \A g \in Features : Indexed(feature'[g]) BY <1>6, <2>2, <2>3
    <2>5. stack' \in Seq(Frames) /\ SearchOrder' BY <1>1, <2>1, <2>2, <2>4, CallMoves
    <2>6. ManagerTypes' BY <1>5, <1>7, <2>1, <2>5, StackTyped DEF SystemTypes
    <2> QED BY <2>3, <2>5, <2>6 DEF SystemTypes
  <1>9. CASE r.handles # <<>>
    <2>1. r.index \in DOMAIN r.handles
      BY <1>1, <1>2, <1>3, <1>9 DEF SearchOrder, Indexed, HasOne
    <2>2. r.handles \in Seq(Backends) BY DEF FeatureType
    <2>3. h \in Backends BY <1>4, <2>1, <2>2
    <2>4. feature' = feature BY <1>2, <1>3, <1>9 DEF LoadCurrentHandle
    <2>5. FeatureTypes' BY <1>5, <2>4 DEF SystemTypes, FeatureTypes
    <2>6. \A g \in Features : Indexed(feature'[g]) BY <1>6, <2>4
    <2>7. CASE IsLoaded(h)
      <3>1. /\ stack' = <<Frame("notify", h, <<f>>, {})>> \o Tail(stack)
            /\ UNCHANGED <<backend, running, posted, waiting>>
        BY <1>2, <1>3, <1>4, <1>9, <2>7 DEF LoadCurrentHandle
      <3>2. PICK p \in Seq(Frames) : /\ p = <<Frame("notify", h, <<f>>, {})>> /\ FirstOnly(p)
                                     /\ Head(p).op = "notify"
        BY <2>3, FeatureFrames
      <3>3. stack' \in Seq(Frames) /\ SearchOrder' BY <1>1, <2>6, <3>1, <3>2, CallMoves
      <3>4. ManagerTypes' BY <1>5, <1>7, <3>1, <3>3, StackTyped DEF SystemTypes
      <3> QED BY <2>5, <3>3, <3>4 DEF SystemTypes
    <2>8. CASE ~IsLoaded(h)
      <3>1. LoadServiceObject(h, r.async, Tail(stack))
        BY <1>2, <1>3, <1>4, <1>9, <2>8 DEF LoadCurrentHandle
      <3>2. ManagerTypes' BY <1>2, <1>5, <2>3, <3>1, LoadTyped DEF SystemTypes
      <3>3. PICK p \in Seq(Frames) : p = CreateThenEmit(h) /\ NoneAtOnce(p)
        BY <2>3, ManagerFrames, ManagerCallsNone DEF SystemTypes
      <3>4. PICK q \in Seq(Frames) : q = Tail(stack) BY <1>2
      <3>5. stack' = <<>> \o q \/ stack' = p \o q
        BY <3>1, <3>3, <3>4 DEF LoadServiceObject
      <3>6. FirstOnly(p) /\ (p # <<>> => Head(p).op # "load")
        <4>1. FirstOnly(p) BY <3>3, CallsStayFirst
        <4>2. p # <<>> => Head(p) \in Elements(p) BY ElementsOf
        <4> QED BY <3>3, <4>1, <4>2 DEF NoneAtOnce, AtOnce
      <3>7. PICK u \in Seq(Frames) : /\ stack' = u \o Tail(stack) /\ FirstOnly(u)
                                     /\ u # <<>> => Head(u).op # "load"
        BY <3>4, <3>5, <3>6, FeatureFrames
      <3>8. SearchOrder' BY <1>1, <2>6, <3>7, CallMoves
      <3> QED BY <2>5, <3>2, <3>8 DEF SystemTypes
    <2> QED BY <2>7, <2>8
  <1> QED BY <1>8, <1>9

\* onServiceObjectLoaded()
LEMMA NotifyTyped ==
    ASSUME SystemTypes, SearchOrder, FeaturesSane, OnServiceObjectLoaded PROVE SystemTypes' /\ SearchOrder'
  <1>1. stack # <<>> /\ Head(stack).op \in CallOps BY DEF OnServiceObjectLoaded, Top, CallOps
  <1>2. PICK f \in Features, h \in Backends : f = Caller /\ h = Head(stack).h
    BY <1>1, CallerIs DEF SystemTypes
  <1>3. PICK r \in FeatureType : r = feature[f] BY DEF SystemTypes, FeatureTypes
  <1>4. PICK so \in ServiceObjectOrNone : so = ServiceObjectOf(h)
    <2>1. h[1] \in Plugins /\ life[h[1]] \in Nat /\ backend[h[1]].proxy \in Nat
      BY DEF SystemTypes, ManagerTypes, BackendType, Backends
    <2> QED BY <2>1 DEF ServiceObjectOf, ProxyOf, ServiceObjectOrNone, ServiceObjects
  <1>5. PICK set \in FeatureType : set = AfterSet(f, r, so) /\ SameSearch(r, set) BY SetTyped
  <1>6. Sane(set) BY <1>3, <1>5, SetIsSane DEF FeaturesSane
  <1>7. PICK n \in Nat : n = set.index + 1 BY DEF FeatureType
  <1>8. PICK next \in FeatureType : next = [set EXCEPT !.index = n] BY SearchTyped
  <1>9. [set EXCEPT !.index = @ + 1] = next BY <1>7, <1>8 DEF FeatureType
  <1>10. next.index = n /\ next.handles = r.handles BY <1>5, <1>8 DEF FeatureType, SameSearch
  <1>11. UNCHANGED <<registry, libraryPaths, backend, proxies, running, posted, waiting, fault>>
    BY DEF OnServiceObjectLoaded
  <1>12. PICK x \in DiscoveryResults : x = IF r.search = "production" THEN "ProductionBackendLoaded"
                                           ELSE "SimulationBackendLoaded"
    BY DEF DiscoveryResults
  <1>13. PICK won \in FeatureType : won = [set EXCEPT !.index = 0, !.handles = <<>>, !.result = x]
    BY SearchTyped
  <1>14. Indexed(won) BY <1>13 DEF Indexed, FeatureType
  <1>15. PICK lost \in FeatureType, q \in Seq(Frames) :
             /\ lost = AfterFailure(next) /\ q = NextAfterFailure(f, next) /\ Indexed(lost) /\ FirstOnly(q)
             /\ q # <<>> => Head(q).op = "discover"
    BY FailureTyped
  <1>16. \A g \in Features : Indexed(feature[g]) BY DEF SearchOrder
  <1>17. PICK e \in Seq(Frames) : e = <<>> /\ FirstOnly(e) BY FeatureFrames
  <1>18. Tail(stack) = e \o Tail(stack)
    <2>1. Tail(stack) \in Seq(Frames) BY <1>1, CallerIs DEF SystemTypes
    <2> QED BY <1>17, <2>1
  <1>19. \/ stack' = Tail(stack) /\ UNCHANGED <<feature, initializing>>
         \/ /\ feature' = [feature EXCEPT ![f] = won] /\ stack' = Tail(stack) /\ Initializes(r, set)
         \/ /\ HasNext(r) /\ feature' = [feature EXCEPT ![f] = next]
            /\ stack' = <<Call("load", f)>> \o Tail(stack) /\ Initializes(r, set)
         \/ /\ feature' = [feature EXCEPT ![f] = lost] /\ stack' = q \o Tail(stack) /\ Initializes(r, set)
    BY <1>2, <1>3, <1>4, <1>5, <1>9, <1>12, <1>13, <1>15 DEF OnServiceObjectLoaded, featureVars
  <1>20. initializing' \subseteq Plugins
    BY <1>6, <1>19, InitializesTyped DEF Sane, SystemTypes, FeatureTypes
  <1>21. ASSUME NEW s \in FeatureType, Indexed(s), feature' = [feature EXCEPT ![f] = s],
                NEW p \in Seq(Frames), FirstOnly(p), stack' = p \o Tail(stack),
                p # <<>> /\ Head(p).op = "load" => Head(p).to[1] = f /\ HasOne(s)
         PROVE  SystemTypes' /\ SearchOrder'
    <2>1. /\ feature' \in [Features -> FeatureType] /\ feature'[f] = s
          /\ \A g \in Features : g # f => feature'[g] = feature[g]
      BY <1>21 DEF SystemTypes, FeatureTypes
    <2>2. \A g \in Features : Indexed(feature'[g]) BY <1>16, <1>21, <2>1
    <2>3. stack' \in Seq(Frames) /\ SearchOrder' BY <1>1, <1>21, <2>1, <2>2, CallMoves
    <2>4. fault' \in Faults /\ waiting' \subseteq Backends BY <1>11 DEF SystemTypes, ManagerTypes
    <2>5. ManagerTypes' BY <1>11, <2>3, <2>4, StackTyped DEF SystemTypes
    <2> QED BY <1>20, <2>1, <2>3, <2>5 DEF SystemTypes, FeatureTypes
  <1>22. CASE stack' = Tail(stack) /\ UNCHANGED <<feature, initializing>>
    <2>1. feature' = [feature EXCEPT ![f] = r] /\ Indexed(r)
      BY <1>3, <1>16, <1>22 DEF SystemTypes, FeatureTypes
    <2> QED BY <1>17, <1>18, <1>21, <1>22, <2>1
  <1>23. CASE feature' = [feature EXCEPT ![f] = won] /\ stack' = Tail(stack)
    BY <1>14, <1>17, <1>18, <1>21, <1>23
  <1>24. CASE /\ HasNext(r) /\ feature' = [feature EXCEPT ![f] = next]
              /\ stack' = <<Call("load", f)>> \o Tail(stack)
    <2>1. PICK p \in Seq(Frames) : p = <<Call("load", f)>> /\ FirstOnly(p) /\ Head(p).to[1] = f
      <3>1. "load" \in CallOps BY DEF CallOps
      <3>2. CallOf(<<Call("load", f)>>, "load", f) BY <3>1, OneCall
      <3> QED BY <3>2 DEF CallOf
    <2>2. r.handles \in Seq(Backends) /\ r.index \in Nat BY DEF FeatureType
    <2>3. n = r.index + 1 BY <1>5, <1>7 DEF SameSearch
    <2>4. n # 0 /\ n \in 1..Len(r.handles) BY <1>24, <2>2, <2>3 DEF HasNext
    <2>5. n \in DOMAIN r.handles BY <2>2, <2>4
    <2>6. Indexed(next) /\ HasOne(next) BY <1>10, <2>4, <2>5 DEF Indexed, HasOne
    <2> QED BY <1>21, <1>24, <2>1, <2>6
  <1>25. CASE feature' = [feature EXCEPT ![f] = lost] /\ stack' = q \o Tail(stack)
    BY <1>15, <1>21, <1>25
  <1> QED BY <1>19, <1>22, <1>23, <1>24, <1>25

\* startAutoDiscovery()
LEMMA DiscoveryTyped ==
    ASSUME SystemTypes, SearchOrder, NEW f \in Features, StartAutoDiscovery(f)
    PROVE  SystemTypes' /\ SearchOrder'
  <1>1. PICK r \in FeatureType : r = feature[f] BY DEF SystemTypes, FeatureTypes
  <1>2. AtEventLoop /\ UNCHANGED <<registry, libraryPaths, backend, proxies,
                                   running, posted, waiting, fault, initializing>>
    BY DEF StartAutoDiscovery, MayCall
  <1>3. fault' \in Faults /\ waiting' \subseteq Backends BY <1>2 DEF SystemTypes, ManagerTypes
  <1>4. PICK x \in DiscoveryResults, y \in {"production", "simulation"} :
           /\ x = "NoResult"
           /\ y = IF r.mode = "LoadOnlySimulationBackends" THEN "simulation" ELSE "production"
    BY DEF DiscoveryResults
  <1>5. PICK s, t \in FeatureType : s = [r EXCEPT !.result = x] /\ t = [r EXCEPT !.search = y]
    BY SearchTyped
  <1>6. Indexed(s) /\ Indexed(t)
    <2>1. s.index = r.index /\ s.handles = r.handles /\ t.index = r.index /\ t.handles = r.handles
      BY <1>5 DEF FeatureType
    <2> QED BY <1>1, <2>1 DEF SearchOrder, Indexed
  <1>7. \/ feature' = [feature EXCEPT ![f] = s] /\ stack' = stack
        \/ feature' = [feature EXCEPT ![f] = t] /\ stack' = <<Call("discover", f)>> \o stack
    BY <1>1, <1>4, <1>5 DEF StartAutoDiscovery
  <1>8. PICK p \in Seq(Frames) : p = <<Call("discover", f)>> /\ FirstOnly(p) /\ Head(p).op = "discover"
    <2>1. "discover" \in CallOps BY DEF CallOps
    <2>2. CallOf(<<Call("discover", f)>>, "discover", f) BY <2>1, OneCall
    <2> QED BY <2>2 DEF CallOf
  <1>9. PICK e \in Seq(Frames) : e = <<>> /\ FirstOnly(e) BY FeatureFrames
  <1>10. stack = e \o stack
    <2>1. stack \in Seq(Frames) BY DEF SystemTypes, ManagerTypes
    <2> QED BY <1>9, <2>1
  <1>11. ASSUME NEW u \in FeatureType, Indexed(u), feature' = [feature EXCEPT ![f] = u],
                NEW q \in Seq(Frames), FirstOnly(q), stack' = q \o stack,
                q # <<>> => Head(q).op # "load"
         PROVE  SystemTypes' /\ SearchOrder'
    <2>1. FeatureTypes' /\ feature'[f] = u /\ \A g \in Features : g # f => feature'[g] = feature[g]
      BY <1>2, <1>11, FeatureTyped DEF SystemTypes
    <2>2. \A g \in Features : Indexed(feature'[g]) BY <1>11, <2>1 DEF SearchOrder
    <2>3. stack' \in Seq(Frames) /\ SearchOrder' BY <1>2, <1>11, <2>2, CallMoves
    <2>4. ManagerTypes' BY <1>2, <1>3, <2>3, StackTyped DEF SystemTypes
    <2> QED BY <2>1, <2>3, <2>4 DEF SystemTypes
  <1> QED BY <1>5, <1>6, <1>7, <1>8, <1>9, <1>10, <1>11

\* The calls that change a feature and leave the manager alone
LEMMA SettersTyped ==
    ASSUME SystemTypes, FeaturesSane, FeaturesSane', NEW f \in Features,
           \/ \E so \in proxies \cup {none} : SetServiceObject(f, so)
           \/ SetBackendUpdatesEnabled(f)
    PROVE  FeatureTypes' /\ \A g \in Features : SameSearch(feature[g], feature'[g])
  <1>1. PICK r \in FeatureType : r = feature[f] BY DEF SystemTypes, FeatureTypes
  <1>2. PICK s \in FeatureType : feature' = [feature EXCEPT ![f] = s] /\ SameSearch(r, s)
                                 /\ Initializes(r, s)
    <2>1. CASE \E so \in proxies \cup {none} : SetServiceObject(f, so)
      <3>1. PICK so \in proxies \cup {none} : SetServiceObject(f, so) BY <2>1
      <3>2. so \in ServiceObjectOrNone BY DEF SystemTypes, ManagerTypes, ServiceObjectOrNone, ServiceObjects
      <3>3. PICK s \in FeatureType : s = AfterSet(f, r, so) /\ SameSearch(r, s) BY <3>2, SetTyped
      <3>4. feature' = [feature EXCEPT ![f] = s] /\ Initializes(feature[f], feature'[f])
        BY <1>1, <3>1, <3>3 DEF SetServiceObject
      <3>5. feature'[f] = s BY <3>4 DEF SystemTypes, FeatureTypes
      <3> QED BY <1>1, <3>3, <3>4, <3>5
    <2>2. CASE SetBackendUpdatesEnabled(f)
      <3>1. PICK w \in BOOLEAN : w = ~r.updates BY DEF FeatureType
      <3>2. PICK u \in FeatureType : u = Updating(r, w) /\ SameSearch(r, u) BY BindingTyped
      <3>3. PICK s \in FeatureType : /\ SameSearch(u, s)
                                     /\ s = IF u.so = none THEN u ELSE IF u.updates THEN Connected(f, u) ELSE Disconnected(u)
        <4>1. SameSearch(u, u) BY DEF SameSearch
        <4> QED BY <4>1, BindingTyped
      <3>4. SameSearch(r, s) BY <3>2, <3>3 DEF SameSearch
      <3>5. [feature[f] EXCEPT !.updates = ~@] = u BY <1>1, <3>1, <3>2 DEF Updating, FeatureType
      <3>6. feature' = [feature EXCEPT ![f] = s] /\ Initializes(feature[f], feature'[f])
        BY <1>1, <2>2, <3>3, <3>5 DEF SetBackendUpdatesEnabled
      <3>7. feature'[f] = s BY <3>6 DEF SystemTypes, FeatureTypes
      <3> QED BY <1>1, <3>4, <3>6, <3>7
    <2> QED BY <2>1, <2>2
  <1>3. /\ feature' \in [Features -> FeatureType] /\ feature'[f] = s
        /\ \A g \in Features : g # f => feature'[g] = feature[g]
    BY <1>2 DEF SystemTypes, FeatureTypes
  <1>4. Sane(s)
    <2>1. Sane(feature'[f]) BY DEF FeaturesSane, Sane
    <2> QED BY <1>3, <2>1
  <1>5. initializing' \subseteq Plugins
    BY <1>2, <1>4, InitializesTyped DEF Sane, SystemTypes, FeatureTypes
  <1>6. \A g \in Features : SameSearch(feature[g], feature'[g])
    BY <1>1, <1>2, <1>3 DEF SameSearch
  <1> QED BY <1>3, <1>5, <1>6 DEF FeatureTypes

\* The setters of the search leave its handles alone.
LEMMA OtherSettersTyped ==
    ASSUME SystemTypes, SearchOrder, NEW f \in Features,
           \/ \E mode \in DiscoveryModes : SetDiscoveryMode(f, mode)
           \/ SetAsynchronousBackendLoading(f)
           \/ \E wildcards \in Preferences : SetPreferredBackends(f, wildcards)
    PROVE  /\ FeatureTypes'
           /\ \A g \in Features : feature'[g].handles = feature[g].handles /\ feature'[g].index = feature[g].index
  <1>1. PICK r \in FeatureType : r = feature[f] BY DEF SystemTypes, FeatureTypes
  <1>2. initializing' = initializing
    BY DEF SetDiscoveryMode, SetAsynchronousBackendLoading, SetPreferredBackends
  <1>3. PICK s \in FeatureType : /\ feature' = [feature EXCEPT ![f] = s]
                                 /\ s.handles = r.handles /\ s.index = r.index
    <2>1. CASE \E mode \in DiscoveryModes : SetDiscoveryMode(f, mode)
      <3>1. PICK mode \in DiscoveryModes : feature' = [feature EXCEPT ![f] = [r EXCEPT !.mode = mode]]
        BY <1>1, <2>1 DEF SetDiscoveryMode
      <3>2. PICK s \in FeatureType : s = [r EXCEPT !.mode = mode] BY SearchTyped
      <3> QED BY <3>1, <3>2 DEF FeatureType
    <2>2. CASE SetAsynchronousBackendLoading(f)
      <3>1. PICK w \in BOOLEAN : w = ~r.async BY DEF FeatureType
      <3>2. feature' = [feature EXCEPT ![f] = [r EXCEPT !.async = w]]
        BY <1>1, <2>2, <3>1 DEF SetAsynchronousBackendLoading
      <3>3. PICK s \in FeatureType : s = [r EXCEPT !.async = w] BY SearchTyped
      <3> QED BY <3>2, <3>3 DEF FeatureType
    <2>3. CASE \E wildcards \in Preferences : SetPreferredBackends(f, wildcards)
      <3>1. PICK w \in Preferences : feature' = [feature EXCEPT ![f] = [r EXCEPT !.preferred = w]]
        BY <1>1, <2>3 DEF SetPreferredBackends
      <3>2. PICK s \in FeatureType : s = [r EXCEPT !.preferred = w] BY SearchTyped
      <3> QED BY <3>1, <3>2 DEF FeatureType
    <2> QED BY <2>1, <2>2, <2>3
  <1>4. FeatureTypes' /\ feature'[f] = s /\ \A g \in Features : g # f => feature'[g] = feature[g]
    BY <1>2, <1>3, FeatureTyped DEF SystemTypes
  <1> QED BY <1>1, <1>3, <1>4

\* serviceObjectDestroyed() and onInitializationDone() leave the search of every feature.
LEMMA SlotsTyped ==
    ASSUME SystemTypes, ServiceObjectsDestroyed \/ \E p \in Plugins : InitializationDone(p)
    PROVE  FeatureTypes' /\ \A f \in Features : SamePlace(feature[f], feature'[f])
  <1>1. \A f \in Features : /\ feature[f] \in FeatureType
                            /\ Abandoned(feature[f]) \in FeatureType /\ SamePlace(feature[f], Abandoned(feature[f]))
                            /\ Initialized(feature[f]) \in FeatureType /\ SamePlace(feature[f], Initialized(feature[f]))
                            /\ SamePlace(feature[f], feature[f])
    BY BindingTyped DEF SystemTypes, FeatureTypes, SameSearch, SamePlace
  <1>2. \/ feature' = [f \in Features |-> IF feature[f].watching /\ feature[f].so \notin proxies'
                                          THEN Abandoned(feature[f]) ELSE feature[f]]
        \/ \E p \in Plugins : feature' = [f \in Features |-> IF feature[f].attached /\ feature[f].so[1] = p
                                          THEN Initialized(feature[f]) ELSE feature[f]]
    BY DEF ServiceObjectsDestroyed, InitializationDone, Initialized
  <1>3. initializing' \subseteq initializing BY DEF ServiceObjectsDestroyed, InitializationDone
  <1>4. feature' \in [Features -> FeatureType] /\ \A f \in Features : SamePlace(feature[f], feature'[f])
    BY <1>1, <1>2
  <1> QED BY <1>3, <1>4 DEF SystemTypes, FeatureTypes

\* Every step keeps the types, and the order of the calls of a search.
LEMMA SystemTyped ==
    ASSUME SystemTypes, SearchOrder, FeaturesSane, [Next]_vars
    PROVE  SystemTypes' /\ SearchOrder'
  <1>1. FeaturesSane' BY FeaturesKept
  <1>2. \A f \in Features : SamePlace(feature[f], feature[f]) BY DEF SamePlace
  <1>3. ASSUME [ManagerNext]_managerVars, FeatureTypes',
               \A f \in Features : SamePlace(feature[f], feature'[f])
        PROVE  SystemTypes' /\ SearchOrder'
    <2>1. ManagerTypes' BY <1>3, ManagerTyped DEF SystemTypes
    <2>2. stack' = stack \/ \E p \in Seq(Frames) : ManagerMoves(p)
      BY <1>3, ManagerOnlyMoves DEF SystemTypes, managerVars
    <2>3. SearchOrder' BY <1>3, <2>2, OrderStays
    <2> QED BY <1>3, <2>1, <2>3 DEF SystemTypes
  <1>4. CASE ManagerKeeps \/ UNCHANGED vars
    <2>1. [ManagerNext]_managerVars /\ UNCHANGED <<feature, initializing>>
      BY <1>4 DEF ManagerKeeps, ManagerNext, vars, featureVars
    <2>2. FeatureTypes' BY <2>1 DEF SystemTypes, FeatureTypes
    <2> QED BY <1>2, <1>3, <2>1, <2>2
  <1>5. CASE ServiceObjectsDestroyed
    <2>1. ManagerNext BY <1>5 DEF ServiceObjectsDestroyed, ManagerNext
    <2> QED BY <1>3, <1>5, <2>1, SlotsTyped
  <1>6. CASE \E p \in Plugins : InitializationDone(p)
    <2>1. UNCHANGED managerVars BY <1>6 DEF InitializationDone
    <2> QED BY <1>3, <1>6, <2>1, SlotsTyped
  <1>7. CASE FeatureInternal
    BY <1>7, DiscoverTyped, ChooseTyped, LoadCurrentTyped, NotifyTyped DEF FeatureInternal
  <1>8. CASE FeatureCalls
    <2>1. PICK f \in Features :
             \/ StartAutoDiscovery(f)
             \/ \E so \in proxies \cup {none} : SetServiceObject(f, so)
             \/ SetBackendUpdatesEnabled(f)
             \/ \E mode \in DiscoveryModes : SetDiscoveryMode(f, mode)
             \/ SetAsynchronousBackendLoading(f)
             \/ \E wildcards \in Preferences : SetPreferredBackends(f, wildcards)
      BY <1>8 DEF FeatureCalls
    <2>2. CASE StartAutoDiscovery(f) BY <2>2, DiscoveryTyped
    <2>3. CASE \/ \E so \in proxies \cup {none} : SetServiceObject(f, so)
               \/ SetBackendUpdatesEnabled(f)
      <3>1. FeatureTypes' /\ \A g \in Features : SameSearch(feature[g], feature'[g])
        BY <1>1, <2>3, SettersTyped
      <3>2. UNCHANGED managerVars BY <2>3 DEF SetServiceObject, SetBackendUpdatesEnabled
      <3>3. \A g \in Features : SamePlace(feature[g], feature'[g]) BY <3>1 DEF SameSearch, SamePlace
      <3> QED BY <1>3, <3>1, <3>2, <3>3
    <2>4. CASE \/ \E mode \in DiscoveryModes : SetDiscoveryMode(f, mode)
               \/ SetAsynchronousBackendLoading(f)
               \/ \E wildcards \in Preferences : SetPreferredBackends(f, wildcards)
      <3>1. FeatureTypes' /\ \A g \in Features : SamePlace(feature[g], feature'[g])
        BY <2>4, OtherSettersTyped DEF SamePlace
      <3>2. UNCHANGED managerVars
        BY <2>4 DEF SetDiscoveryMode, SetAsynchronousBackendLoading, SetPreferredBackends
      <3> QED BY <1>3, <3>1, <3>2
    <2> QED BY <2>1, <2>2, <2>3, <2>4
  <1> QED BY <1>4, <1>5, <1>6, <1>7, <1>8 DEF Next

\* The program begins with the search of the constructor, and new features.
LEMMA TypedInitially ==
    ASSUME Init
    PROVE  /\ SystemTypes /\ SearchOrder
           /\ stack = <<SearchFrame>> /\ \A f \in Features : feature[f].index = 0 /\ feature[f].handles = <<>>
  <1>1. PICK mode \in InitialModes, async \in [Features -> InitialAsync] :
           feature = [f \in Features |-> NewFeature(mode, async[f])]
    BY DEF Init
  <1>2. ASSUME NEW f \in Features
        PROVE  feature[f] \in FeatureType /\ feature[f].index = 0 /\ feature[f].handles = <<>>
    <2>1. async[f] \in BOOLEAN /\ mode \in DiscoveryModes
      BY <1>1, <1>2, FeatureAssumption DEF Features
    <2>2. "NoResult" \in DiscoveryResults BY DEF DiscoveryResults
    <2>3. <<>> \in Preferences BY FeatureAssumption DEF none
    <2>4. none \in ServiceObjectOrNone /\ <<>> \in Seq(Backends) BY DEF ServiceObjectOrNone
    <2>5. /\ NewFeature(mode, async[f]) \in FeatureType
          /\ NewFeature(mode, async[f]).index = 0 /\ NewFeature(mode, async[f]).handles = <<>>
      BY <2>1, <2>2, <2>3, <2>4 DEF NewFeature, FeatureType
    <2> QED BY <1>1, <2>5
  <1>3. FeatureTypes
    <2>1. feature \in [Features -> FeatureType] BY <1>1, <1>2
    <2>2. initializing = {} BY DEF Init
    <2> QED BY <2>1, <2>2 DEF FeatureTypes
  <1>4. PICK x \in Frames : x = SearchFrame /\ x.op = "search"
    BY FramesAre, NowhereIs, FrameFields DEF SearchFrame, PlainOps
  <1>5. stack = <<x>> BY <1>4 DEF Init, ManagerInit
  <1>6. /\ stack \in Seq(Frames) /\ Head(stack) = x
        /\ FirstOnly(stack)
    <2>1. <<x>> \in Seq(Frames) /\ Head(<<x>>) = x /\ 1..Len(<<x>>) = {1} OBVIOUS
    <2> QED BY <1>5, <2>1 DEF FirstOnly
  <1>7. \A p \in Plugins : NewBackend(p) \in BackendType BY DEF NewBackend, BackendType
  <1>8. libraryPaths \in Seq(Dirs)
    <2>1. \A d \in Dirs : <<d>> \in Seq(Dirs) OBVIOUS
    <2>2. <<>> \in Seq(Dirs) OBVIOUS
    <2> QED BY <2>1, <2>2 DEF Init, ManagerInit
  <1>9. <<>> \in Seq(Plugins) /\ <<>> \in Seq(Events) OBVIOUS
  <1>10. ManagerTypes
    BY <1>6, <1>7, <1>8, <1>9 DEF Init, ManagerInit, ManagerTypes, Faults
  <1>11. SearchOrder BY <1>2, <1>4, <1>6 DEF SearchOrder, Indexed
  <1> QED BY <1>2, <1>3, <1>4, <1>5, <1>10, <1>11 DEF SystemTypes

\* The types are those that TypeOK states.
LEMMA TypesFit == ASSUME SystemTypes PROVE TypeOK
  <1>1. stack \in Seq([op : Ops, h : Plugins \X Nat,
                       to : Seq(ListenerSet \cup (Plugins \X Nat)), match : SUBSET Plugins])
    BY FramesFit DEF SystemTypes, ManagerTypes
  <1>2. ManagerTypeOK
    BY <1>1 DEF SystemTypes, ManagerTypes, ManagerTypeOK, Backends, BackendType
  <1>3. /\ initializing \subseteq Plugins
        /\ feature \in [Features ->
             [so : ServiceObjects \cup {none}, mode : DiscoveryModes,
              result : DiscoveryResults, search : {"production", "simulation"},
              handles : Seq(Plugins \X Nat), index : Nat,
              preferred : Preferences, async : BOOLEAN, updates : BOOLEAN,
              initialized : BOOLEAN, connected : BOOLEAN, attached : BOOLEAN,
              watching : BOOLEAN]]
    BY DEF SystemTypes, FeatureTypes, FeatureType, ServiceObjectOrNone, Backends
  <1> QED BY <1>2, <1>3 DEF TypeOK

-----------------------------------------------------------------------------
(* Every search that is under way is taken further *)

\* Nothing takes a backend away once it is registered: the application does not
\* unload, and there is no build of a plugin that another would replace.
BackendsStay == "unload" \notin UserCalls /\ \A p \in Plugins \ Resident : Wanted(p)

\* The main thread has a call of the feature to make, or to tell it of the handle.
Busy(q, f) == \E x \in Elements(q) : Calls(x, f)
Told(q, f, h) == \E x \in Elements(q) : Tells(x, f, h)

\* A feature that is in the middle of a search waits for a load that is under way,
\* or the main thread is about to go on with the search.
Owed(f) ==
    \/ feature[f].index = 0 /\ feature[f].handles = <<>>
    \/ Busy(stack, f)
    \/ /\ feature[f].index # 0
       /\ LET h == feature[f].handles[feature[f].index]
          IN  backend[h[1]].loading \/ Told(stack, f, h)
HandlesAreValid ==
    \A f \in Features : \A i \in DOMAIN feature[f].handles : IsValid(feature[f].handles[i])
OwedInv == HandlesAreValid /\ \A f \in Features : Owed(f)

\* What is on the stack when the manager, or the feature whose call it is, goes on.
LEMMA MovesKeep ==
    ASSUME ManagerTypes, stack' = stack \/ \E p \in Seq(Frames) : ManagerMoves(p)
    PROVE  \A f, h : /\ Busy(stack, f) => Busy(stack', f)
                     /\ Told(stack, f, h) => Told(stack', f, h)
  <1>1. stack \in Seq(Frames) BY DEF ManagerTypes
  <1>2. ASSUME NEW p \in Seq(Frames), Replaced(p), NEW f, NEW h
        PROVE  /\ Busy(stack, f) => Busy(stack', f)
               /\ Told(stack, f, h) => Told(stack', f, h)
    <2>1. /\ stack # <<>> /\ Head(stack).op \notin CallOps
          /\ Tells(Head(stack), f, h) => \E x \in Elements(p) : Tells(x, f, h)
      BY <1>2 DEF Replaced
    <2>2. PICK q \in Seq(Frames) : q = Tail(stack)
      <3>1. Tail(stack) \in Seq(Frames) BY <1>1, <2>1, StackMoves
      <3> QED BY <3>1
    <2>3. Elements(stack) = {Head(stack)} \cup Elements(q) BY <1>1, <2>1, <2>2, ElementsOf
    <2>4. stack' = p \o q BY <1>2, <2>2 DEF Replaced
    <2>5. Elements(stack') = Elements(p) \cup Elements(q) BY <2>4, ElementsOf
    <2>6. ~Calls(Head(stack), f) BY <2>1 DEF Calls, CallOps
    <2> QED BY <2>1, <2>3, <2>5, <2>6 DEF Busy, Told
  <1>3. ASSUME NEW p \in Seq(Frames), Interrupts(p), NEW f, NEW h
        PROVE  /\ Busy(stack, f) => Busy(stack', f)
               /\ Told(stack, f, h) => Told(stack', f, h)
    <2>1. stack' = p \o stack BY <1>3 DEF Interrupts
    <2>2. Elements(stack') = Elements(p) \cup Elements(stack) BY <1>1, <2>1, ElementsOf
    <2> QED BY <2>2 DEF Busy, Told
  <1>4. CASE stack' = stack BY <1>4
  <1> QED BY <1>2, <1>3, <1>4 DEF ManagerMoves

\* A call that ends hands what it owes to the calls it makes, and nobody else loses one.
LEMMA CallsTakeOver ==
    ASSUME ManagerTypes, stack # <<>>, Head(stack).op \in CallOps, NEW p \in Seq(Frames),
           stack' = p \o Tail(stack)
    PROVE  /\ \A f, h : (Busy(p, f) => Busy(stack', f)) /\ (Told(p, f, h) => Told(stack', f, h))
           /\ \A f, h : f # Caller => /\ Busy(stack, f) => Busy(stack', f)
                                      /\ Told(stack, f, h) => Told(stack', f, h)
           /\ \A f, h : Head(stack).op = "notify" =>
                                      /\ Busy(stack, f) => Busy(stack', f)
                                      /\ h # Head(stack).h /\ Told(stack, f, h) => Told(stack', f, h)
  <1>1. stack \in Seq(Frames) BY DEF ManagerTypes
  <1>2. PICK q \in Seq(Frames) : q = Tail(stack)
    <2>1. Tail(stack) \in Seq(Frames) BY <1>1, StackMoves
    <2> QED BY <2>1
  <1>3. Elements(stack) = {Head(stack)} \cup Elements(q) BY <1>1, <1>2, ElementsOf
  <1>4. Elements(stack') = Elements(p) \cup Elements(q)
    <2>1. stack' = p \o q BY <1>2
    <2>2. Elements(p \o q) = Elements(p) \cup Elements(q) BY ElementsOf
    <2> QED BY <2>1, <2>2
  <1>5. \A f, h : f # Caller => ~Calls(Head(stack), f) /\ ~Tells(Head(stack), f, h)
    BY DEF Caller, Calls, Tells, CallOps
  <1>6. \A f, h : Head(stack).op = "notify"
                     => ~Calls(Head(stack), f) /\ (Tells(Head(stack), f, h) => h = Head(stack).h)
    BY DEF Calls, Tells
  <1> QED BY <1>3, <1>4, <1>5, <1>6 DEF Busy, Told

\* Calls that begin at the event loop
LEMMA CallsBegin ==
    ASSUME ManagerTypes, NEW p \in Seq(Frames), stack' = p \o stack
    PROVE  \A f, h : /\ Busy(p, f) \/ Busy(stack, f) => Busy(stack', f)
                     /\ Told(p, f, h) \/ Told(stack, f, h) => Told(stack', f, h)
  <1>1. stack \in Seq(Frames) BY DEF ManagerTypes
  <1>2. Elements(stack') = Elements(p) \cup Elements(stack) BY <1>1, ElementsOf
  <1> QED BY <1>2 DEF Busy, Told

\* Who is called, and who is told
LEMMA WhoIsCalled ==
    ASSUME NEW f \in Features
    PROVE  /\ \A op \in {"discover", "choose", "load"} : Busy(<<Call(op, f)>>, f)
           /\ Busy(<<SearchFrame, Call("choose", f)>>, f)
           /\ \A h : Told(<<Frame("notify", h, <<f>>, {})>>, f, h)
           /\ \A h : Told(<<Emission(h)>>, f, h) /\ Told(CreateThenEmit(h), f, h)
  <1>1. \A op \in {"discover", "choose", "load"} : Calls(Call(op, f), f)
    BY FrameFields DEF Calls, Call
  <1>2. \A h : Tells(Frame("notify", h, <<f>>, {}), f, h) BY FrameFields DEF Tells
  <1>3. \A h : Tells(Emission(h), f, h)
    <2>1. \E i \in 1..Len(Listeners) : Listeners[i] = f
      BY ManagerAssumption DEF Features, ListenerSet
    <2>2. \A h : Emission(h).op = "emit" /\ Emission(h).h = h /\ Emission(h).to = Listeners
      BY FrameFields DEF Emission
    <2> QED BY <2>1, <2>2 DEF Tells
  <1> QED BY <1>1, <1>2, <1>3, FewElements DEF Busy, Told, CreateThenEmit

-----------------------------------------------------------------------------
(* What stays of the backends *)

\* A registered backend stays what its handle names.
LEMMA RegisteredStay ==
    ASSUME BackendsStay, RegistryInv, [Next]_vars
    PROVE  \A h : IsValid(h) => IsValid(h)'
  <1>1. ASSUME UNCHANGED <<m_backends, life>> PROVE \A h : IsValid(h) => IsValid(h)'
    BY <1>1 DEF IsValid, Registered
  <1>2. CASE FeatureInternal \/ FeatureCalls \/ \E p \in Plugins : InitializationDone(p)
    <2>1. UNCHANGED <<m_backends, life>>
      BY <1>2 DEF FeatureInternal, FeatureCalls, Discover, ChooseHandles, LoadCurrentHandle,
                  OnServiceObjectLoaded, StartAutoDiscovery, SetServiceObject, SetBackendUpdatesEnabled,
                  SetDiscoveryMode, SetAsynchronousBackendLoading, SetPreferredBackends,
                  InitializationDone, managerVars, registry
    <2> QED BY <1>1, <2>1
  <1>3. CASE ManagerKeeps \/ UNCHANGED vars
    <2>1. UNCHANGED <<m_backends, life>>
      BY <1>3 DEF ManagerKeeps, vars, managerVars, registry, ManagerInternal, ManagerCalls, Threads,
                  SearchPlugins, CreateAll, CreateEach, WaitForLoad, ThreadJoined, SpinDone,
                  CreateServiceObject, UseDeletedBackend, EmitServiceObjectLoaded, RegisterService,
                  ReadServiceObjectRole, AddLibraryPath, FindServiceByInterface, UserLoad, ThreadLoads,
                  RunningThreadDeleted, ThreadDeleted, HandlePosted
    <2> QED BY <1>1, <2>1
  <1>4. CASE ServiceObjectsDestroyed
    <2>1. AddBackend
      BY <1>4 DEF ServiceObjectsDestroyed, ManagerDeletes, UnloadAllBackends, MayCall, BackendsStay
    <2>2. CASE UNCHANGED <<m_backends, life, backend, proxies>> BY <1>1, <2>2
    <2>3. ASSUME NEW p \in Plugins \ Registered, life' = [life EXCEPT ![p] = @ + 1],
                 Registered' = Registered \cup {p}
          PROVE  \A h : IsValid(h) => IsValid(h)'
      <3>1. life \in [Plugins -> Nat] BY DEF RegistryInv, RegistryTypes
      <3>2. Registered \subseteq Plugins BY DEF RegistryInv, RegistryTypes, Registered
      <3> QED BY <2>3, <3>1, <3>2 DEF IsValid
    <2>4. Registered \subseteq Plugins BY DEF RegistryInv, RegistryTypes, Registered
    <2> QED BY <2>1, <2>2, <2>3, <2>4, AddBackendEffect DEF BackendsStay
  <1> QED BY <1>2, <1>3, <1>4 DEF Next

\* loadServiceObject() of a handle: whoever waited for a load still does, and the
\* handle is loaded, or everyone is about to be told of it.
LEMMA LoadGoesOn ==
    ASSUME ManagerTypes, NEW h \in Backends, NEW async, NEW frames, LoadServiceObject(h, async, frames)
    PROVE  /\ \A p \in Plugins : backend[p].loading => backend'[p].loading
           /\ IsValid(h) => \/ backend'[h[1]].loading /\ stack' = frames
                            \/ stack' = CreateThenEmit(h) \o frames
  <1>1. CASE UNCHANGED backend /\ ~(IsValid(h) /\ async)
    BY <1>1 DEF LoadServiceObject
  <1>2. CASE IsValid(h) /\ async
    <2>1. BeginAsyncLoad(h[1]) /\ stack' = frames BY <1>2 DEF LoadServiceObject
    <2>2. PICK p \in Plugins : p = h[1] BY DEF Backends
    <2>3. PICK b \in BackendType : b = backend[p] BY DEF ManagerTypes
    <2>4. PICK n \in Nat : n = b.tries + 1 BY DEF BackendType
    <2>5. \/ b.loading /\ UNCHANGED backend
          \/ backend' = [backend EXCEPT ![p] = TriedPosting(b, n)]
          \/ backend' = [backend EXCEPT ![p] = TriedRunning(b, n)]
      <3>1. /\ [b EXCEPT !.loading = TRUE, !.tries = @ + 1] = TriedPosting(b, n)
            /\ [b EXCEPT !.loading = TRUE, !.thread = TRUE, !.tries = @ + 1] = TriedRunning(b, n)
        BY <2>4 DEF TriedPosting, TriedRunning, BackendType
      <3> QED BY <2>1, <2>2, <2>3, <3>1 DEF BeginAsyncLoad, LoadUnderWay
    <2>6. TriedPosting(b, n).loading /\ TriedRunning(b, n).loading
      BY DEF TriedPosting, TriedRunning, BackendType
    <2>7. backend \in [Plugins -> BackendType] BY DEF ManagerTypes
    <2>8. backend'[p].loading /\ \A q \in Plugins : q # p => backend'[q] = backend[q]
      BY <2>3, <2>5, <2>6, <2>7
    <2> QED BY <2>1, <2>2, <2>8
  <1>3. UNCHANGED backend \/ (IsValid(h) /\ async) BY DEF LoadServiceObject
  <1> QED BY <1>1, <1>2, <1>3

\* A load that was waited for is still under way, or everyone is about to be told.
LEMMA LoadsGoOn ==
    ASSUME BackendsStay, RegistryInv, ManagerTypes, [ManagerNext]_managerVars, NEW h \in Backends, IsValid(h),
           backend[h[1]].loading
    PROVE  \/ backend'[h[1]].loading
           \/ stack' = <<Emission(h)>> \o stack
  <1>1. PICK p \in Plugins : p = h[1] /\ p \in Registered /\ h[2] = life[p]
    BY DEF IsValid, Registered, RegistryInv, RegistryTypes
  <1>2. PICK b \in BackendType : b = backend[p] /\ b.loading BY <1>1 DEF ManagerTypes
  <1>3. backend \in [Plugins -> BackendType] BY DEF ManagerTypes
  <1>4. CASE UNCHANGED backend BY <1>4
  <1>5. CASE CreateServiceObject
    <2>1. PICK q, v : backend' = [backend EXCEPT ![q] = v] /\ ~backend[q].loading
      BY <1>5 DEF CreateServiceObject
    <2>2. q # p BY <1>2, <2>1
    <2>3. backend'[p] = backend[p] BY <1>3, <2>1, <2>2
    <2> QED BY <1>1, <1>2, <2>3
  <1>6. CASE \E g \in Handles, async \in BOOLEAN : UserLoad(g, async)
    <2>1. PICK g \in Handles, async \in BOOLEAN : UserLoad(g, async) BY <1>6
    <2>2. g \in Backends BY ManagerAssumption DEF Handles, Backends
    <2> QED BY <1>1, <1>2, <2>1, <2>2, LoadGoesOn DEF UserLoad
  <1>7. CASE AddBackend
    <2>1. CASE UNCHANGED backend BY <1>4, <2>1
    <2>2. ASSUME NEW q \in Plugins \ Registered, backend' = [backend EXCEPT ![q] = NewBackend(q)]
          PROVE  backend'[p].loading
      BY <1>1, <1>2, <1>3, <2>2
    <2> QED BY <1>1, <1>7, <2>1, <2>2, AddBackendEffect
  <1>8. CASE \E q \in Plugins : ThreadDeleted(q)
    <2>1. PICK q \in Plugins : backend' = [backend EXCEPT ![q].thread = FALSE]
      BY <1>8 DEF ThreadDeleted
    <2>2. backend'[p].loading = backend[p].loading BY <1>2, <1>3, <2>1 DEF BackendType
    <2> QED BY <1>1, <1>2, <2>2
  <1>9. CASE HandlePosted
    <2>1. PICK g, v : /\ g = Head(posted).h
                      /\ \/ UNCHANGED backend
                         \/ /\ IsValid(g) /\ stack' = <<Emission(g)>> \o stack
                            /\ backend' = [backend EXCEPT ![g[1]] = v]
      BY <1>9 DEF HandlePosted, Signal
    <2>2. g \in Backends
      <3>1. posted # <<>> /\ posted \in Seq(Events) BY <1>9 DEF HandlePosted, ManagerTypes
      <3>2. Head(posted) \in Events BY <3>1
      <3> QED BY <2>1, <3>2 DEF Events, Backends
    <2>3. CASE g[1] # p /\ backend' = [backend EXCEPT ![g[1]] = v]
      <3>1. backend'[p] = backend[p] BY <1>3, <2>3
      <3> QED BY <1>1, <1>2, <3>1
    <2>4. CASE g[1] = p /\ IsValid(g) /\ stack' = <<Emission(g)>> \o stack
      <3>1. g[2] = h[2] BY <1>1, <2>4 DEF IsValid
      <3>2. Emission(g) = Emission(h)
        <4>1. g = <<g[1], g[2]>> /\ h = <<h[1], h[2]>> BY <2>2 DEF Backends
        <4>2. g = h BY <1>1, <2>4, <3>1, <4>1
        <4> QED BY <4>2
      <3> QED BY <2>4, <3>2
    <2> QED BY <1>4, <2>1, <2>3, <2>4
  <1>10. UNCHANGED backend \/ CreateServiceObject \/ AddBackend \/ HandlePosted
         \/ (\E g \in Handles, async \in BOOLEAN : UserLoad(g, async)) \/ (\E q \in Plugins : ThreadDeleted(q))
    BY DEF ManagerNext, ManagerInternal, ManagerCalls, ManagerDeletes, Threads, managerVars, registry,
           SearchPlugins, CreateAll, CreateEach, WaitForLoad, ThreadJoined, SpinDone,
           UseDeletedBackend, EmitServiceObjectLoaded, RegisterService, ReadServiceObjectRole,
           AddLibraryPath, FindServiceByInterface, ThreadLoads, RunningThreadDeleted, UnloadAllBackends
  <1> QED BY <1>4, <1>5, <1>6, <1>7, <1>8, <1>9, <1>10

\* The manager moves, and a feature stays in its place.
LEMMA OwedStays ==
    ASSUME SystemTypes, SearchOrder, OwedInv, \A h : IsValid(h) => IsValid(h)',
           \A f \in Features : SamePlace(feature[f], feature'[f]),
           stack' = stack \/ \E p \in Seq(Frames) : ManagerMoves(p),
           \A h \in Backends : IsValid(h) /\ backend[h[1]].loading
                                  => backend'[h[1]].loading \/ stack' = <<Emission(h)>> \o stack
    PROVE  OwedInv'
  <1>1. ManagerTypes /\ feature \in [Features -> FeatureType] BY DEF SystemTypes, FeatureTypes
  <1>2. HandlesAreValid' BY DEF OwedInv, HandlesAreValid, SamePlace
  <1>3. ASSUME NEW f \in Features PROVE Owed(f)'
    <2>1. feature'[f].index = feature[f].index /\ feature'[f].handles = feature[f].handles
      BY <1>3 DEF SamePlace
    <2>2. CASE feature[f].index = 0 /\ feature[f].handles = <<>> BY <2>1, <2>2 DEF Owed
    <2>3. CASE Busy(stack, f)
      <3>1. Busy(stack', f) BY <1>1, <2>3, MovesKeep
      <3>2. Busy(stack, f)' BY <3>1 DEF Busy, Elements, Calls
      <3> QED BY <3>2 DEF Owed
    <2>4. CASE feature[f].index # 0
      <3>1. PICK h : h = feature[f].handles[feature[f].index] OBVIOUS
      <3>2. /\ feature[f].index \in DOMAIN feature[f].handles
            /\ feature[f].handles \in Seq(Backends)
        BY <1>1, <1>3, <2>4 DEF SearchOrder, Indexed, FeatureType
      <3>3. h \in Backends /\ IsValid(h)
        BY <1>3, <3>1, <3>2 DEF OwedInv, HandlesAreValid
      <3>4. CASE Told(stack, f, h)
        <4>1. Told(stack', f, h) BY <1>1, <3>4, MovesKeep
        <4>2. Told(stack, f, h)' BY <4>1 DEF Told, Elements, Tells
        <4> QED BY <2>1, <2>4, <3>1, <4>1 DEF Owed
      <3>5. CASE backend[h[1]].loading
        <4>1. CASE backend'[h[1]].loading BY <2>1, <2>4, <3>1, <4>1 DEF Owed
        <4>2. CASE stack' = <<Emission(h)>> \o stack
          <5>1. PICK p \in Seq(Frames) : p = <<Emission(h)>>
            <6>1. PICK x \in Frames : x = Emission(h) BY <1>1, <3>3, ManagerFrames
            <6>2. <<x>> \in Seq(Frames) OBVIOUS
            <6> QED BY <6>1, <6>2
          <5>2. Told(p, f, h) BY <1>3, <5>1, WhoIsCalled
          <5>3. Told(stack', f, h) BY <1>1, <4>2, <5>1, <5>2, CallsBegin
          <5> QED BY <2>1, <2>4, <3>1, <5>3 DEF Owed
        <4> QED BY <3>3, <3>5, <4>1, <4>2
      <3>6. CASE Busy(stack, f) BY <2>3, <3>6
      <3> QED BY <1>3, <2>4, <3>1, <3>4, <3>5, <3>6 DEF OwedInv, Owed
    <2> QED BY <1>3, <2>2, <2>3, <2>4 DEF OwedInv, Owed
  <1> QED BY <1>2, <1>3 DEF OwedInv

\* A call of one feature gives way to others, and nobody is forgotten.
LEMMA OwedAfterCall ==
    ASSUME SystemTypes, OwedInv, UNCHANGED <<m_backends, life>>,
           stack # <<>>, Head(stack).op \in CallOps, NEW p \in Seq(Frames), stack' = p \o Tail(stack),
           NEW c \in Features, c = Caller, \A g \in Features : g # c => feature'[g] = feature[g],
           \A q \in Plugins : backend[q].loading => backend'[q].loading,
           \A i \in DOMAIN feature'[c].handles : IsValid(feature'[c].handles[i]),
           SearchOrder, Owed(c)'
    PROVE  OwedInv'
  <1>1. ManagerTypes /\ feature \in [Features -> FeatureType] BY DEF SystemTypes, FeatureTypes
  <1>2. \A h : IsValid(h) => IsValid(h)' BY DEF IsValid, Registered
  <1>3. HandlesAreValid' BY <1>2 DEF OwedInv, HandlesAreValid
  <1>4. ASSUME NEW f \in Features, f # c PROVE Owed(f)'
    <2>1. feature'[f] = feature[f] BY <1>4
    <2>2. CASE feature[f].index = 0 /\ feature[f].handles = <<>> BY <2>1, <2>2 DEF Owed
    <2>3. CASE Busy(stack, f)
      <3>1. Busy(stack', f) BY <1>1, <1>4, <2>3, CallsTakeOver
      <3> QED BY <3>1 DEF Owed
    <2>4. CASE feature[f].index # 0 /\ Told(stack, f, feature[f].handles[feature[f].index])
      <3>1. Told(stack', f, feature[f].handles[feature[f].index]) BY <1>1, <1>4, <2>4, CallsTakeOver
      <3> QED BY <2>1, <2>4, <3>1 DEF Owed
    <2>5. CASE feature[f].index # 0 /\ backend[feature[f].handles[feature[f].index][1]].loading
      <3>1. /\ feature[f].index \in DOMAIN feature[f].handles
            /\ feature[f].handles \in Seq(Backends)
        BY <1>1, <1>4, <2>5 DEF SearchOrder, Indexed, FeatureType
      <3>2. feature[f].handles[feature[f].index][1] \in Plugins BY <3>1 DEF Backends
      <3> QED BY <2>1, <2>5, <3>2 DEF Owed
    <2> QED BY <1>4, <2>2, <2>3, <2>4, <2>5 DEF OwedInv, Owed
  <1> QED BY <1>3, <1>4 DEF OwedInv

\* One feature of all has changed.
LEMMA OnlyOne ==
    ASSUME FeatureTypes, NEW f \in Features, NEW s, feature' = [feature EXCEPT ![f] = s]
    PROVE  feature'[f] = s /\ \A g \in Features : g # f => feature'[g] = feature[g]
  BY DEF FeatureTypes

\* loadServiceObject()
LEMMA DiscoverOwes ==
    ASSUME SystemTypes, SearchOrder, OwedInv, Discover PROVE OwedInv'
  <1>1. stack # <<>> /\ Head(stack).op \in CallOps BY DEF Discover, Top, CallOps
  <1>2. PICK f \in Features : f = Caller BY <1>1, CallerIs DEF SystemTypes
  <1>3. UNCHANGED <<m_backends, life, backend, feature>> BY DEF Discover, registry, featureVars
  <1>4. PICK p \in Seq(Frames) : stack' = p \o Tail(stack) /\ Busy(p, f)
    <2>1. \/ stack' = <<SearchFrame, Call("choose", f)>> \o Tail(stack)
          \/ stack' = <<Call("load", f)>> \o Tail(stack)
      BY <1>2 DEF Discover
    <2>2. "load" \in CallOps /\ "load" \in {"discover", "choose", "load"} BY DEF CallOps
    <2>3. PICK p, q \in Seq(Frames) : p = <<SearchFrame, Call("choose", f)>> /\ q = <<Call("load", f)>>
      BY <2>2, FeatureFrames
    <2>4. Busy(p, f) /\ Busy(q, f) BY <2>2, <2>3, WhoIsCalled
    <2>5. stack' = p \o Tail(stack) \/ stack' = q \o Tail(stack) BY <2>1, <2>3
    <2> QED BY <2>4, <2>5
  <1>5. Busy(stack', f) BY <1>1, <1>4, CallsTakeOver DEF SystemTypes
  <1>6. Owed(f)' BY <1>5 DEF Owed
  <1>7. \A g \in Features : g # f => feature'[g] = feature[g] BY <1>3
  <1>8. \A i \in DOMAIN feature'[f].handles : IsValid(feature'[f].handles[i])
    BY <1>3 DEF OwedInv, HandlesAreValid
  <1>9. \A q \in Plugins : backend[q].loading => backend'[q].loading BY <1>3
  <1> QED BY <1>1, <1>2, <1>3, <1>4, <1>6, <1>7, <1>8, <1>9, OwedAfterCall

\* findServiceByInterface() of a discovery
LEMMA ChooseOwes ==
    ASSUME SystemTypes, SearchOrder, OwedInv, ChooseHandles PROVE OwedInv'
  <1>1. stack # <<>> /\ Head(stack).op \in CallOps BY DEF ChooseHandles, Top, CallOps
  <1>2. PICK f \in Features : f = Caller BY <1>1, CallerIs DEF SystemTypes
  <1>3. PICK r \in FeatureType : r = feature[f] BY DEF SystemTypes, FeatureTypes
  <1>4. PICK found : found = Found(Matching(FeatureInterface[f], Kind(r.search)), r.preferred) OBVIOUS
  <1>5. found \in Seq(Plugins) /\ \A i \in DOMAIN found : found[i] \in Registered
    BY <1>4, FoundAreRegistered DEF SystemTypes, ManagerTypes
  <1>6. PICK hs : hs = [i \in DOMAIN found |-> HandleOf(found[i])] OBVIOUS
  <1>7. PICK n : n = IF found = <<>> THEN 0 ELSE 1 OBVIOUS
  <1>8. PICK s : s = [r EXCEPT !.handles = hs, !.index = n] OBVIOUS
  <1>9. s.handles = hs BY <1>8 DEF FeatureType
  <1>10. /\ feature' = [feature EXCEPT ![f] = s]
         /\ stack' = <<Call("load", f)>> \o Tail(stack)
         /\ UNCHANGED <<m_backends, life, backend>>
    BY <1>2, <1>3, <1>4, <1>6, <1>7, <1>8 DEF ChooseHandles, registry
  <1>11. feature'[f] = s /\ \A g \in Features : g # f => feature'[g] = feature[g]
    BY <1>10, OnlyOne DEF SystemTypes
  <1>12. \A i \in DOMAIN feature'[f].handles : IsValid(feature'[f].handles[i])
    BY <1>5, <1>6, <1>9, <1>11 DEF IsValid, HandleOf
  <1>13. PICK p \in Seq(Frames) : stack' = p \o Tail(stack) /\ Busy(p, f)
    <2>1. "load" \in CallOps /\ "load" \in {"discover", "choose", "load"} BY DEF CallOps
    <2>2. PICK q \in Seq(Frames) : q = <<Call("load", f)>> BY <2>1, FeatureFrames
    <2>3. Busy(q, f) BY <2>1, <2>2, WhoIsCalled
    <2> QED BY <1>10, <2>2, <2>3
  <1>14. Busy(stack', f) BY <1>1, <1>13, CallsTakeOver DEF SystemTypes
  <1>15. Owed(f)' BY <1>14 DEF Owed
  <1>16. \A q \in Plugins : backend[q].loading => backend'[q].loading BY <1>10
  <1> QED BY <1>1, <1>2, <1>10, <1>11, <1>12, <1>13, <1>15, <1>16, OwedAfterCall

\* onServiceObjectFailure(): the search falls back, or it is over.
LEMMA FailureOwes ==
    ASSUME NEW f \in Features, NEW r \in FeatureType
    PROVE  /\ \/ AfterFailure(r).index = 0 /\ AfterFailure(r).handles = <<>>
              \/ Busy(NextAfterFailure(f, r), f)
           /\ AfterFailure(r).handles = <<>> \/ AfterFailure(r).handles = r.handles
           /\ NextAfterFailure(f, r) \in Seq(Frames)
  <1>1. NextAfterFailure(f, r) \in Seq(Frames) BY FailureTyped
  <1>2. CASE FallsBack(r)
    <2>1. Busy(NextAfterFailure(f, r), f) BY <1>2, WhoIsCalled DEF NextAfterFailure
    <2>2. AfterFailure(r).handles = r.handles BY <1>2 DEF AfterFailure, FeatureType
    <2> QED BY <1>1, <2>1, <2>2
  <1>3. CASE ~FallsBack(r)
    <2>1. AfterFailure(r).index = 0 /\ AfterFailure(r).handles = <<>>
      BY <1>3 DEF AfterFailure, FeatureType
    <2> QED BY <1>1, <2>1
  <1> QED BY <1>2, <1>3

\* The rest of loadServiceObject()
LEMMA LoadCurrentOwes ==
    ASSUME SystemTypes, SearchOrder, OwedInv, LoadCurrentHandle PROVE OwedInv'
  <1>1. stack # <<>> /\ Head(stack).op = "load" /\ Head(stack).op \in CallOps
    BY DEF LoadCurrentHandle, Top, CallOps
  <1>2. PICK f \in Features : f = Caller BY <1>1, CallerIs DEF SystemTypes
  <1>3. PICK r \in FeatureType : r = feature[f] BY DEF SystemTypes, FeatureTypes
  <1>4. UNCHANGED <<m_backends, life>> BY DEF LoadCurrentHandle, registry
  <1>5. ManagerTypes BY DEF SystemTypes
  <1>6. CASE r.handles = <<>>
    <2>1. PICK s, p : s = AfterFailure(r) /\ p = NextAfterFailure(f, r) OBVIOUS
    <2>2. /\ feature' = [feature EXCEPT ![f] = s] /\ stack' = p \o Tail(stack) /\ UNCHANGED backend
      BY <1>2, <1>3, <1>6, <2>1 DEF LoadCurrentHandle
    <2>3. feature'[f] = s /\ \A g \in Features : g # f => feature'[g] = feature[g]
      BY <2>2, OnlyOne DEF SystemTypes
    <2>4. /\ p \in Seq(Frames) /\ s.handles = <<>>
          /\ (s.index = 0 /\ s.handles = <<>>) \/ Busy(p, f)
      BY <1>6, <2>1, FailureOwes
    <2>5. Owed(f)'
      <3>1. CASE s.index = 0 /\ s.handles = <<>> BY <2>3, <3>1 DEF Owed
      <3>2. CASE Busy(p, f)
        <4>1. Busy(stack', f) BY <1>1, <1>5, <2>2, <2>4, <3>2, CallsTakeOver
        <4> QED BY <4>1 DEF Owed
      <3> QED BY <2>4, <3>1, <3>2
    <2>6. \A i \in DOMAIN feature'[f].handles : IsValid(feature'[f].handles[i]) BY <2>3, <2>4
    <2>7. \A q \in Plugins : backend[q].loading => backend'[q].loading BY <2>2
    <2> QED BY <1>1, <1>2, <1>4, <2>2, <2>3, <2>4, <2>5, <2>6, <2>7, OwedAfterCall
  <1>7. CASE r.handles # <<>>
    <2>1. r.index \in DOMAIN r.handles
      BY <1>1, <1>2, <1>3, <1>7 DEF SearchOrder, Indexed, HasOne
    <2>2. r.handles \in Seq(Backends) BY DEF FeatureType
    <2>3. PICK h \in Backends : h = r.handles[r.index] BY <2>1, <2>2
    <2>4. IsValid(h) BY <1>3, <2>1, <2>3 DEF OwedInv, HandlesAreValid
    <2>5. r.index # 0 BY <2>1, <2>2
    <2>6. feature' = feature BY <1>2, <1>3, <1>7 DEF LoadCurrentHandle
    <2>7. \A g \in Features : g # f => feature'[g] = feature[g] BY <2>6
    <2>8. \A i \in DOMAIN feature'[f].handles : IsValid(feature'[f].handles[i])
      BY <2>6 DEF OwedInv, HandlesAreValid
    <2>9. PICK p, q, e \in Seq(Frames) : /\ p = <<Frame("notify", h, <<f>>, {})>>
                                         /\ q = CreateThenEmit(h) /\ e = <<>>
      <3>1. <<Frame("notify", h, <<f>>, {})>> \in Seq(Frames) BY FeatureFrames
      <3>2. CreateThenEmit(h) \in Seq(Frames) BY <1>5, ManagerFrames
      <3>3. <<>> \in Seq(Frames) OBVIOUS
      <3> QED BY <3>1, <3>2, <3>3
    <2>10. Tail(stack) = e \o Tail(stack)
      <3>1. Tail(stack) \in Seq(Frames) BY <1>1, <1>5, CallerIs
      <3> QED BY <2>9, <3>1
    <2>11. PICK u \in Seq(Frames) : /\ stack' = u \o Tail(stack)
                                    /\ Told(u, f, h) \/ backend'[h[1]].loading
                                    /\ \A x \in Plugins : backend[x].loading => backend'[x].loading
      <3>1. CASE IsLoaded(h)
        <4>1. stack' = p \o Tail(stack) /\ UNCHANGED backend
          BY <1>2, <1>3, <1>7, <2>3, <2>9, <3>1 DEF LoadCurrentHandle
        <4>2. Told(p, f, h) BY <2>9, WhoIsCalled
        <4> QED BY <4>1, <4>2
      <3>2. CASE ~IsLoaded(h)
        <4>1. LoadServiceObject(h, r.async, Tail(stack))
          BY <1>2, <1>3, <1>7, <2>3, <3>2 DEF LoadCurrentHandle
        <4>2. /\ \A x \in Plugins : backend[x].loading => backend'[x].loading
              /\ \/ backend'[h[1]].loading /\ stack' = Tail(stack)
                 \/ stack' = CreateThenEmit(h) \o Tail(stack)
          BY <1>5, <2>4, <4>1, LoadGoesOn
        <4>3. Told(q, f, h) BY <2>9, WhoIsCalled
        <4> QED BY <2>9, <2>10, <4>2, <4>3
      <3> QED BY <3>1, <3>2
    <2>12. Owed(f)'
      <3>1. feature'[f].index # 0 /\ feature'[f].handles[feature'[f].index] = h
        BY <1>3, <2>3, <2>5, <2>6
      <3>2. CASE Told(u, f, h)
        <4>1. Told(stack', f, h) BY <1>1, <1>5, <2>11, <3>2, CallsTakeOver
        <4> QED BY <3>1, <4>1 DEF Owed
      <3>3. CASE backend'[h[1]].loading BY <3>1, <3>3 DEF Owed
      <3> QED BY <2>11, <3>2, <3>3
    <2> QED BY <1>1, <1>2, <1>4, <2>7, <2>8, <2>11, <2>12, OwedAfterCall
  <1> QED BY <1>6, <1>7

\* onServiceObjectLoaded()
LEMMA NotifyOwes ==
    ASSUME SystemTypes, SearchOrder, OwedInv, OnServiceObjectLoaded PROVE OwedInv'
  <1>1. stack # <<>> /\ Head(stack).op = "notify" /\ Head(stack).op \in CallOps
    BY DEF OnServiceObjectLoaded, Top, CallOps
  <1>2. PICK f \in Features, h \in Backends : f = Caller /\ h = Head(stack).h
    BY <1>1, CallerIs DEF SystemTypes
  <1>3. PICK r \in FeatureType : r = feature[f] BY DEF SystemTypes, FeatureTypes
  <1>4. PICK so \in ServiceObjectOrNone : so = ServiceObjectOf(h)
    <2>1. h[1] \in Plugins /\ life[h[1]] \in Nat /\ backend[h[1]].proxy \in Nat
      BY DEF SystemTypes, ManagerTypes, BackendType, Backends
    <2> QED BY <2>1 DEF ServiceObjectOf, ProxyOf, ServiceObjectOrNone, ServiceObjects
  <1>5. PICK set \in FeatureType : set = AfterSet(f, r, so) /\ SameSearch(r, set) BY SetTyped
  <1>6. PICK n \in Nat : n = set.index + 1 BY DEF FeatureType
  <1>7. PICK next \in FeatureType : next = [set EXCEPT !.index = n] BY SearchTyped
  <1>8. [set EXCEPT !.index = @ + 1] = next BY <1>6, <1>7 DEF FeatureType
  <1>9. next.handles = r.handles BY <1>5, <1>7 DEF FeatureType, SameSearch
  <1>10. PICK x : x = IF r.search = "production" THEN "ProductionBackendLoaded"
                      ELSE "SimulationBackendLoaded"
    OBVIOUS
  <1>11. PICK won : won = [set EXCEPT !.index = 0, !.handles = <<>>, !.result = x] OBVIOUS
  <1>12. won.index = 0 /\ won.handles = <<>> BY <1>11 DEF FeatureType
  <1>13. PICK lost, q : lost = AfterFailure(next) /\ q = NextAfterFailure(f, next) OBVIOUS
  <1>14. /\ (lost.index = 0 /\ lost.handles = <<>>) \/ Busy(q, f)
         /\ lost.handles = <<>> \/ lost.handles = r.handles
         /\ q \in Seq(Frames)
    BY <1>9, <1>13, FailureOwes
  <1>15. ManagerTypes /\ FeatureTypes BY DEF SystemTypes
  <1>16. PICK p, e \in Seq(Frames) : p = <<Call("load", f)>> /\ e = <<>> /\ Busy(p, f)
    <2>1. "load" \in CallOps /\ "load" \in {"discover", "choose", "load"} BY DEF CallOps
    <2>2. PICK p \in Seq(Frames) : p = <<Call("load", f)>> BY <2>1, FeatureFrames
    <2>3. <<>> \in Seq(Frames) OBVIOUS
    <2> QED BY <2>1, <2>2, <2>3, WhoIsCalled
  <1>17. Tail(stack) = e \o Tail(stack)
    <2>1. Tail(stack) \in Seq(Frames) BY <1>1, <1>15, CallerIs
    <2> QED BY <1>16, <2>1
  <1>18. UNCHANGED <<m_backends, life, backend>> BY DEF OnServiceObjectLoaded, registry
  <1>19. \A y \in Plugins : backend[y].loading => backend'[y].loading BY <1>18
  <1>20. \A i \in DOMAIN r.handles : IsValid(r.handles[i]) BY <1>3 DEF OwedInv, HandlesAreValid
  <1>21. \/ ~IsAwaited(r, h) /\ stack' = e \o Tail(stack) /\ feature' = feature
         \/ feature' = [feature EXCEPT ![f] = won] /\ stack' = e \o Tail(stack)
         \/ feature' = [feature EXCEPT ![f] = next] /\ stack' = p \o Tail(stack)
         \/ feature' = [feature EXCEPT ![f] = lost] /\ stack' = q \o Tail(stack)
    BY <1>2, <1>3, <1>4, <1>5, <1>8, <1>10, <1>11, <1>13, <1>16, <1>17
       DEF OnServiceObjectLoaded, featureVars
  <1>22. ASSUME NEW s, feature' = [feature EXCEPT ![f] = s], NEW u \in Seq(Frames),
                stack' = u \o Tail(stack), s.handles = <<>> \/ s.handles = r.handles,
                (s.index = 0 /\ s.handles = <<>>) \/ Busy(u, f)
         PROVE  OwedInv'
    <2>1. feature'[f] = s /\ \A g \in Features : g # f => feature'[g] = feature[g]
      BY <1>15, <1>22, OnlyOne
    <2>2. Owed(f)'
      <3>1. CASE s.index = 0 /\ s.handles = <<>> BY <2>1, <3>1 DEF Owed
      <3>2. CASE Busy(u, f)
        <4>1. Busy(stack', f) BY <1>1, <1>15, <1>22, <3>2, CallsTakeOver
        <4> QED BY <4>1 DEF Owed
      <3> QED BY <1>22, <3>1, <3>2
    <2>3. \A i \in DOMAIN feature'[f].handles : IsValid(feature'[f].handles[i])
      BY <1>20, <1>22, <2>1
    <2> QED BY <1>1, <1>2, <1>18, <1>19, <1>22, <2>1, <2>2, <2>3, OwedAfterCall
  <1>23. CASE ~IsAwaited(r, h) /\ stack' = e \o Tail(stack) /\ feature' = feature
    <2>1. Owed(f) BY DEF OwedInv
    <2>2. \A k : /\ Busy(stack, f) => Busy(stack', f)
                 /\ k # h /\ Told(stack, f, k) => Told(stack', f, k)
      BY <1>1, <1>2, <1>15, <1>23, CallsTakeOver
    <2>3. Busy(stack, f) => Busy(stack', f) BY <2>2
    <2>4. feature[f].index # 0 => feature[f].handles[feature[f].index] # h
      BY <1>3, <1>23 DEF IsAwaited, SearchOrder, Indexed
    <2>5. feature[f].index # 0 /\ Told(stack, f, feature[f].handles[feature[f].index])
            => Told(stack', f, feature[f].handles[feature[f].index])
      BY <2>2, <2>4
    <2>6. Owed(f)' BY <1>18, <1>23, <2>1, <2>3, <2>5 DEF Owed
    <2>7. \A g \in Features : g # f => feature'[g] = feature[g] BY <1>23
    <2>8. \A i \in DOMAIN feature'[f].handles : IsValid(feature'[f].handles[i]) BY <1>3, <1>20, <1>23
    <2> QED BY <1>1, <1>2, <1>16, <1>18, <1>19, <1>23, <2>6, <2>7, <2>8, OwedAfterCall
  <1>24. CASE feature' = [feature EXCEPT ![f] = won] /\ stack' = e \o Tail(stack)
    BY <1>12, <1>16, <1>22, <1>24
  <1>25. CASE feature' = [feature EXCEPT ![f] = next] /\ stack' = p \o Tail(stack)
    BY <1>9, <1>16, <1>22, <1>25
  <1>26. CASE feature' = [feature EXCEPT ![f] = lost] /\ stack' = q \o Tail(stack)
    BY <1>14, <1>22, <1>26
  <1> QED BY <1>21, <1>23, <1>24, <1>25, <1>26

\* startAutoDiscovery(), also of a feature that is in the middle of a search
LEMMA DiscoveryOwes ==
    ASSUME SystemTypes, SearchOrder, OwedInv, NEW f \in Features, StartAutoDiscovery(f) PROVE OwedInv'
  <1>1. PICK r \in FeatureType : r = feature[f] BY DEF SystemTypes, FeatureTypes
  <1>2. PICK s, y : /\ s = [r EXCEPT !.result = "NoResult"]
                    /\ y = IF r.mode = "LoadOnlySimulationBackends" THEN "simulation" ELSE "production"
    OBVIOUS
  <1>3. PICK t : t = [r EXCEPT !.search = y] OBVIOUS
  <1>4. SamePlace(r, s) /\ SamePlace(r, t) BY <1>2, <1>3 DEF FeatureType, SamePlace
  <1>5. PICK p \in Seq(Frames) : p = <<Call("discover", f)>>
    <2>1. "discover" \in CallOps BY DEF CallOps
    <2> QED BY <2>1, FeatureFrames
  <1>6. \/ feature' = [feature EXCEPT ![f] = s] /\ stack' = stack
        \/ feature' = [feature EXCEPT ![f] = t] /\ stack' = p \o stack
    BY <1>1, <1>2, <1>3, <1>5 DEF StartAutoDiscovery
  <1>7. UNCHANGED <<m_backends, life, backend>> BY DEF StartAutoDiscovery, registry
  <1>8. ASSUME NEW g \in Features PROVE SamePlace(feature[g], feature'[g])
    <2>1. feature \in [Features -> FeatureType] BY DEF SystemTypes, FeatureTypes
    <2>2. \A h \in Features : SamePlace(feature[h], feature[h]) BY DEF SamePlace
    <2> QED BY <1>1, <1>4, <1>6, <1>8, <2>1, <2>2
  <1>9. \A g, h : (Busy(stack, g) => Busy(stack', g)) /\ (Told(stack, g, h) => Told(stack', g, h))
    BY <1>5, <1>6, CallsBegin DEF SystemTypes
  <1>10. HandlesAreValid'
    BY <1>7, <1>8 DEF OwedInv, HandlesAreValid, SamePlace, IsValid, Registered
  <1>11. ASSUME NEW g \in Features PROVE Owed(g)'
    <2>1. feature'[g].index = feature[g].index /\ feature'[g].handles = feature[g].handles
      BY <1>8 DEF SamePlace
    <2> QED BY <1>7, <1>9, <2>1 DEF OwedInv, Owed
  <1> QED BY <1>10, <1>11 DEF OwedInv

\* Every step keeps what is owed to a search.
LEMMA SearchGoesOn ==
    ASSUME BackendsStay, RegistryInv, SystemTypes, SearchOrder, FeaturesSane, OwedInv, [Next]_vars
    PROVE  OwedInv'
  <1>1. \A h : IsValid(h) => IsValid(h)' BY RegisteredStay
  <1>2. \A f \in Features : SamePlace(feature[f], feature[f]) BY DEF SamePlace
  <1>3. ASSUME [ManagerNext]_managerVars, \A f \in Features : SamePlace(feature[f], feature'[f])
        PROVE  OwedInv'
    <2>1. stack' = stack \/ \E p \in Seq(Frames) : ManagerMoves(p)
      BY <1>3, ManagerOnlyMoves DEF SystemTypes, managerVars
    <2>2. \A h \in Backends : IsValid(h) /\ backend[h[1]].loading
                                  => backend'[h[1]].loading \/ stack' = <<Emission(h)>> \o stack
      BY <1>3, LoadsGoOn DEF SystemTypes
    <2> QED BY <1>1, <1>3, <2>1, <2>2, OwedStays
  <1>4. CASE ManagerKeeps \/ UNCHANGED vars
    <2>1. [ManagerNext]_managerVars /\ UNCHANGED feature
      BY <1>4 DEF ManagerKeeps, ManagerNext, vars, featureVars
    <2> QED BY <1>2, <1>3, <2>1
  <1>5. CASE ServiceObjectsDestroyed
    <2>1. ManagerNext BY <1>5 DEF ServiceObjectsDestroyed, ManagerNext
    <2> QED BY <1>3, <1>5, <2>1, SlotsTyped
  <1>6. CASE \E p \in Plugins : InitializationDone(p)
    <2>1. UNCHANGED managerVars BY <1>6 DEF InitializationDone
    <2> QED BY <1>3, <1>6, <2>1, SlotsTyped
  <1>7. CASE FeatureInternal
    BY <1>7, DiscoverOwes, ChooseOwes, LoadCurrentOwes, NotifyOwes DEF FeatureInternal
  <1>8. CASE FeatureCalls
    <2>1. PICK f \in Features :
             \/ StartAutoDiscovery(f)
             \/ \E so \in proxies \cup {none} : SetServiceObject(f, so)
             \/ SetBackendUpdatesEnabled(f)
             \/ \E mode \in DiscoveryModes : SetDiscoveryMode(f, mode)
             \/ SetAsynchronousBackendLoading(f)
             \/ \E wildcards \in Preferences : SetPreferredBackends(f, wildcards)
      BY <1>8 DEF FeatureCalls
    <2>2. CASE StartAutoDiscovery(f) BY <2>2, DiscoveryOwes
    <2>3. CASE \/ \E so \in proxies \cup {none} : SetServiceObject(f, so)
               \/ SetBackendUpdatesEnabled(f)
      <3>1. \A g \in Features : SameSearch(feature[g], feature'[g])
        <4>1. FeaturesSane' BY FeaturesKept
        <4> QED BY <2>3, <4>1, SettersTyped
      <3>2. UNCHANGED managerVars BY <2>3 DEF SetServiceObject, SetBackendUpdatesEnabled
      <3>3. \A g \in Features : SamePlace(feature[g], feature'[g]) BY <3>1 DEF SameSearch, SamePlace
      <3> QED BY <1>3, <3>2, <3>3
    <2>4. CASE \/ \E mode \in DiscoveryModes : SetDiscoveryMode(f, mode)
               \/ SetAsynchronousBackendLoading(f)
               \/ \E wildcards \in Preferences : SetPreferredBackends(f, wildcards)
      <3>1. \A g \in Features : SamePlace(feature[g], feature'[g])
        BY <2>4, OtherSettersTyped DEF SamePlace
      <3>2. UNCHANGED managerVars
        BY <2>4 DEF SetDiscoveryMode, SetAsynchronousBackendLoading, SetPreferredBackends
      <3> QED BY <1>3, <3>1, <3>2
    <2> QED BY <2>1, <2>2, <2>3, <2>4
  <1> QED BY <1>4, <1>5, <1>6, <1>7, <1>8 DEF Next

\* What the inductive invariant says of a search
LEMMA SearchesHaveSense ==
    ASSUME SystemTypes, SearchOrder, OwedInv PROVE SearchIsSound
  <1>1. ASSUME Top("load")
        PROVE  \/ feature[Caller].handles = <<>> \/ feature[Caller].index \in DOMAIN feature[Caller].handles
    <2>1. stack # <<>> /\ Head(stack).op = "load" /\ Head(stack).op \in CallOps
      BY <1>1 DEF Top, CallOps
    <2>2. Caller \in Features BY <2>1, CallerIs DEF SystemTypes
    <2> QED BY <2>1, <2>2 DEF SearchOrder, Indexed, HasOne
  <1>2. ASSUME stack = <<>>, NEW f \in Features
        PROVE  \/ feature[f].index = 0 /\ feature[f].handles = <<>>
               \/ /\ feature[f].index # 0 /\ feature[f].index \in DOMAIN feature[f].handles
                  /\ IsValid(feature[f].handles[feature[f].index])
                  /\ backend[feature[f].handles[feature[f].index][1]].loading
    <2>1. Elements(stack) = {} BY <1>2, FewElements
    <2>2. ~Busy(stack, f) /\ \A h : ~Told(stack, f, h) BY <2>1 DEF Busy, Told
    <2>3. Owed(f) /\ Indexed(feature[f]) BY DEF OwedInv, SearchOrder
    <2> QED BY <2>2, <2>3 DEF Owed, Indexed, OwedInv, HandlesAreValid
  <1>3. SearchIsConsistent BY <1>1, <1>2 DEF SearchIsConsistent
  <1>4. SearchIsUnderWay BY <1>2 DEF SearchIsUnderWay
  <1> QED BY <1>3, <1>4, TypesFit DEF SearchIsSound

\* The private data of every feature, and all that the manager keeps, has its type,
\* and a feature that loads the current handle has one.
LEMMA SystemStaysTyped == Spec => [](SystemTypes /\ SearchOrder /\ FeaturesSane)
  <1>1. Init => SystemTypes /\ SearchOrder /\ FeaturesSane BY TypedInitially, FeaturesInitially
  <1>2. SystemTypes /\ SearchOrder /\ FeaturesSane /\ [Next]_vars
            => (SystemTypes /\ SearchOrder /\ FeaturesSane)'
    BY SystemTyped, FeaturesKept
  <1> QED BY <1>1, <1>2, PTL DEF Spec

\* Whatever features search, and whatever the application calls meanwhile, a search
\* never reads a handle that is not in its list, and at the event loop it waits for a
\* load that is under way (loadServiceObject(), onServiceObjectLoaded(),
\* onServiceObjectFailure()): where nothing is unloaded or replaced, and a backend
\* that has its service object is not loaded again.
THEOREM SearchesAreSound ==
    ASSUME NoReload, BackendsStay PROVE Spec => []SearchIsSound
  <1> DEFINE Inv == ServiceInv /\ SystemTypes /\ SearchOrder /\ FeaturesSane /\ OwedInv
  <1>1. ASSUME Init PROVE Inv
    <2>1. OwedInv
      BY <1>1, TypedInitially DEF OwedInv, HandlesAreValid, Owed
    <2> QED BY <1>1, <2>1, SystemInitially, TypedInitially, FeaturesInitially
  <1>2. ASSUME Inv, [Next]_vars PROVE Inv'
    <2>1. ServiceInv' BY <1>2, SystemKeepsServices
    <2>2. SystemTypes' /\ SearchOrder' BY <1>2, SystemTyped
    <2>3. FeaturesSane' BY <1>2, FeaturesKept
    <2>4. OwedInv' BY <1>2, SearchGoesOn DEF ServiceInv
    <2> QED BY <2>1, <2>2, <2>3, <2>4
  <1>3. Inv => SearchIsSound BY SearchesHaveSense
  <1> QED BY <1>1, <1>2, <1>3, PTL DEF Spec

-----------------------------------------------------------------------------
(* Production backends are preferred *)

SearchCalls == {"discover", "choose", "load"}
Searching == {"search", "register"}

\* Nothing interrupts the call of a feature but the search for plugins it waits for.
NoCall(q) == \A k \in 1..Len(q) : q[k].op \notin SearchCalls
CallsOnTop(q) ==
    \A k, l \in 1..Len(q) : q[k].op \in SearchCalls /\ l < k => q[l].op \in Searching

\* Handles are chosen next, after what is being registered.
Due(q) ==
    \E k \in 1..Len(q) : q[k].op = "choose" /\ \A l \in 1..(k - 1) : q[l].op = "register"

\* Where the calls of features are on a stack that grows or shrinks.
LEMMA CallsAreOnTop ==
    ASSUME NEW T, NEW q \in Seq(T), NEW p \in Seq(T)
    PROVE  /\ CallsOnTop(q) /\ q # <<>> /\ Head(q).op \notin Searching => NoCall(Tail(q))
           /\ CallsOnTop(q) /\ (q = <<>> \/ Head(q).op \notin Searching \cup SearchCalls) => NoCall(q)
           /\ CallsOnTop(q) /\ q # <<>> => CallsOnTop(Tail(q))
           /\ NoCall(q) => CallsOnTop(q) /\ ~Due(q)
           /\ NoCall(q) /\ q # <<>> => NoCall(Tail(q))
           /\ NoCall(q) /\ NoCall(p) => NoCall(p \o q)
           /\ NoCall(q) /\ CallsOnTop(p) => CallsOnTop(p \o q) /\ (Due(p \o q) => Due(p))
           /\ CallsOnTop(q) /\ (\A k \in 1..Len(p) : p[k].op \in Searching) => CallsOnTop(p \o q)
           /\ (\A k \in 1..Len(p) : p[k].op = "register") /\ Due(p \o q) => Due(q)
           /\ q # <<>> /\ Head(q).op = "register" /\ Due(Tail(q)) => Due(q)
           /\ q # <<>> /\ Head(q).op = "search" => ~Due(q)
  <1>1. PICK m, n \in Nat : m = Len(p) /\ n = Len(q) OBVIOUS
  <1>2. /\ Len(p \o q) = m + n
        /\ \A k \in 1..m : (p \o q)[k] = p[k]
        /\ \A k \in 1..n : (p \o q)[m + k] = q[k]
    BY <1>1
  <1>3. \A k \in 1..(m + n) : k \in 1..m \/ \E j \in 1..n : k = m + j
    <2>1. TAKE k \in 1..(m + n)
    <2>2. k \in 1..m \/ (k - m \in 1..n /\ k = m + (k - m)) OBVIOUS
    <2> QED BY <2>2
  <1>4. q # <<>> => /\ n # 0 /\ Head(q) = q[1] /\ Len(Tail(q)) = n - 1
                    /\ \A k \in 1..(n - 1) : Tail(q)[k] = q[k + 1]
    BY <1>1
  <1>5. /\ \A k \in 1..(n - 1) : k + 1 \in 1..n /\ k + 1 # 1 /\ 1 < k + 1
        /\ n # 0 => 1 \in 1..n
        /\ \A k, l \in 1..(n - 1) : l < k => l + 1 < k + 1
        /\ \A k \in 1..n : k = 1 \/ (1 < k /\ 1 \in 1..n /\ 1 \in 1..(k - 1))
    BY <1>1
  <1>6. ASSUME CallsOnTop(q), q # <<>>, Head(q).op \notin Searching PROVE NoCall(Tail(q))
    <2>1. \A k \in 1..(n - 1) : q[k + 1].op \in SearchCalls => q[1].op \in Searching
      BY <1>1, <1>4, <1>5, <1>6 DEF CallsOnTop
    <2> QED BY <1>4, <1>6, <2>1 DEF NoCall
  <1>7. ASSUME CallsOnTop(q), q = <<>> \/ Head(q).op \notin Searching \cup SearchCalls PROVE NoCall(q)
    <2>1. CASE q = <<>> BY <2>1 DEF NoCall
    <2>2. CASE q # <<>>
      <3>1. \A k \in 1..n : k # 1 => (q[k].op \in SearchCalls => q[1].op \in Searching)
        BY <1>1, <1>5, <1>7 DEF CallsOnTop
      <3> QED BY <1>1, <1>4, <1>7, <2>2, <3>1 DEF NoCall
    <2> QED BY <2>1, <2>2
  <1>8. ASSUME CallsOnTop(q), q # <<>> PROVE CallsOnTop(Tail(q))
    <2>1. \A k, l \in 1..(n - 1) : q[k + 1].op \in SearchCalls /\ l + 1 < k + 1 => q[l + 1].op \in Searching
      BY <1>1, <1>5, <1>8 DEF CallsOnTop
    <2>2. \A k, l \in 1..(n - 1) : Tail(q)[k].op \in SearchCalls /\ l < k => Tail(q)[l].op \in Searching
      BY <1>4, <1>5, <1>8, <2>1
    <2> QED BY <1>4, <1>8, <2>2 DEF CallsOnTop
  <1>9. NoCall(q) => CallsOnTop(q) /\ ~Due(q) BY DEF NoCall, CallsOnTop, Due, SearchCalls
  <1>10. NoCall(q) /\ q # <<>> => NoCall(Tail(q)) BY <1>1, <1>4, <1>5 DEF NoCall
  <1>11. NoCall(q) /\ NoCall(p) => NoCall(p \o q) BY <1>1, <1>2, <1>3 DEF NoCall
  <1>12. ASSUME NoCall(q), CallsOnTop(p) PROVE CallsOnTop(p \o q) /\ (Due(p \o q) => Due(p))
    <2>1. \A k \in 1..(m + n) : (p \o q)[k].op \in SearchCalls => k \in 1..m
      BY <1>1, <1>2, <1>3, <1>12 DEF NoCall
    <2>2. ASSUME NEW k \in 1..(m + n), NEW l \in 1..(m + n), (p \o q)[k].op \in SearchCalls, l < k
          PROVE  (p \o q)[l].op \in Searching
      <3>1. k \in 1..m BY <2>1, <2>2
      <3>2. l \in 1..m BY <2>2, <3>1
      <3>3. p[k].op \in SearchCalls BY <1>2, <2>2, <3>1
      <3>4. p[l].op \in Searching BY <1>1, <1>12, <2>2, <3>1, <3>2, <3>3 DEF CallsOnTop
      <3> QED BY <1>2, <3>2, <3>4
    <2>3. ASSUME NEW k \in 1..(m + n), (p \o q)[k].op = "choose", \A l \in 1..(k - 1) : (p \o q)[l].op = "register"
          PROVE  Due(p)
      <3>1. k \in 1..m BY <2>1, <2>3 DEF SearchCalls
      <3>2. \A l \in 1..(k - 1) : l \in 1..m BY <3>1
      <3> QED BY <1>1, <1>2, <2>3, <3>1, <3>2 DEF Due
    <2>4. CallsOnTop(p \o q) BY <1>2, <2>2 DEF CallsOnTop
    <2>5. Due(p \o q) => Due(p) BY <1>2, <2>3 DEF Due
    <2> QED BY <2>4, <2>5
  <1>13. ASSUME CallsOnTop(q), \A k \in 1..Len(p) : p[k].op \in Searching PROVE CallsOnTop(p \o q)
    <2>1. ASSUME NEW k \in 1..(m + n), NEW l \in 1..(m + n), (p \o q)[k].op \in SearchCalls, l < k
          PROVE  (p \o q)[l].op \in Searching
      <3>1. CASE l \in 1..m BY <1>1, <1>2, <1>13, <3>1
      <3>2. CASE l \notin 1..m
        <4>1. PICK i \in 1..n : l = m + i BY <1>3, <3>2
        <4>2. k \notin 1..m BY <2>1, <3>2
        <4>3. PICK j \in 1..n : k = m + j BY <1>3, <4>2
        <4>4. i < j BY <2>1, <4>1, <4>3
        <4>5. q[j].op \in SearchCalls BY <1>2, <2>1, <4>3
        <4>6. q[i].op \in Searching BY <1>1, <1>13, <4>4, <4>5 DEF CallsOnTop
        <4> QED BY <1>2, <4>1, <4>6
      <3> QED BY <3>1, <3>2
    <2> QED BY <1>2, <2>1 DEF CallsOnTop
  <1>14. ASSUME \A k \in 1..Len(p) : p[k].op = "register", Due(p \o q) PROVE Due(q)
    <2>1. PICK k \in 1..(m + n) : /\ (p \o q)[k].op = "choose"
                                  /\ \A l \in 1..(k - 1) : (p \o q)[l].op = "register"
      BY <1>2, <1>14 DEF Due
    <2>2. k \notin 1..m BY <1>1, <1>2, <1>14, <2>1
    <2>3. PICK j \in 1..n : k = m + j BY <1>3, <2>2
    <2>4. ASSUME NEW l \in 1..(j - 1) PROVE q[l].op = "register"
      <3>1. l \in 1..n /\ m + l \in 1..(k - 1) BY <2>3
      <3> QED BY <1>2, <2>1, <3>1
    <2>5. q[j].op = "choose" BY <1>2, <2>1, <2>3
    <2> QED BY <1>1, <2>4, <2>5 DEF Due
  <1>15. ASSUME q # <<>>, Head(q).op = "register", Due(Tail(q)) PROVE Due(q)
    <2>1. PICK k \in 1..(n - 1) : /\ Tail(q)[k].op = "choose"
                                  /\ \A l \in 1..(k - 1) : Tail(q)[l].op = "register"
      BY <1>4, <1>15 DEF Due
    <2>2. q[k + 1].op = "choose" /\ k + 1 \in 1..n BY <1>4, <1>5, <1>15, <2>1
    <2>3. ASSUME NEW l \in 1..((k + 1) - 1) PROVE q[l].op = "register"
      <3>1. CASE l = 1 BY <1>4, <1>15, <3>1
      <3>2. CASE l # 1
        <4>1. l - 1 \in 1..(k - 1) /\ l - 1 \in 1..(n - 1) /\ (l - 1) + 1 = l BY <3>2
        <4> QED BY <1>4, <1>15, <2>1, <4>1
      <3> QED BY <3>1, <3>2
    <2> QED BY <1>1, <2>2, <2>3 DEF Due
  <1>16. ASSUME q # <<>>, Head(q).op = "search", Due(q) PROVE FALSE
    <2>1. PICK k \in 1..n : q[k].op = "choose" /\ \A l \in 1..(k - 1) : q[l].op = "register"
      BY <1>1, <1>16 DEF Due
    <2>2. q[1].op = "search" BY <1>4, <1>16
    <2> QED BY <1>5, <2>1, <2>2
  <1> QED BY <1>6, <1>7, <1>8, <1>9, <1>10, <1>11, <1>12, <1>13, <1>14, <1>15, <1>16

\* The application searches, loads and finds, and registers nothing: what a search
\* looked through is not added to.
OnlySearches ==
    /\ UserCalls \cap {"setServiceObject", "mode", "preferred", "register"} = {}
    /\ "path" \in UserCalls => StaticPlugins = <<>> /\ \A d, e \in Dirs : d = e

\* What a receiver is told of is there, and loaded if it can be.
Heard(x) ==
    x.op \in {"notify", "emit"} =>
        /\ IsValid(x.h)
        /\ ~Fresh(x) /\ x.h[1] \in Available => backend[x.h[1]].proxy # 0
Delivered == \A x \in Elements(stack) : Heard(x)

\* A backend that has its service object keeps one.
LEMMA ServiceObjectsRemain ==
    ASSUME BackendsStay, RegistryInv, ManagerTypes, [Next]_vars
    PROVE  \A p \in Registered : backend[p].proxy # 0 => backend'[p].proxy # 0
  <1> SUFFICES ASSUME NEW p \in Registered, backend[p].proxy # 0 PROVE backend'[p].proxy # 0 OBVIOUS
  <1>1. p \in Plugins BY RegisteredAreBackends
  <1>2. backend \in [Plugins -> BackendType] BY DEF ManagerTypes
  <1>3. ASSUME NEW q, NEW v, backend' = [backend EXCEPT ![q] = v], q = p => v.proxy # 0
        PROVE  backend'[p].proxy # 0
    BY <1>1, <1>2, <1>3
  <1>4. CASE UNCHANGED backend BY <1>4
  <1>5. CASE CreateServiceObject
    <2>1. PICK q, v : /\ backend' = [backend EXCEPT ![q] = ProxyMadeOnce(backend[q], v)]
      BY <1>5 DEF CreateServiceObject
    <2>2. q = p => ProxyMadeOnce(backend[q], v) = backend[q] BY DEF ProxyMadeOnce
    <2> QED BY <1>3, <2>1, <2>2
  <1>6. ASSUME NEW q, BeginAsyncLoad(q) PROVE backend'[p].proxy # 0
    <2>1. q = p => /\ [backend[q] EXCEPT !.loading = TRUE, !.tries = @ + 1].proxy # 0
                   /\ [backend[q] EXCEPT !.loading = TRUE, !.thread = TRUE, !.tries = @ + 1].proxy # 0
      BY <1>1, <1>2 DEF BackendType
    <2>2. \/ UNCHANGED backend
          \/ backend' = [backend EXCEPT ![q] = [backend[q] EXCEPT !.loading = TRUE, !.tries = @ + 1]]
          \/ backend' = [backend EXCEPT ![q] = [backend[q] EXCEPT !.loading = TRUE, !.thread = TRUE, !.tries = @ + 1]]
      BY <1>6 DEF BeginAsyncLoad
    <2> QED BY <1>3, <1>4, <2>1, <2>2
  <1>7. CASE \E h, async, frames : LoadServiceObject(h, async, frames)
    BY <1>4, <1>6, <1>7 DEF LoadServiceObject
  <1>8. CASE AddBackend
    <2>1. CASE UNCHANGED backend BY <1>4, <2>1
    <2>2. ASSUME NEW q \in Plugins \ Registered, backend' = [backend EXCEPT ![q] = NewBackend(q)]
          PROVE  backend'[p].proxy # 0
      BY <1>3, <2>2
    <2> QED BY <1>8, <2>1, <2>2, AddBackendEffect
  <1>9. CASE \E q \in Plugins : ThreadDeleted(q)
    <2>1. PICK q \in Plugins : backend' = [backend EXCEPT ![q].thread = FALSE] BY <1>9 DEF ThreadDeleted
    <2>2. backend'[p].proxy = backend[p].proxy BY <1>1, <1>2, <2>1 DEF BackendType
    <2> QED BY <2>2
  <1>10. CASE HandlePosted
    <2>1. CASE UNCHANGED backend BY <1>4, <2>1
    <2>2. PICK g, b : /\ b = [backend[g] EXCEPT !.loading = FALSE, !.interface = Head(posted).interface]
                      /\ \/ UNCHANGED backend
                         \/ backend' = [backend EXCEPT ![g] = WithProxy(b)]
                         \/ backend' = [backend EXCEPT ![g] = b]
      BY <1>10 DEF HandlePosted
    <2>3. g = p => b.proxy # 0 /\ WithProxy(b).proxy # 0
      BY <1>1, <1>2, <2>2 DEF WithProxy, BackendType
    <2> QED BY <1>3, <1>4, <2>2, <2>3
  <1>11. UNCHANGED backend \/ CreateServiceObject \/ AddBackend \/ HandlePosted
         \/ (\E h, async, frames : LoadServiceObject(h, async, frames)) \/ (\E q \in Plugins : ThreadDeleted(q))
    <2>1. CASE FeatureInternal \/ FeatureCalls \/ \E q \in Plugins : InitializationDone(q)
      BY <2>1 DEF FeatureInternal, FeatureCalls, Discover, ChooseHandles, LoadCurrentHandle,
                  OnServiceObjectLoaded, StartAutoDiscovery, SetServiceObject, SetBackendUpdatesEnabled,
                  SetDiscoveryMode, SetAsynchronousBackendLoading, SetPreferredBackends,
                  InitializationDone, managerVars
    <2>2. CASE ManagerKeeps \/ ServiceObjectsDestroyed \/ UNCHANGED vars
      BY <2>2 DEF ManagerKeeps, ServiceObjectsDestroyed, vars, managerVars, ManagerInternal, ManagerCalls,
           ManagerDeletes, Threads, SearchPlugins, CreateAll, CreateEach, WaitForLoad, ThreadJoined, SpinDone,
           UseDeletedBackend, EmitServiceObjectLoaded, RegisterService, ReadServiceObjectRole, UserLoad,
           AddLibraryPath, FindServiceByInterface, ThreadLoads, RunningThreadDeleted, UnloadAllBackends
    <2> QED BY <2>1, <2>2 DEF Next
  <1> QED BY <1>4, <1>5, <1>7, <1>8, <1>9, <1>10, <1>11

\* What a receiver is told of stays true until it is told.
LEMMA HeardStays ==
    ASSUME BackendsStay, RegistryInv, ManagerTypes, [Next]_vars
    PROVE  \A x : Heard(x) => Heard(x)'
  <1>1. \A h : IsValid(h) => IsValid(h)' BY RegisteredStay
  <1>2. \A h : IsValid(h) /\ backend[h[1]].proxy # 0 => backend'[h[1]].proxy # 0
    BY ServiceObjectsRemain DEF IsValid
  <1> QED BY <1>1, <1>2 DEF Heard, Fresh

\* Frames that call no feature and register nothing
Silent(p) == p \in Seq(Frames) /\ NoCall(p) /\ ~Registers(p)
Aloud == SearchCalls \cup {"register"}

\* The empty sequence, and one or two frames
LEMMA SilentFrames ==
    /\ Silent(<<>>)
    /\ \A x \in Frames : x.op \notin Aloud => Silent(<<x>>)
    /\ \A x, y \in Frames : x.op \notin Aloud /\ y.op \notin Aloud => Silent(<<x, y>>)
  <1>1. Silent(<<>>) BY DEF Silent, NoCall, Registers
  <1>2. ASSUME NEW x \in Frames, x.op \notin Aloud PROVE Silent(<<x>>)
    <2>1. PICK q : q = <<x>> OBVIOUS
    <2>2. q \in Seq(Frames) /\ \A k \in 1..Len(q) : q[k] = x BY <2>1
    <2> QED BY <1>2, <2>1, <2>2 DEF Silent, NoCall, Registers, Aloud
  <1>3. ASSUME NEW x \in Frames, NEW y \in Frames, x.op \notin Aloud, y.op \notin Aloud PROVE Silent(<<x, y>>)
    <2>1. PICK q : q = <<x, y>> OBVIOUS
    <2>2. q \in Seq(Frames) /\ \A k \in 1..Len(q) : q[k] = x \/ q[k] = y BY <2>1
    <2> QED BY <1>3, <2>1, <2>2 DEF Silent, NoCall, Registers, Aloud
  <1> QED BY <1>1, <1>2, <1>3

\* What is left of the stack when the innermost frame, or an event, is handled
LEMMA NobodyCalls ==
    ASSUME RegistryInv, ManagerTypes, CallsOnTop(stack)
    PROVE  /\ stack # <<>> /\ Head(stack).op \notin Searching =>
                /\ Tail(stack) \in Seq(Frames) /\ NoCall(Tail(stack))
                /\ ~Registers(stack) /\ ~Registers(Tail(stack)) /\ Elements(Tail(stack)) \subseteq Elements(stack)
           /\ AtEventLoop => stack \in Seq(Frames) /\ NoCall(stack) /\ ~Registers(stack)
  <1>1. stack \in Seq(Frames) BY DEF ManagerTypes
  <1>2. ASSUME stack # <<>>, Head(stack).op \notin Searching
        PROVE  /\ Tail(stack) \in Seq(Frames) /\ NoCall(Tail(stack))
               /\ ~Registers(stack) /\ ~Registers(Tail(stack)) /\ Elements(Tail(stack)) \subseteq Elements(stack)
    <2>1. ~Registers(stack) BY <1>2, NothingRegistered DEF Searching
    <2>2. Tail(stack) \in Seq(Frames) BY <1>1, <1>2
    <2>3. Elements(Tail(stack)) \subseteq Elements(stack) BY <1>1, <1>2, ElementsOf
    <2>4. NoCall(Tail(stack)) BY <1>1, <1>2, CallsAreOnTop
    <2>5. ~Registers(Tail(stack)) BY <2>1, <2>3 DEF Registers, Elements
    <2> QED BY <2>1, <2>2, <2>3, <2>4, <2>5
  <1>3. ASSUME AtEventLoop PROVE NoCall(stack) /\ ~Registers(stack)
    <2>1. stack = <<>> \/ Head(stack).op = "spin" BY <1>3 DEF AtEventLoop
    <2>2. ~Registers(stack) BY <2>1, NothingRegistered
    <2>3. NoCall(stack) BY <1>1, <2>1, CallsAreOnTop DEF Searching, SearchCalls
    <2> QED BY <2>2, <2>3
  <1> QED BY <1>1, <1>2, <1>3

\* Then no call of a feature is on the stack.
LEMMA MoveIsQuiet ==
    ASSUME RegistryInv, ManagerTypes, CallsOnTop(stack), Delivered, \A x : Heard(x) => Heard(x)',
           NEW p, Silent(p), \A x \in Elements(p) : Heard(x)',
           \/ stack # <<>> /\ Head(stack).op \notin Searching /\ stack' = p \o Tail(stack)
           \/ AtEventLoop /\ stack' = p \o stack
    PROVE  NoCall(stack') /\ ~Registers(stack') /\ Delivered'
  <1>1. PICK rest \in Seq(Frames) : /\ stack' = p \o rest /\ NoCall(rest) /\ ~Registers(rest)
                                    /\ Elements(rest) \subseteq Elements(stack)
    BY NobodyCalls
  <1>2. p \in Seq(Frames) BY DEF Silent
  <1>3. Elements(stack') = Elements(p) \cup Elements(rest) BY <1>1, <1>2, ElementsOf
  <1>4. \A x \in Elements(stack') : x.op # "register" /\ x.op \notin SearchCalls /\ Heard(x)'
    BY <1>1, <1>3 DEF Silent, NoCall, Registers, Elements, Delivered
  <1> QED BY <1>4 DEF NoCall, Registers, Delivered, Elements

\* A load in the main thread, and the signal after it
LEMMA LoadAnnounced ==
    ASSUME ManagerTypes, NEW h \in Backends, IsValid(h)'
    PROVE  Silent(CreateThenEmit(h)) /\ \A x \in Elements(CreateThenEmit(h)) : Heard(x)'
  <1>1. PICK x, y \in Frames : x = CreateFrame(h) /\ y = Emission(h) BY ManagerFrames
  <1>2. x.op = "create" /\ y.op = "emit" /\ y.h = h /\ y.to = Listeners
    BY <1>1, FrameFields DEF CreateFrame, Emission
  <1>3. Silent(<<x, y>>) BY <1>2, SilentFrames DEF Aloud, SearchCalls
  <1>4. Heard(x)' /\ Heard(y)' BY <1>2 DEF Heard, Fresh
  <1>5. Elements(<<x, y>>) = {x, y} BY FewElements
  <1> QED BY <1>1, <1>3, <1>4, <1>5 DEF CreateThenEmit

\* createServiceObject() of one handle after the other
LEMMA CreationsAreSilent ==
    ASSUME ManagerTypes, NEW hs \in Seq(Backends)
    PROVE  Silent(Creations(hs)) /\ \A x \in Elements(Creations(hs)) : Heard(x)'
  <1>1. Creations(hs) \in Seq(Frames) BY CreationsAre
  <1>2. PICK x, y : x = CreateFrame(Head(hs)) /\ y = Frame("createEach", Nowhere, Tail(hs), {}) OBVIOUS
  <1>3. x.op = "create" /\ y.op = "createEach" BY <1>2, FrameFields DEF CreateFrame
  <1>4. PICK q : q = Creations(hs) OBVIOUS
  <1>5. q = <<>> \/ q = <<x>> \o <<>> \/ q = <<x>> \o <<y>> BY <1>2, <1>4 DEF Creations
  <1>6. \A k \in 1..Len(q) : q[k] = x \/ q[k] = y
    <2>1. PICK T : T = {x, y} OBVIOUS
    <2>2. <<x>> \in Seq(T) /\ <<y>> \in Seq(T) /\ <<>> \in Seq(T) BY <2>1
    <2>3. \A u, v \in Seq(T) : u \o v \in Seq(T) OBVIOUS
    <2>4. q \in Seq(T) BY <1>5, <2>2, <2>3
    <2> QED BY <2>1, <2>4
  <1>7. \A z \in Elements(q) : z = x \/ z = y BY <1>6 DEF Elements
  <1>8. Silent(q) BY <1>1, <1>3, <1>4, <1>6 DEF Silent, NoCall, Registers, SearchCalls
  <1>9. \A z \in Elements(q) : Heard(z)' BY <1>3, <1>7 DEF Heard
  <1> QED BY <1>4, <1>8, <1>9

\* One receiver after the other is told the same.
LEMMA EmissionIsQuiet ==
    ASSUME ServiceInv, ManagerTypes, Delivered, \A x : Heard(x) => Heard(x)', EmitServiceObjectLoaded
    PROVE  \E p : /\ Silent(p) /\ stack' = p \o Tail(stack)
                  /\ \A x \in Elements(p) : Heard(x)'
  <1>1. stack # <<>> /\ Head(stack).op = "emit" /\ stack \in Seq(Frames)
    BY DEF EmitServiceObjectLoaded, Top, ManagerTypes
  <1>2. Head(stack) \in Frames /\ Tail(stack) \in Seq(Frames) BY <1>1
  <1>3. PICK to \in Seq(ListenerSet), h \in Backends : to = Head(stack).to /\ h = Head(stack).h
    BY <1>1, <1>2, FramesHave
  <1>4. CASE to = <<>>
    <2>1. stack' = Tail(stack) BY <1>3, <1>4 DEF EmitServiceObjectLoaded
    <2>2. Tail(stack) = <<>> \o Tail(stack) BY <1>2
    <2>3. Elements(<<>>) = {} BY FewElements
    <2> QED BY <2>1, <2>2, <2>3, SilentFrames
  <1>5. CASE to # <<>>
    <2>1. PICK g \in Features, rest \in Seq(ListenerSet) : g = Head(to) /\ rest = Tail(to)
      <3>1. Head(to) \in ListenerSet /\ Tail(to) \in Seq(ListenerSet) BY <1>5
      <3> QED BY <3>1 DEF Features
    <2>2. PICK x, y \in Frames : x = Frame("notify", h, <<g>>, {}) /\ y = Frame("emit", h, rest, {})
      BY FramesAre DEF CallOps
    <2>3. stack' = <<x, y>> \o Tail(stack) BY <1>3, <1>5, <2>1, <2>2 DEF EmitServiceObjectLoaded
    <2>4. x.op = "notify" /\ x.h = h /\ y.op = "emit" /\ y.h = h BY <2>2, FrameFields
    <2>5. Silent(<<x, y>>) /\ Elements(<<x, y>>) = {x, y}
      BY <2>4, SilentFrames, FewElements DEF Aloud, SearchCalls
    <2>6. Heard(Head(stack)) BY <1>1, ElementsOf DEF Delivered
    <2>7. IsValid(h) BY <1>1, <1>3, <2>6 DEF Heard
    <2>8. h[1] \in Available => backend[h[1]].proxy # 0
      <3>1. CASE Fresh(Head(stack))
        <4>1. Honest(h)
          <5>1. 1 \in 1..Len(stack) /\ stack[1] = Head(stack) BY <1>1
          <5> QED BY <1>3, <3>1, <5>1 DEF ServiceInv, SignalInv
        <4> QED BY <2>7, <4>1 DEF Honest, HonestWith, IsValid
      <3>2. CASE ~Fresh(Head(stack)) BY <1>1, <1>3, <2>6, <3>2 DEF Heard
      <3> QED BY <3>1, <3>2
    <2>9. Heard(x) /\ Heard(y) BY <2>4, <2>7, <2>8 DEF Heard
    <2>10. \A z \in Elements(<<x, y>>) : Heard(z)' BY <2>5, <2>9
    <2> QED BY <2>3, <2>5, <2>10
  <1> QED BY <1>4, <1>5

\* Between searches and registrations the manager goes on without a call of a feature.
Rests ==
    /\ \/ stack' = stack /\ libraryPaths' = libraryPaths
       \/ NoCall(stack') /\ ~Registers(stack')
    /\ Delivered'

\* The steps of the manager that neither search nor register
LEMMA ManagerRests ==
    ASSUME BackendsStay, OnlySearches, ServiceInv, ManagerTypes, CallsOnTop(stack), Delivered,
           \A x : Heard(x) => Heard(x)', \A h : IsValid(h) => IsValid(h)',
           ManagerNext, ~SearchPlugins, ~AddBackend
    PROVE  Rests /\ UNCHANGED registry /\ (libraryPaths' = libraryPaths \/ "path" \in UserCalls)
  <1> DEFINE h == Head(stack).h
  <1>1. /\ stack \in Seq(Frames)
        /\ stack # <<>> => /\ Head(stack) \in Frames /\ Tail(stack) \in Seq(Frames) /\ h \in Backends
    BY StackMoves, FramesHave DEF ManagerTypes
  <1>2. ASSUME NEW p, Silent(p), \A x \in Elements(p) : Heard(x)',
               \/ stack # <<>> /\ Head(stack).op \notin Searching /\ stack' = p \o Tail(stack)
               \/ AtEventLoop /\ stack' = p \o stack
        PROVE  Rests
    BY <1>2, MoveIsQuiet DEF Rests, ServiceInv
  <1>3. ASSUME stack' = stack, libraryPaths' = libraryPaths PROVE Rests
    BY <1>3 DEF Rests, Delivered
  <1>4. /\ Silent(<<>>) /\ Elements(<<>>) = {} /\ (stack # <<>> => Tail(stack) = <<>> \o Tail(stack))
        /\ stack = <<>> \o stack
    BY <1>1, SilentFrames, FewElements
  <1>5. \A x \in Frames : x.op \notin Aloud \cup {"notify", "emit"}
                => Silent(<<x>>) /\ \A z \in Elements(<<x>>) : Heard(z)'
    <2>1. ASSUME NEW x \in Frames, x.op \notin Aloud \cup {"notify", "emit"}
          PROVE  \A z \in Elements(<<x>>) : Heard(z)'
      BY <2>1, FewElements DEF Heard
    <2> QED BY <2>1, SilentFrames
  <1>6. \A x, y \in Frames : x.op \notin Aloud \cup {"notify", "emit"} /\ y.op \notin Aloud \cup {"notify", "emit"}
                => Silent(<<x, y>>) /\ \A z \in Elements(<<x, y>>) : Heard(z)'
    <2>1. ASSUME NEW x \in Frames, x.op \notin Aloud \cup {"notify", "emit"},
                 NEW y \in Frames, y.op \notin Aloud \cup {"notify", "emit"}
          PROVE  \A z \in Elements(<<x, y>>) : Heard(z)'
      BY <2>1, FewElements DEF Heard
    <2> QED BY <2>1, SilentFrames
  <1>7. UNCHANGED registry
    BY DEF ManagerNext, ManagerInternal, ManagerCalls, ManagerDeletes, Threads, registry, BackendsStay,
           CreateAll, CreateEach, WaitForLoad, ThreadJoined, SpinDone, CreateServiceObject,
           UseDeletedBackend, EmitServiceObjectLoaded, RegisterService, ReadServiceObjectRole, UserLoad,
           AddLibraryPath, FindServiceByInterface, ThreadLoads, RunningThreadDeleted, ThreadDeleted,
           UnloadAllBackends, HandlePosted, MayCall
  <1>8. libraryPaths' = libraryPaths \/ "path" \in UserCalls
    BY DEF ManagerNext, ManagerInternal, ManagerCalls, ManagerDeletes, Threads,
           CreateAll, CreateEach, WaitForLoad, ThreadJoined, SpinDone, CreateServiceObject,
           UseDeletedBackend, EmitServiceObjectLoaded, RegisterService, ReadServiceObjectRole, UserLoad,
           AddLibraryPath, FindServiceByInterface, ThreadLoads, RunningThreadDeleted, ThreadDeleted,
           UnloadAllBackends, HandlePosted, MayCall
  <1> SUFFICES Rests BY <1>7, <1>8
  <1>9. CASE CreateAll
    <2>1. PICK hs : hs = [i \in DOMAIN Found(Head(stack).match, <<>>) |-> HandleOf(Found(Head(stack).match, <<>>)[i])]
      OBVIOUS
    <2>2. hs \in Seq(Backends) BY <2>1, FoundAreRegistered, HandlesOfFound DEF ManagerTypes
    <2>3. stack' = Creations(hs) \o Tail(stack) /\ stack # <<>> /\ Head(stack).op = "createAll"
      BY <1>9, <2>1 DEF CreateAll, Top
    <2> QED BY <1>2, <2>2, <2>3, CreationsAreSilent DEF Searching
  <1>10. CASE CreateEach
    <2>1. stack # <<>> /\ Head(stack).op = "createEach" BY <1>10 DEF CreateEach, Top
    <2>2. Head(stack).to \in Seq(Backends) BY <1>1, <2>1, FramesHave
    <2>3. stack' = Creations(Head(stack).to) \o Tail(stack) BY <1>10 DEF CreateEach
    <2> QED BY <1>2, <2>1, <2>2, <2>3, CreationsAreSilent DEF Searching
  <1>11. CASE WaitForLoad \/ ThreadJoined \/ SpinDone
    <2>1. stack # <<>> /\ Head(stack).op \in Waits
      BY <1>11 DEF WaitForLoad, ThreadJoined, SpinDone, Top, Waits
    <2>2. PICK x, y, z \in Frames : /\ x = Frame("wait", h, <<>>, {}) /\ y = Frame("spin", h, <<>>, {})
                                    /\ z = CreateFrame(h)
      BY <1>1, <2>1, ManagerFrames
    <2>3. x.op = "wait" /\ y.op = "spin" /\ z.op = "create" BY <2>2, FrameFields DEF CreateFrame
    <2>4. \A w \in {x, y, z} : w \in Frames /\ w.op \notin Aloud \cup {"notify", "emit"}
      BY <2>3 DEF Aloud, SearchCalls
    <2>5. \/ stack' = stack /\ libraryPaths' = libraryPaths
          \/ stack' = <<x>> \o Tail(stack) \/ stack' = <<y>> \o Tail(stack) \/ stack' = <<z>> \o Tail(stack)
      BY <1>11, <2>2 DEF WaitForLoad, ThreadJoined, SpinDone
    <2> QED BY <1>2, <1>3, <1>5, <2>1, <2>4, <2>5 DEF Waits, Searching
  <1>12. CASE CreateServiceObject
    <2>1. stack # <<>> /\ Head(stack).op = "create" /\ stack' = Tail(stack)
      BY <1>12 DEF CreateServiceObject, Top
    <2> QED BY <1>2, <1>4, <2>1 DEF Searching
  <1>13. CASE EmitServiceObjectLoaded
    <2>1. stack # <<>> /\ Head(stack).op = "emit" BY <1>13 DEF EmitServiceObjectLoaded, Top
    <2> QED BY <1>2, <1>13, <2>1, EmissionIsQuiet DEF Searching
  <1>14. CASE ManagerCalls
    <2>1. CASE \E p \in Plugins : RegisterService(p) \/ ReadServiceObjectRole(p)
      <3>1. PICK p \in Plugins : RegisterService(p) \/ ReadServiceObjectRole(p) BY <2>1
      <3>2. ReadServiceObjectRole(p) BY <3>1 DEF RegisterService, MayCall, OnlySearches
      <3>3. HandleOf(p) \in Backends BY DEF HandleOf, Backends, ManagerTypes
      <3>4. PICK x \in Frames : x = CreateFrame(HandleOf(p)) BY <3>3, ManagerFrames
      <3>5. x.op \notin Aloud \cup {"notify", "emit"}
        BY <3>4, FrameFields DEF CreateFrame, Aloud, SearchCalls
      <3>6. AtEventLoop /\ stack' = <<x>> \o stack BY <3>2, <3>4 DEF ReadServiceObjectRole, MayCall
      <3> QED BY <1>2, <1>5, <3>5, <3>6
    <2>2. CASE \E d \in Dirs : AddLibraryPath(d)
      <3>1. AtEventLoop /\ stack' = stack BY <2>2 DEF AddLibraryPath, MayCall
      <3> QED BY <1>2, <1>4, <3>1
    <2>3. CASE \E i \in Interfaces, flags \in (SUBSET {"production", "simulation"}) \ {{}} :
                 FindServiceByInterface(i, flags)
      <3>1. PICK i \in Interfaces, flags \in SUBSET {"production", "simulation"} : FindServiceByInterface(i, flags)
        BY <2>3
      <3>2. Matching(i, flags) \in SUBSET Plugins BY DEF Matching
      <3>3. PICK x, y \in Frames : x = SearchFrame /\ y = Frame("createAll", Nowhere, <<>>, Matching(i, flags))
        BY <3>2, FramesAre, ManagerFrames, NowhereIs DEF PlainOps
      <3>4. x.op = "search" /\ y.op = "createAll" BY <3>3, FrameFields DEF SearchFrame
      <3>5. AtEventLoop /\ stack' = <<x, y>> \o stack BY <3>1, <3>3 DEF FindServiceByInterface, MayCall
      <3> QED BY <1>2, <1>6, <3>4, <3>5 DEF Aloud, SearchCalls
    <2>4. CASE \E g \in Handles, async \in BOOLEAN : UserLoad(g, async)
      <3>1. PICK g \in Handles, async \in BOOLEAN : UserLoad(g, async) BY <2>4
      <3>2. g \in Backends BY ManagerAssumption DEF Handles, Backends
      <3>3. /\ AtEventLoop
            /\ \/ stack' = stack /\ libraryPaths' = libraryPaths
               \/ IsValid(g) /\ stack' = CreateThenEmit(g) \o stack
        BY <3>1 DEF UserLoad, LoadServiceObject, MayCall
      <3> QED BY <1>2, <1>3, <3>2, <3>3, LoadAnnounced
    <2> QED BY <1>14, <2>1, <2>2, <2>3, <2>4 DEF ManagerCalls
  <1>15. CASE HandlePosted
    <2>1. posted # <<>> /\ posted \in Seq(Events) BY <1>15 DEF HandlePosted, ManagerTypes
    <2>2. PICK g \in Backends : g = Head(posted).h
      <3>1. Head(posted) \in Events BY <2>1
      <3> QED BY <3>1 DEF Events, Backends
    <2>3. PICK x \in Frames : x = Emission(g) BY ManagerFrames
    <2>4. x.op = "emit" /\ x.h = g /\ x.to = Listeners BY <2>3, FrameFields DEF Emission
    <2>5. Silent(<<x>>) /\ Elements(<<x>>) = {x} BY <2>4, SilentFrames, FewElements DEF Aloud, SearchCalls
    <2>6. \/ stack' = stack /\ libraryPaths' = libraryPaths
          \/ AtEventLoop /\ IsValid(g) /\ stack' = <<x>> \o stack
      BY <1>15, <2>2, <2>3 DEF HandlePosted, Signal
    <2>7. IsValid(g) => Heard(x) BY <2>4 DEF Heard, Fresh
    <2> QED BY <1>2, <1>3, <2>5, <2>6, <2>7
  <1>16. CASE UseDeletedBackend \/ UnloadAllBackends \/ Threads
    BY <1>3, <1>16 DEF UseDeletedBackend, UnloadAllBackends, Threads, ThreadLoads, RunningThreadDeleted, ThreadDeleted
  <1>17. Rests
    BY <1>9, <1>10, <1>11, <1>12, <1>13, <1>14, <1>15, <1>16 DEF ManagerNext, ManagerInternal, ManagerDeletes
  <1> QED BY <1>7, <1>8, <1>17

\* All that the program has is registered, and with "path" all it can get.
AllFound == ~Registers(stack) /\ m_staticLoaded /\ NewDirs = {}
AllForGood == AllFound /\ ("path" \in UserCalls => Dirs \subseteq m_loadedPaths)
Hopeless(f) == \A p \in Registered \ Simulation : ~Usable(f, p)

\* Handles are chosen after everything was searched for, and what is registered
\* without static plugins comes from a directory.
Searched == Due(stack) => m_staticLoaded /\ NewDirs = {}
FromFiles ==
    StaticPlugins = <<>> /\ (Registered # {} \/ Registers(stack)) => m_loadedPaths # {}

\* Every production backend the feature can use is still to be tried, and none can
\* be used if it tries a simulation.
StillToTry(f, handles, index) ==
    /\ \A p \in Registered \ Simulation : Usable(f, p) =>
          \E i \in DOMAIN handles : i >= index /\ handles[i][1] = p
    /\ (\E i \in DOMAIN handles : handles[i][1] \in Simulation) => Hopeless(f)
Useless(f, so) == so = none \/ ~Usable(f, so[1])
Chooses(q, f) == \E x \in Elements(q) : x.op = "choose" /\ x.to[1] = f

\* What a feature in AutoDiscovery has come to, with the frames q to run
Prefers(f, r, q) ==
    r.mode = "AutoDiscovery" =>
        /\ r.preferred = <<>>
        /\ Chooses(q, f) => r.index = 0
        /\ r.index # 0 => AllForGood /\ StillToTry(f, r.handles, r.index)
        /\ r.index # 0 \/ Busy(q, f) => Useless(f, r.so)
        /\ ( /\ Busy(q, f) /\ r.index = 0
             /\ r.search = "simulation" \/ Head(q).op = "load" ) => AllFound /\ Hopeless(f)
PrefersInv ==
    /\ CallsOnTop(stack)
    /\ Searched
    /\ FromFiles
    /\ Delivered
    /\ \A f \in Features : Prefers(f, feature[f], stack)

\* What the search does not change, and a binding it did not make
SameWish(r, s) ==
    /\ s.mode = r.mode /\ s.preferred = r.preferred /\ s.search = r.search
    /\ s.index = r.index /\ s.handles = r.handles
    /\ s.so = r.so \/ s.so = none

\* A feature calls only what is on the stack.
LEMMA CallsAreElements ==
    ASSUME NEW q
    PROVE  /\ NoCall(q) => \A f : ~Busy(q, f) /\ ~Chooses(q, f)
           /\ \A f : Chooses(q, f) => Busy(q, f)
           /\ \A s, f : Elements(s) \subseteq Elements(q) => /\ Busy(s, f) => Busy(q, f)
                                                             /\ Chooses(s, f) => Chooses(q, f)
  <1>1. NoCall(q) => \A x \in Elements(q) : x.op \notin SearchCalls BY DEF NoCall, Elements
  <1> QED BY <1>1 DEF Busy, Chooses, Calls, SearchCalls

\* The manager rests, and the features stay where they are.
LEMMA RestsKeep ==
    ASSUME SystemTypes, PrefersInv, UNCHANGED registry, libraryPaths' \in Seq(Dirs),
           libraryPaths' = libraryPaths \/ "path" \in UserCalls, Rests,
           \A f \in Features : SameWish(feature[f], feature'[f])
    PROVE  PrefersInv'
  <1>1. /\ Registered' = Registered /\ m_loadedPaths' = m_loadedPaths /\ m_staticLoaded' = m_staticLoaded
        /\ \A f : Hopeless(f)' <=> Hopeless(f)
    BY DEF registry, Registered, Hopeless
  <1>2. CASE stack' = stack /\ libraryPaths' = libraryPaths
    <2>1. NewDirs' = NewDirs BY <1>1, <1>2 DEF NewDirs
    <2>2. /\ CallsOnTop(stack)' /\ Searched' /\ FromFiles' /\ (AllFound' <=> AllFound)
          /\ (AllForGood' <=> AllForGood)
      BY <1>1, <1>2, <2>1 DEF PrefersInv, Searched, FromFiles, AllFound, AllForGood
    <2>3. ASSUME NEW f \in Features PROVE Prefers(f, feature[f], stack)'
      <3>1. Prefers(f, feature[f], stack) /\ SameWish(feature[f], feature'[f]) BY DEF PrefersInv
      <3>2. StillToTry(f, feature[f].handles, feature[f].index)
              => StillToTry(f, feature[f].handles, feature[f].index)'
        BY <1>1, <3>1 DEF StillToTry, SameWish
      <3> QED BY <1>1, <1>2, <2>2, <3>1, <3>2 DEF Prefers, SameWish, Useless
    <2> QED BY <2>2, <2>3 DEF PrefersInv, Rests
  <1>3. CASE NoCall(stack') /\ ~Registers(stack')
    <2>2. CallsOnTop(stack)' /\ Searched'
      BY <1>3 DEF CallsOnTop, NoCall, Searched, Due, SearchCalls
    <2>3. FromFiles' BY <1>1, <1>3 DEF PrefersInv, FromFiles
    <2>4. AllForGood => AllForGood'
      <3>1. CASE libraryPaths' = libraryPaths
        <4>1. NewDirs' = NewDirs BY <1>1, <3>1 DEF NewDirs
        <4> QED BY <1>1, <1>3, <4>1 DEF AllForGood, AllFound
      <3>2. CASE "path" \in UserCalls
        <4>1. AllForGood => NewDirs' = {} BY <1>1, <3>2 DEF AllForGood, NewDirs
        <4> QED BY <1>1, <1>3, <4>1 DEF AllForGood, AllFound
      <3> QED BY <3>1, <3>2
    <2>5. ASSUME NEW f \in Features PROVE Prefers(f, feature[f], stack)'
      <3>1. Prefers(f, feature[f], stack) /\ SameWish(feature[f], feature'[f]) BY DEF PrefersInv
      <3>2. ~Busy(stack', f) /\ ~Chooses(stack', f) BY <1>3, CallsAreElements
      <3>3. StillToTry(f, feature[f].handles, feature[f].index)
              => StillToTry(f, feature[f].handles, feature[f].index)'
        BY <1>1, <3>1 DEF StillToTry, SameWish
      <3> QED BY <2>4, <3>1, <3>2, <3>3 DEF Prefers, SameWish, Useless
    <2> QED BY <2>2, <2>3, <2>5 DEF PrefersInv, Rests
  <1> QED BY <1>2, <1>3 DEF Rests

\* searchPlugins(): what it finds is registered before the search goes on.
LEMMA SearchKeepsPreference ==
    ASSUME RegistryInv, SystemTypes, SearchOrder, PrefersInv, SearchPlugins, UNCHANGED feature,
           \A x : Heard(x) => Heard(x)'
    PROVE  PrefersInv'
  <1>1. stack # <<>> /\ Head(stack).op = "search" /\ stack \in Seq(Frames) /\ ~Registers(stack)
    BY NothingRegistered DEF SearchPlugins, Top, SystemTypes, ManagerTypes
  <1>2. Tail(stack) \in Seq(Frames) /\ Head(stack) \in Elements(stack)
        /\ Elements(Tail(stack)) \subseteq Elements(stack)
    BY <1>1, ElementsOf
  <1>3. NoneAtOnce(stack) BY <1>1, CallsStayFirst DEF SearchOrder, AtOnce
  <1>4. /\ Registered' = Registered /\ libraryPaths' = libraryPaths
        /\ \A f : Hopeless(f)' <=> Hopeless(f)
    BY DEF SearchPlugins, Registered, Hopeless
  <1>5. \E ps \in Seq(Plugins), rest \in {stack, Tail(stack)} :
           /\ stack' = RegisterFrames(ps) \o rest
           /\ \/ rest = stack /\ NewDirs # {} /\ m_loadedPaths' # {}
              \/ /\ rest = Tail(stack) /\ NewDirs = {} /\ m_loadedPaths' = m_loadedPaths
                 /\ m_staticLoaded' = TRUE /\ ps = IF m_staticLoaded THEN <<>> ELSE StaticPlugins
    <2>1. \A i \in DOMAIN libraryPaths : Content[libraryPaths[i]] \in Seq(Plugins)
      BY ManagerAssumption DEF SystemTypes, ManagerTypes
    <2>2. StaticPlugins \in Seq(Plugins) /\ <<>> \in Seq(Plugins) BY ManagerAssumption
    <2>3. RegisterFrames(<<>>) = <<>> BY DEF RegisterFrames
    <2> QED BY <2>1, <2>2, <2>3 DEF SearchPlugins, NewDirs
  <1>6. PICK ps \in Seq(Plugins), rest \in {stack, Tail(stack)} :
           /\ stack' = RegisterFrames(ps) \o rest
           /\ \/ rest = stack /\ NewDirs # {} /\ m_loadedPaths' # {}
              \/ /\ rest = Tail(stack) /\ NewDirs = {} /\ m_loadedPaths' = m_loadedPaths
                 /\ m_staticLoaded' = TRUE /\ ps = IF m_staticLoaded THEN <<>> ELSE StaticPlugins
    BY <1>5
  <1>7. PICK p \in Seq(Frames) : /\ p = RegisterFrames(ps) /\ \A k \in 1..Len(p) : p[k].op = "register"
                                 /\ ps = <<>> => p = <<>>
    <2>1. RegisterFrames(ps) \in Seq(Frames) BY ManagerFrames DEF SystemTypes
    <2>2. \A k \in 1..Len(RegisterFrames(ps)) : RegisterFrames(ps)[k].op = "register"
      BY FrameFields DEF RegisterFrames
    <2>3. RegisterFrames(<<>>) = <<>> BY DEF RegisterFrames
    <2> QED BY <2>1, <2>2, <2>3
  <1>8. rest \in Seq(Frames) /\ Elements(rest) \subseteq Elements(stack) /\ CallsOnTop(rest)
    BY <1>1, <1>2, <1>6, CallsAreOnTop DEF PrefersInv
  <1>9. Elements(stack') = Elements(p) \cup Elements(rest) /\ stack' \in Seq(Frames)
    BY <1>6, <1>7, <1>8, ElementsOf
  <1>10. \A x \in Elements(p) : x.op = "register" BY <1>7 DEF Elements
  <1>11. CallsOnTop(stack')
    BY <1>6, <1>7, <1>8, CallsAreOnTop DEF Searching
  <1>12. Searched'
    <2>1. Due(stack') => Due(rest) BY <1>6, <1>7, <1>8, CallsAreOnTop
    <2>2. ~Due(stack) BY <1>1, CallsAreOnTop
    <2>3. NewDirs = {} /\ m_loadedPaths' = m_loadedPaths => NewDirs' = {} BY <1>4 DEF NewDirs
    <2> QED BY <1>6, <2>1, <2>2, <2>3 DEF Searched
  <1>13. p = <<>> => stack' = rest BY <1>6, <1>7, <1>8
  <1>14. rest = Tail(stack) => ~Registers(rest) BY <1>1, <1>2 DEF Registers, Elements
  <1>15. FromFiles'
    <2>1. CASE m_loadedPaths' # {} BY <2>1 DEF FromFiles
    <2>2. CASE rest = Tail(stack) /\ m_loadedPaths' = m_loadedPaths /\ (StaticPlugins = <<>> => ps = <<>>)
      <3>1. StaticPlugins = <<>> => ~Registers(stack') BY <1>7, <1>13, <1>14, <2>2
      <3> QED BY <1>4, <2>2, <3>1 DEF FromFiles, PrefersInv
    <2> QED BY <1>6, <2>1, <2>2
  <1>16. Delivered' BY <1>8, <1>9, <1>10 DEF Delivered, PrefersInv, Heard
  <1>17. AllFound => AllFound' /\ m_loadedPaths' = m_loadedPaths
    <2>1. CASE AllFound
      <3>1. rest = Tail(stack) /\ p = <<>> /\ m_loadedPaths' = m_loadedPaths /\ m_staticLoaded'
        BY <1>6, <1>7, <2>1 DEF AllFound
      <3>2. NewDirs' = NewDirs BY <1>4, <3>1 DEF NewDirs
      <3> QED BY <1>13, <1>14, <2>1, <3>1, <3>2 DEF AllFound
    <2> QED BY <2>1
  <1>18. \A f : /\ Busy(stack', f) => Busy(stack, f) /\ Head(stack').op # "load"
                /\ Chooses(stack', f) => Chooses(stack, f)
    <2>1. \A x \in Elements(stack') : x \in Elements(stack) \/ x.op = "register" BY <1>8, <1>9, <1>10
    <2>2. \A x \in Elements(stack') : x.op \notin AtOnce BY <1>3, <2>1 DEF NoneAtOnce, AtOnce
    <2>3. stack' # <<>> => Head(stack').op # "load" BY <1>9, <2>2, ElementsOf DEF AtOnce
    <2>4. \A f : Busy(stack', f) => stack' # <<>> BY FewElements DEF Busy
    <2> QED BY <2>1, <2>3, <2>4 DEF Busy, Chooses, Calls
  <1>19. ASSUME NEW f \in Features PROVE Prefers(f, feature[f], stack)'
    <2>1. Prefers(f, feature[f], stack) /\ feature'[f] = feature[f] BY DEF PrefersInv
    <2>2. StillToTry(f, feature[f].handles, feature[f].index)
            => StillToTry(f, feature[f].handles, feature[f].index)'
      BY <1>4, <2>1 DEF StillToTry
    <2>3. AllForGood => AllForGood' BY <1>17 DEF AllForGood
    <2> QED BY <1>4, <1>17, <1>18, <2>1, <2>2, <2>3 DEF Prefers, Useless
  <1> QED BY <1>11, <1>12, <1>15, <1>16, <1>19 DEF PrefersInv

\* addBackend(): while something is registered no feature has chosen its handles for good.
LEMMA AddKeepsPreference ==
    ASSUME RegistryInv, SystemTypes, SearchOrder, PrefersInv, AddBackend,
           \A f \in Features : SameWish(feature[f], feature'[f]), \A x : Heard(x) => Heard(x)'
    PROVE  PrefersInv'
  <1>1. stack # <<>> /\ Head(stack).op = "register" /\ stack \in Seq(Frames) /\ stack' = Tail(stack)
    BY DEF AddBackend, Top, SystemTypes, ManagerTypes
  <1>2. /\ UNCHANGED <<m_loadedPaths, m_staticLoaded, libraryPaths>> /\ NewDirs' = NewDirs
    BY DEF AddBackend, NewDirs
  <1>3. Registers(stack)
    <2>1. 1 \in 1..Len(stack) /\ stack[1] = Head(stack) BY <1>1
    <2> QED BY <1>1, <2>1 DEF Registers
  <1>4. Tail(stack) \in Seq(Frames) /\ Elements(Tail(stack)) \subseteq Elements(stack)
    BY <1>1, ElementsOf
  <1>5. NoneAtOnce(stack) BY <1>1, CallsStayFirst DEF SearchOrder, AtOnce
  <1>6. CallsOnTop(stack') BY <1>1, CallsAreOnTop DEF PrefersInv
  <1>7. Searched' BY <1>1, <1>2, CallsAreOnTop DEF PrefersInv, Searched
  <1>8. FromFiles' BY <1>2, <1>3 DEF PrefersInv, FromFiles
  <1>9. Delivered' BY <1>1, <1>4 DEF PrefersInv, Delivered
  <1>10. \A f : /\ Busy(stack', f) => Busy(stack, f) /\ Head(stack').op # "load"
                /\ Chooses(stack', f) => Chooses(stack, f)
    <2>1. \A x \in Elements(stack') : x.op \notin AtOnce BY <1>1, <1>4, <1>5 DEF NoneAtOnce
    <2>2. stack' \in Seq(Frames) /\ Elements(stack') \subseteq Elements(stack) BY <1>1, <1>4
    <2>3. stack' # <<>> => Head(stack').op # "load" BY <2>1, <2>2, ElementsOf DEF AtOnce
    <2>4. \A f : Busy(stack', f) => stack' # <<>> BY FewElements DEF Busy
    <2> QED BY <2>2, <2>3, <2>4 DEF Busy, Chooses
  <1>11. ~AllFound /\ ~AllForGood BY <1>3 DEF AllFound, AllForGood
  <1>12. ASSUME NEW f \in Features PROVE Prefers(f, feature[f], stack)'
    <2>1. Prefers(f, feature[f], stack) /\ SameWish(feature[f], feature'[f]) BY DEF PrefersInv
    <2> QED BY <1>10, <1>11, <2>1 DEF Prefers, SameWish, Useless
  <1> QED BY <1>6, <1>7, <1>8, <1>9, <1>12 DEF PrefersInv

\* The frames a feature's call leaves below it, and those it puts there for itself
Below(rest) ==
    /\ rest \in Seq(Frames) /\ NoCall(rest) /\ ~Registers(rest) /\ ~Registers(stack)
    /\ Elements(rest) \subseteq Elements(stack)
CallFrames(p, f) ==
    /\ p \in Seq(Frames) /\ CallsOnTop(p) /\ ~Due(p) /\ ~Registers(p)
    /\ \A x \in Elements(p) : x.op \in SearchCalls => x.to[1] = f

\* The call of a feature goes on, and the others wait.
LEMMA CallKeepsPreference ==
    ASSUME SystemTypes, PrefersInv, \A x : Heard(x) => Heard(x)',
           UNCHANGED <<registry, libraryPaths>>,
           NEW c \in Features, NEW s \in FeatureType, feature' = [feature EXCEPT ![c] = s],
           NEW rest, Below(rest), NEW p, CallFrames(p, c), stack' = p \o rest,
           \A x \in Elements(p) : Heard(x)', Prefers(c, s, p)
    PROVE  PrefersInv'
  <1>1. /\ Registered' = Registered /\ m_loadedPaths' = m_loadedPaths /\ m_staticLoaded' = m_staticLoaded
        /\ NewDirs' = NewDirs /\ \A f : Hopeless(f)' <=> Hopeless(f)
    BY DEF registry, Registered, Hopeless, NewDirs
  <1>2. /\ p \in Seq(Frames) /\ CallsOnTop(p) /\ ~Due(p) /\ ~Registers(p)
        /\ rest \in Seq(Frames) /\ NoCall(rest) /\ ~Registers(rest) /\ ~Registers(stack)
    BY DEF Below, CallFrames
  <1>3. Elements(stack') = Elements(p) \cup Elements(rest) BY <1>2, ElementsOf
  <1>4. CallsOnTop(stack') /\ ~Due(stack') BY <1>2, CallsAreOnTop
  <1>5. ~Registers(stack') BY <1>2, <1>3 DEF Registers, Elements
  <1>6. /\ \A f : (Busy(stack', f) <=> Busy(p, f)) /\ (Chooses(stack', f) <=> Chooses(p, f))
        /\ \A f : f # c => ~Busy(stack', f) /\ ~Chooses(stack', f)
    <2>1. \A f : ~Busy(rest, f) /\ ~Chooses(rest, f) BY <1>2, CallsAreElements
    <2>2. \A f : (Busy(stack', f) <=> Busy(p, f)) /\ (Chooses(stack', f) <=> Chooses(p, f))
      BY <1>3, <2>1 DEF Busy, Chooses
    <2>3. \A f : f # c => ~Busy(p, f) /\ ~Chooses(p, f)
      BY DEF CallFrames, Busy, Chooses, Calls, SearchCalls
    <2> QED BY <2>2, <2>3
  <1>7. Busy(p, c) => Head(stack') = Head(p)
    <2>1. Busy(p, c) => p # <<>> BY FewElements DEF Busy
    <2> QED BY <1>2, <2>1
  <1>8. (AllFound => AllFound') /\ (AllForGood => AllForGood')
    BY <1>1, <1>5 DEF AllFound, AllForGood
  <1>9. FromFiles' BY <1>1, <1>5 DEF PrefersInv, FromFiles
  <1>10. Delivered' BY <1>3 DEF PrefersInv, Delivered, Below
  <1>11. feature'[c] = s /\ \A g \in Features : g # c => feature'[g] = feature[g]
    BY DEF SystemTypes, FeatureTypes
  <1>13. ASSUME NEW f \in Features, f # c PROVE Prefers(f, feature[f], stack)'
    <2>1. Prefers(f, feature[f], stack) /\ feature'[f] = feature[f] BY <1>11, <1>13 DEF PrefersInv
    <2>2. StillToTry(f, feature[f].handles, feature[f].index)
            => StillToTry(f, feature[f].handles, feature[f].index)'
      BY <1>1, <2>1 DEF StillToTry
    <2> QED BY <1>6, <1>8, <1>13, <2>1, <2>2 DEF Prefers, Useless
  <1>14. Prefers(c, feature[c], stack)'
    <2>1. StillToTry(c, s.handles, s.index) => StillToTry(c, feature[c].handles, feature[c].index)'
      BY <1>1, <1>11 DEF StillToTry
    <2> QED BY <1>1, <1>6, <1>7, <1>8, <1>11, <2>1 DEF Prefers, Useless
  <1> QED BY <1>4, <1>9, <1>10, <1>13, <1>14 DEF PrefersInv, Searched

\* The frames a call of a feature puts on the stack
LEMMA FramesOfCalls ==
    ASSUME NEW f \in Features
    PROVE  /\ CallFrames(<<>>, f) /\ Elements(<<>>) = {} /\ ~Busy(<<>>, f) /\ ~Chooses(<<>>, f)
           /\ \A op \in {"discover", "load"} :
                 /\ CallFrames(<<Call(op, f)>>, f) /\ ~Chooses(<<Call(op, f)>>, f)
                 /\ Head(<<Call(op, f)>>).op = op /\ \A x \in Elements(<<Call(op, f)>>) : x.op = op
           /\ /\ CallFrames(<<SearchFrame, Call("choose", f)>>, f)
              /\ Head(<<SearchFrame, Call("choose", f)>>).op = "search"
              /\ \A x \in Elements(<<SearchFrame, Call("choose", f)>>) : x.op \in {"search", "choose"}
           /\ \A x \in Frames : x.op = "notify" => CallFrames(<<x>>, f) /\ ~Busy(<<x>>, f) /\ ~Chooses(<<x>>, f)
  <1>1. /\ CallFrames(<<>>, f) /\ Elements(<<>>) = {} /\ ~Busy(<<>>, f) /\ ~Chooses(<<>>, f)
    BY FewElements DEF CallFrames, CallsOnTop, Due, Registers, Busy, Chooses
  <1>2. ASSUME NEW x \in Frames, x.op \in {"discover", "load", "notify"}, x.op # "notify" => x.to[1] = f
        PROVE  CallFrames(<<x>>, f) /\ ~Chooses(<<x>>, f) /\ (x.op = "notify" => ~Busy(<<x>>, f))
    <2>1. PICK q : q = <<x>> OBVIOUS
    <2>2. q \in Seq(Frames) /\ Len(q) = 1 /\ q[1] = x /\ \A k \in 1..Len(q) : k = 1 BY <2>1
    <2>3. Elements(q) = {x} BY <2>1, FewElements
    <2>4. CallFrames(q, f)
      BY <1>2, <2>2, <2>3 DEF CallFrames, CallsOnTop, Due, Registers, SearchCalls
    <2>5. ~Chooses(q, f) /\ (x.op = "notify" => ~Busy(q, f)) BY <1>2, <2>3 DEF Chooses, Busy, Calls
    <2> QED BY <2>1, <2>4, <2>5
  <1>3. ASSUME NEW op \in {"discover", "load"}
        PROVE  /\ CallFrames(<<Call(op, f)>>, f) /\ ~Chooses(<<Call(op, f)>>, f)
               /\ Head(<<Call(op, f)>>).op = op /\ \A x \in Elements(<<Call(op, f)>>) : x.op = op
    <2>1. PICK x \in Frames : x = Call(op, f) /\ x.op = op /\ x.to[1] = f
      BY FramesAre, NowhereIs, FrameFields DEF Call, CallOps
    <2>2. Head(<<x>>) = x /\ Elements(<<x>>) = {x} BY FewElements
    <2> QED BY <1>2, <2>1, <2>2
  <1>4. /\ CallFrames(<<SearchFrame, Call("choose", f)>>, f)
        /\ Head(<<SearchFrame, Call("choose", f)>>).op = "search"
        /\ \A x \in Elements(<<SearchFrame, Call("choose", f)>>) : x.op \in {"search", "choose"}
    <2>1. PICK y \in Frames : y = Call("choose", f) /\ y.op = "choose" /\ y.to[1] = f
      BY FramesAre, NowhereIs, FrameFields DEF Call, CallOps
    <2>2. PICK x \in Frames : x = SearchFrame /\ x.op = "search"
      BY FramesAre, NowhereIs, FrameFields DEF SearchFrame, PlainOps
    <2>3. PICK q : q = <<x, y>> OBVIOUS
    <2>4. /\ q \in Seq(Frames) /\ Len(q) = 2 /\ q[1] = x /\ q[2] = y /\ Head(q) = x
          /\ \A k \in 1..Len(q) : k = 1 \/ k = 2
      BY <2>3
    <2>5. Elements(q) = {x, y} BY <2>3, FewElements
    <2>6. CallsOnTop(q) BY <2>1, <2>2, <2>4 DEF CallsOnTop, SearchCalls, Searching
    <2>7. ~Due(q) BY <2>2, <2>4, CallsAreOnTop
    <2>8. CallFrames(q, f)
      BY <2>1, <2>2, <2>4, <2>5, <2>6, <2>7 DEF CallFrames, Registers, SearchCalls
    <2> QED BY <2>1, <2>2, <2>3, <2>4, <2>5, <2>8
  <1> QED BY <1>1, <1>2, <1>3, <1>4

\* Before a call of a feature goes on
LEMMA CallOnTop ==
    ASSUME RegistryInv, SystemTypes, PrefersInv, stack # <<>>, Head(stack).op \in CallOps
    PROVE  /\ Caller \in Features /\ Head(stack).h \in Backends
           /\ Below(Tail(stack))
           /\ Head(stack) \in Elements(stack)
           /\ Head(stack).op # "notify" => Busy(stack, Caller)
           /\ Head(stack).op = "choose" => Chooses(stack, Caller)
  <1>1. Caller \in Features /\ Head(stack).h \in Backends BY CallerIs DEF SystemTypes
  <1>2. Head(stack).op \notin Searching BY DEF Searching, CallOps
  <1>3. Below(Tail(stack)) BY <1>2, NobodyCalls DEF Below, PrefersInv, SystemTypes
  <1>4. Head(stack) \in Elements(stack) BY ElementsOf DEF SystemTypes, ManagerTypes
  <1> QED BY <1>1, <1>3, <1>4 DEF Busy, Calls, Chooses, Caller, CallOps

\* A feature that discovers tries what it has chosen, or searches first.
LEMMA DiscoverKeepsPreference ==
    ASSUME RegistryInv, SystemTypes, PrefersInv, \A x : Heard(x) => Heard(x)', Discover
    PROVE  PrefersInv'
  <1>1. stack # <<>> /\ Head(stack).op = "discover" /\ Head(stack).op \in CallOps
    BY DEF Discover, Top, CallOps
  <1>2. PICK f \in Features : f = Caller /\ Below(Tail(stack)) /\ Busy(stack, f) BY <1>1, CallOnTop
  <1>3. PICK r \in FeatureType : r = feature[f] BY DEF SystemTypes, FeatureTypes
  <1>4. feature' = [feature EXCEPT ![f] = r] /\ UNCHANGED <<registry, libraryPaths>>
    BY <1>3 DEF Discover, featureVars, SystemTypes, FeatureTypes
  <1>5. Prefers(f, r, stack) BY <1>3 DEF PrefersInv
  <1>6. CASE r.index = 0
    <2>1. PICK p : p = <<SearchFrame, Call("choose", f)>> OBVIOUS
    <2>2. CallFrames(p, f) /\ Head(p).op = "search" /\ \A x \in Elements(p) : x.op \in {"search", "choose"}
      BY <2>1, FramesOfCalls
    <2>3. stack' = p \o Tail(stack) BY <1>2, <1>3, <1>6, <2>1 DEF Discover
    <2>4. Prefers(f, r, p) BY <1>1, <1>2, <1>5, <1>6, <2>2 DEF Prefers
    <2>5. \A x \in Elements(p) : Heard(x)' BY <2>2 DEF Heard
    <2> QED BY <1>2, <1>4, <2>2, <2>3, <2>4, <2>5, CallKeepsPreference
  <1>7. CASE r.index # 0
    <2>1. PICK p : p = <<Call("load", f)>> OBVIOUS
    <2>2. CallFrames(p, f) /\ ~Chooses(p, f) /\ \A x \in Elements(p) : x.op = "load"
      BY <2>1, FramesOfCalls
    <2>3. stack' = p \o Tail(stack) BY <1>2, <1>3, <1>7, <2>1 DEF Discover
    <2>4. Prefers(f, r, p) BY <1>5, <1>7, <2>2 DEF Prefers
    <2>5. \A x \in Elements(p) : Heard(x)' BY <2>2 DEF Heard
    <2> QED BY <1>2, <1>4, <2>2, <2>3, <2>4, <2>5, CallKeepsPreference
  <1> QED BY <1>6, <1>7

\* Without preferred backends every registered backend that matches is found, and no other.
LEMMA AllMatchingFound ==
    ASSUME m_backends \in Seq(Plugins), NEW match
    PROVE  /\ \A i \in DOMAIN Found(match, <<>>) : Found(match, <<>>)[i] \in match \cap Registered
           /\ \A p \in Registered \cap match : \E i \in DOMAIN Found(match, <<>>) : Found(match, <<>>)[i] = p
  <1>1. Found(match, <<>>) = Chosen(m_backends, match) BY DEF Found
  <1>2. PICK found : found = Chosen(m_backends, match) OBVIOUS
  <1>3. IsChoice(found, Plugins, m_backends, match) BY <1>2, ChosenIsChoice
  <1>4. /\ \A i \in 1..Len(found) : \E j \in 1..Len(m_backends) : found[i] = m_backends[j]
        /\ \A j \in 1..Len(m_backends) : m_backends[j] \in match => \E i \in 1..Len(found) : found[i] = m_backends[j]
    BY <1>3 DEF IsChoice
  <1>5. found \in Seq(Plugins \cap match) BY <1>3 DEF IsChoice
  <1>6. DOMAIN found = 1..Len(found) /\ \A i \in 1..Len(found) : found[i] \in match BY <1>5
  <1>7. DOMAIN m_backends = 1..Len(m_backends) OBVIOUS
  <1>8. \A i \in DOMAIN found : found[i] \in match \cap Registered BY <1>4, <1>6, <1>7 DEF Registered
  <1>9. \A p \in Registered \cap match : \E i \in DOMAIN found : found[i] = p
    <2>1. TAKE p \in Registered \cap match
    <2>2. PICK j \in 1..Len(m_backends) : p = m_backends[j] BY <1>7 DEF Registered
    <2> QED BY <1>4, <1>6, <2>2
  <1> QED BY <1>1, <1>2, <1>8, <1>9

\* loadServiceObject() chooses handles when everything is registered.
LEMMA ChooseKeepsPreference ==
    ASSUME OnlySearches, RegistryInv, SystemTypes, PrefersInv, \A x : Heard(x) => Heard(x)', ChooseHandles
    PROVE  PrefersInv'
  <1>1. stack # <<>> /\ Head(stack).op = "choose" /\ Head(stack).op \in CallOps
    BY DEF ChooseHandles, Top, CallOps
  <1>2. PICK f \in Features : f = Caller /\ Below(Tail(stack)) /\ Busy(stack, f) /\ Chooses(stack, f)
    BY <1>1, CallOnTop
  <1>3. PICK r \in FeatureType : r = feature[f] BY DEF SystemTypes, FeatureTypes
  <1>4. PICK match : match = Matching(FeatureInterface[f], Kind(r.search)) OBVIOUS
  <1>5. PICK found : found = Found(match, r.preferred) OBVIOUS
  <1>6. found \in Seq(Plugins) /\ \A i \in DOMAIN found : found[i] \in Registered
    BY <1>5, FoundAreRegistered DEF SystemTypes, ManagerTypes
  <1>7. PICK hs : hs = [i \in DOMAIN found |-> HandleOf(found[i])] OBVIOUS
  <1>8. /\ hs \in Seq(Backends) /\ DOMAIN hs = DOMAIN found /\ (hs = <<>> <=> found = <<>>)
        /\ \A i \in DOMAIN hs : hs[i][1] = found[i]
    BY <1>6, <1>7, HandlesOfFound DEF SystemTypes, ManagerTypes, HandleOf
  <1>9. PICK n \in Nat : n = IF found = <<>> THEN 0 ELSE 1 OBVIOUS
  <1>10. PICK s \in FeatureType : s = [r EXCEPT !.handles = hs, !.index = n] BY <1>8, SearchTyped
  <1>11. /\ s.handles = hs /\ s.index = n /\ s.mode = r.mode /\ s.search = r.search /\ s.so = r.so
         /\ s.preferred = r.preferred
    BY <1>10 DEF FeatureType
  <1>12. PICK p : p = <<Call("load", f)>> OBVIOUS
  <1>13. /\ feature' = [feature EXCEPT ![f] = s] /\ UNCHANGED <<registry, libraryPaths>>
         /\ stack' = p \o Tail(stack)
    BY <1>2, <1>3, <1>4, <1>5, <1>7, <1>9, <1>10, <1>12 DEF ChooseHandles
  <1>14. CallFrames(p, f) /\ ~Chooses(p, f) /\ \A x \in Elements(p) : x.op = "load" BY <1>12, FramesOfCalls
  <1>15. \A x \in Elements(p) : Heard(x)' BY <1>14 DEF Heard
  <1>16. AllFound
    <2>1. stack \in Seq(Frames) BY DEF SystemTypes, ManagerTypes
    <2>2. 1 \in 1..Len(stack) /\ stack[1] = Head(stack) /\ 1..(1 - 1) = {} BY <1>1, <2>1
    <2>3. Due(stack) BY <1>1, <2>2 DEF Due
    <2> QED BY <1>2, <2>3 DEF PrefersInv, Searched, AllFound, Below
  <1>17. found # <<>> => AllForGood
    <2>1. found # <<>> => Registered # {}
      <3>1. found # <<>> => 1 \in DOMAIN found BY <1>6
      <3> QED BY <1>6, <3>1
    <2>2. m_loadedPaths \subseteq Dirs BY DEF SystemTypes, ManagerTypes
    <2> QED BY <1>16, <2>1, <2>2 DEF AllForGood, PrefersInv, FromFiles, OnlySearches
  <1>18. Prefers(f, s, p)
    <2> SUFFICES ASSUME s.mode = "AutoDiscovery" PROVE Prefers(f, s, p) BY DEF Prefers
    <2>1. /\ r.preferred = <<>> /\ r.index = 0 /\ Useless(f, r.so)
          /\ r.search = "simulation" => Hopeless(f)
      BY <1>2, <1>3, <1>11 DEF PrefersInv, Prefers
    <2>2. /\ \A i \in DOMAIN found : found[i] \in match
          /\ \A q \in Registered \cap match : \E i \in DOMAIN found : found[i] = q
      BY <1>5, <2>1, AllMatchingFound DEF SystemTypes, ManagerTypes
    <2>3. r.search \in {"production", "simulation"} BY DEF FeatureType
    <2>4. ASSUME NEW q \in Registered \ Simulation, Usable(f, q) PROVE \E i \in DOMAIN found : found[i] = q
      <3>1. r.search = "production" BY <2>1, <2>3, <2>4 DEF Hopeless
      <3>2. q \in match BY <1>4, <2>4, <3>1, RegisteredAreBackends DEF Matching, Kind, Usable
      <3> QED BY <2>2, <2>4, <3>2
    <2>5. ASSUME NEW i \in DOMAIN found, found[i] \in Simulation PROVE Hopeless(f)
      <3>1. found[i] \in match BY <2>2
      <3>2. r.search = "simulation" BY <1>4, <2>5, <3>1 DEF Matching, Kind
      <3> QED BY <2>1, <3>2
    <2>6. StillToTry(f, hs, 1)
      <3>1. \A i \in DOMAIN hs : i >= 1 BY <1>6, <1>8
      <3> QED BY <1>8, <2>4, <2>5, <3>1 DEF StillToTry
    <2>7. found = <<>> => Hopeless(f) BY <2>4 DEF Hopeless
    <2> QED BY <1>9, <1>11, <1>14, <1>16, <1>17, <2>1, <2>6, <2>7 DEF Prefers
  <1> QED BY <1>2, <1>13, <1>14, <1>15, <1>18, CallKeepsPreference

\* After the last handle a production search goes on as a search for simulations.
LEMMA FailurePrefers ==
    ASSUME NEW f \in Features, NEW r \in FeatureType,
           r.mode = "AutoDiscovery" => r.preferred = <<>> /\ Useless(f, r.so) /\ AllFound /\ Hopeless(f)
    PROVE  /\ AfterFailure(r) \in FeatureType
           /\ CallFrames(NextAfterFailure(f, r), f)
           /\ \A x \in Elements(NextAfterFailure(f, r)) : x.op = "discover"
           /\ Prefers(f, AfterFailure(r), NextAfterFailure(f, r))
  <1>1. PICK s \in FeatureType : s = AfterFailure(r) BY SearchTyped
  <1>2. s.index = 0 /\ s.mode = r.mode /\ s.preferred = r.preferred /\ s.so = r.so
    BY <1>1 DEF AfterFailure, FeatureType
  <1>3. PICK p : p = NextAfterFailure(f, r) OBVIOUS
  <1>4. /\ CallFrames(p, f) /\ ~Chooses(p, f) /\ \A x \in Elements(p) : x.op = "discover"
        /\ ~FallsBack(r) => ~Busy(p, f)
    BY <1>3, FramesOfCalls DEF NextAfterFailure
  <1>5. Prefers(f, s, p) BY <1>2, <1>4 DEF Prefers
  <1> QED BY <1>1, <1>3, <1>4, <1>5

\* The rest of loadServiceObject()
LEMMA LoadKeepsPreference ==
    ASSUME RegistryInv, SystemTypes, SearchOrder, PrefersInv, \A x : Heard(x) => Heard(x)',
           \A h : IsValid(h) => IsValid(h)', LoadCurrentHandle
    PROVE  PrefersInv'
  <1>1. stack # <<>> /\ Head(stack).op = "load" /\ Head(stack).op \in CallOps
    BY DEF LoadCurrentHandle, Top, CallOps
  <1>2. PICK f \in Features : f = Caller /\ Below(Tail(stack)) /\ Busy(stack, f) BY <1>1, CallOnTop
  <1>3. PICK r \in FeatureType : r = feature[f] BY DEF SystemTypes, FeatureTypes
  <1>4. PICK h : h = r.handles[r.index] OBVIOUS
  <1>5. UNCHANGED <<registry, libraryPaths>> BY DEF LoadCurrentHandle
  <1>6. Prefers(f, r, stack) BY <1>3 DEF PrefersInv
  <1>7. CASE r.handles = <<>>
    <2>1. r.index = 0 BY <1>3, <1>7 DEF SearchOrder, Indexed
    <2>2. r.mode = "AutoDiscovery" => r.preferred = <<>> /\ Useless(f, r.so) /\ AllFound /\ Hopeless(f)
      BY <1>1, <1>2, <1>6, <2>1 DEF Prefers
    <2>3. PICK s \in FeatureType, p \in Seq(Frames) :
             /\ s = AfterFailure(r) /\ p = NextAfterFailure(f, r) /\ CallFrames(p, f)
             /\ (\A x \in Elements(p) : x.op = "discover") /\ Prefers(f, s, p)
      BY <2>2, FailurePrefers DEF CallFrames
    <2>4. feature' = [feature EXCEPT ![f] = s] /\ stack' = p \o Tail(stack)
      BY <1>2, <1>3, <1>7, <2>3 DEF LoadCurrentHandle
    <2>5. \A x \in Elements(p) : Heard(x)' BY <2>3 DEF Heard
    <2> QED BY <1>2, <1>5, <2>3, <2>4, <2>5, CallKeepsPreference
  <1>8. CASE r.handles # <<>>
    <2>1. r.index \in DOMAIN r.handles /\ r.index # 0
      BY <1>1, <1>2, <1>3, <1>8 DEF SearchOrder, Indexed, HasOne
    <2>2. r.handles \in Seq(Backends) BY DEF FeatureType
    <2>3. h \in Backends BY <1>4, <2>1, <2>2
    <2>4. feature' = [feature EXCEPT ![f] = r]
      BY <1>2, <1>3, <1>8 DEF LoadCurrentHandle, SystemTypes, FeatureTypes
    <2>5. ASSUME NEW p, CallFrames(p, f), ~Chooses(p, f), \A x \in Elements(p) : Heard(x)', stack' = p \o Tail(stack)
          PROVE  PrefersInv'
      <3>1. Prefers(f, r, p) BY <1>6, <2>1, <2>5 DEF Prefers
      <3> QED BY <1>2, <1>5, <2>4, <2>5, <3>1, CallKeepsPreference
    <2>6. CASE IsLoaded(h)
      <3>1. PICK x \in Frames : x = Frame("notify", h, <<f>>, {}) BY <2>3, FramesAre DEF CallOps
      <3>2. x.op = "notify" /\ x.h = h BY <3>1, FrameFields
      <3>3. stack' = <<x>> \o Tail(stack)
        BY <1>2, <1>3, <1>4, <1>8, <2>6, <3>1 DEF LoadCurrentHandle
      <3>4. Heard(x)' BY <2>6, <3>2 DEF IsLoaded, Heard
      <3>5. \A y \in Elements(<<x>>) : Heard(y)' BY <3>4, FewElements
      <3> QED BY <2>5, <3>2, <3>3, <3>5, FramesOfCalls
    <2>7. CASE ~IsLoaded(h)
      <3>1. LoadServiceObject(h, r.async, Tail(stack))
        BY <1>2, <1>3, <1>4, <1>8, <2>7 DEF LoadCurrentHandle
      <3>2. \/ stack' = Tail(stack)
            \/ IsValid(h) /\ stack' = CreateThenEmit(h) \o Tail(stack)
        BY <3>1 DEF LoadServiceObject
      <3>3. CASE stack' = Tail(stack)
        <4>1. stack' = <<>> \o Tail(stack) BY <1>2, <3>3 DEF Below
        <4> QED BY <2>5, <4>1, FramesOfCalls
      <3>4. CASE IsValid(h) /\ stack' = CreateThenEmit(h) \o Tail(stack)
        <4>1. IsValid(h)' BY <3>4
        <4>2. Silent(CreateThenEmit(h)) /\ \A x \in Elements(CreateThenEmit(h)) : Heard(x)'
          BY <2>3, <4>1, LoadAnnounced DEF SystemTypes
        <4>3. PICK p : p = CreateThenEmit(h) OBVIOUS
        <4>4. p \in Seq(Frames) /\ NoCall(p) /\ ~Registers(p) BY <4>2, <4>3 DEF Silent
        <4>5. CallsOnTop(p) /\ ~Due(p) BY <4>4, CallsAreOnTop
        <4>6. ~Chooses(p, f) BY <4>4, CallsAreElements
        <4>7. CallFrames(p, f) BY <4>4, <4>5 DEF CallFrames, NoCall, Elements
        <4>8. \A x \in Elements(p) : Heard(x)' BY <4>2, <4>3
        <4> QED BY <2>5, <3>4, <4>3, <4>6, <4>7, <4>8
      <3> QED BY <3>2, <3>3, <3>4
    <2> QED BY <2>6, <2>7
  <1> QED BY <1>7, <1>8

\* Unbinding, binding and what is connected leave the preferred backends alone.
LEMMA WishesStay ==
    ASSUME NEW f, NEW r \in FeatureType
    PROVE  /\ Connected(f, r).preferred = r.preferred /\ Connected(f, r).so = r.so
           /\ Disconnected(r).preferred = r.preferred /\ Disconnected(r).so = r.so
           /\ Unbound(r).preferred = r.preferred /\ Unbound(r).so = none /\ Unbound(r).updates = r.updates
           /\ Abandoned(r).preferred = r.preferred /\ Abandoned(r).so = none
           /\ Initialized(r).preferred = r.preferred /\ Initialized(r).so = r.so
           /\ \A w \in BOOLEAN : /\ Watching(r, w).preferred = r.preferred /\ Watching(r, w).so = r.so
                                 /\ Watching(r, w).connected = r.connected
                                 /\ Updating(r, w).preferred = r.preferred /\ Updating(r, w).so = r.so
           /\ \A so : /\ WithPointer(r, so).preferred = r.preferred /\ WithPointer(r, so).so = so
                      /\ WithPointer(r, so).updates = r.updates
  <1>1. PICK v \in BOOLEAN : v = (r.so[1] \notin Instanceless) OBVIOUS
  <1>2. Connected(f, r) = r \/ Connected(f, r) = [r EXCEPT !.connected = TRUE, !.attached = v]
    BY <1>1 DEF Connected
  <1>3. /\ [r EXCEPT !.connected = TRUE, !.attached = v].preferred = r.preferred
        /\ [r EXCEPT !.connected = TRUE, !.attached = v].so = r.so
    BY DEF FeatureType
  <1>4. Connected(f, r).preferred = r.preferred /\ Connected(f, r).so = r.so BY <1>2, <1>3
  <1>5. Disconnected(r).preferred = r.preferred /\ Disconnected(r).so = r.so BY DEF Disconnected, FeatureType
  <1>6. Unbound(r).preferred = r.preferred /\ Unbound(r).so = none /\ Unbound(r).updates = r.updates
    BY DEF Unbound, Disconnected, FeatureType
  <1>7. /\ Abandoned(r).preferred = r.preferred /\ Abandoned(r).so = none
        /\ Initialized(r).preferred = r.preferred /\ Initialized(r).so = r.so
    BY DEF Abandoned, Initialized, FeatureType
  <1>8. \A w \in BOOLEAN : /\ Watching(r, w).preferred = r.preferred /\ Watching(r, w).so = r.so
                           /\ Watching(r, w).connected = r.connected
                           /\ Updating(r, w).preferred = r.preferred /\ Updating(r, w).so = r.so
    BY DEF Watching, Updating, FeatureType
  <1>9. \A so : /\ WithPointer(r, so).preferred = r.preferred /\ WithPointer(r, so).so = so
                /\ WithPointer(r, so).updates = r.updates
    BY DEF WithPointer, FeatureType
  <1> QED BY <1>4, <1>5, <1>6, <1>7, <1>8, <1>9

\* setServiceObject() of something the feature can use succeeds.
LEMMA SetPrefers ==
    ASSUME NEW f \in Features, NEW r \in FeatureType, NEW so \in ServiceObjectOrNone,
           NEW set, set = AfterSet(f, r, so)
    PROVE  /\ set.preferred = r.preferred
           /\ set.so \in {r.so, none, so}
           /\ Useless(f, r.so) /\ ~SetReturnsTrue(f, r, so) => Useless(f, so) /\ Useless(f, set.so)
  <1>1. PICK u \in FeatureType : u = Unbound(r) BY BindingTyped
  <1>2. u.preferred = r.preferred /\ u.so = none /\ u.updates = r.updates BY <1>1, WishesStay
  <1>3. PICK bare \in FeatureType : bare = WithPointer(u, so) BY BindingTyped
  <1>4. bare.preferred = r.preferred /\ bare.so = so /\ bare.updates = r.updates BY <1>2, <1>3, WishesStay
  <1>5. PICK con \in FeatureType : con = IF so # none /\ r.updates THEN Connected(f, bare) ELSE bare
    BY <1>3, BindingTyped
  <1>6. con.preferred = r.preferred /\ con.so = so BY <1>4, <1>5, WishesStay
  <1>7. PICK w \in BOOLEAN : w = (so # none /\ Watches(r, con)) OBVIOUS
  <1>8. PICK b \in FeatureType : b = Watching(con, w) BY BindingTyped
  <1>9. b.preferred = r.preferred /\ b.so = so /\ b.connected = con.connected BY <1>6, <1>8, WishesStay
  <1>10. Bound(f, r, so) = b BY <1>1, <1>3, <1>5, <1>7, <1>8 DEF Bound, WithPointer, Watching
  <1>11. set \in {r, u, b} BY <1>1, <1>10 DEF AfterSet
  <1>12. set.preferred = r.preferred /\ set.so \in {r.so, none, so} BY <1>2, <1>9, <1>11
  <1>13. ASSUME Useless(f, r.so), ~Useless(f, so) PROVE SetReturnsTrue(f, r, so)
    <2>1. so # none /\ Usable(f, so[1]) /\ r.so # so BY <1>13 DEF Useless
    <2>2. Accepts(f, so) BY <2>1 DEF Usable, Accepts
    <2>3. ~(f \in Demanding /\ bare.so[1] \in Instanceless) BY <1>4, <2>1 DEF Usable
    <2>4. IsFeature(bare)
      <3>1. PICK U : FeatureType \subseteq FeatureIn(U)
        <4>1. FeatureType \subseteq FeatureIn(ServiceObjectOrNone \cup DiscoveryModes \cup DiscoveryResults
                  \cup {"production", "simulation"} \cup Seq(Backends) \cup Nat \cup Preferences)
          BY DEF FeatureType, FeatureIn
        <4> QED BY <4>1
      <3> QED BY <3>1 DEF IsFeature
    <2>5. Connected(f, bare).connected = TRUE BY <2>3, <2>4, ConnectedWhen
    <2>6. r.updates => Bound(f, r, so).connected BY <1>5, <1>9, <1>10, <2>1, <2>5
    <2> QED BY <2>1, <2>2, <2>6 DEF SetReturnsTrue
  <1> QED BY <1>12, <1>13 DEF Useless

\* onServiceObjectLoaded(): what was loaded is bound to if it can be used.
LEMMA NotifyKeepsPreference ==
    ASSUME RegistryInv, SystemTypes, PrefersInv, \A x : Heard(x) => Heard(x)', OnServiceObjectLoaded
    PROVE  PrefersInv'
  <1>1. stack # <<>> /\ Head(stack).op = "notify" /\ Head(stack).op \in CallOps
    BY DEF OnServiceObjectLoaded, Top, CallOps
  <1>2. PICK f \in Features, h \in Backends :
           f = Caller /\ h = Head(stack).h /\ Below(Tail(stack)) /\ Head(stack) \in Elements(stack)
    BY <1>1, CallOnTop
  <1>3. PICK r \in FeatureType : r = feature[f] BY DEF SystemTypes, FeatureTypes
  <1>4. PICK so \in ServiceObjectOrNone :
           so = ServiceObjectOf(h) /\ (h[1] \in Available => so # none /\ so[1] = h[1])
    <2>1. h[1] \in Plugins /\ life[h[1]] \in Nat /\ backend[h[1]].proxy \in Nat
      BY DEF SystemTypes, ManagerTypes, BackendType, Backends
    <2>2. Heard(Head(stack)) BY <1>2 DEF PrefersInv, Delivered
    <2>3. h[1] \in Available => IsLoaded(h) BY <1>1, <1>2, <2>2 DEF Heard, Fresh, IsLoaded
    <2>4. ProxyOf(h[1]) # none /\ ProxyOf(h[1])[1] = h[1] /\ ProxyOf(h[1]) \in ServiceObjectOrNone
      BY <2>1 DEF ProxyOf, none, ServiceObjectOrNone, ServiceObjects
    <2> QED BY <2>3, <2>4 DEF ServiceObjectOf, ServiceObjectOrNone
  <1>5. PICK set \in FeatureType : set = AfterSet(f, r, so) /\ SameSearch(r, set) BY SetTyped
  <1>6. /\ set.preferred = r.preferred
        /\ Useless(f, r.so) /\ ~SetReturnsTrue(f, r, so) => Useless(f, so) /\ Useless(f, set.so)
    BY <1>5, SetPrefers
  <1>7. PICK n \in Nat : n = r.index + 1 BY DEF FeatureType
  <1>8. PICK next \in FeatureType : next = [set EXCEPT !.index = n] BY SearchTyped
  <1>9. [set EXCEPT !.index = @ + 1] = next BY <1>5, <1>7, <1>8 DEF FeatureType, SameSearch
  <1>10. /\ next.index = n /\ next.handles = r.handles /\ next.mode = r.mode /\ next.search = r.search
         /\ next.preferred = r.preferred /\ next.so = set.so
    BY <1>5, <1>6, <1>8 DEF FeatureType, SameSearch
  <1>11. UNCHANGED <<registry, libraryPaths>> BY DEF OnServiceObjectLoaded
  <1>12. PICK x \in DiscoveryResults : x = IF r.search = "production" THEN "ProductionBackendLoaded"
                                           ELSE "SimulationBackendLoaded"
    BY DEF DiscoveryResults
  <1>13. PICK won \in FeatureType : won = [set EXCEPT !.index = 0, !.handles = <<>>, !.result = x]
    BY SearchTyped
  <1>14. won.index = 0 /\ won.mode = r.mode /\ won.preferred = r.preferred
    BY <1>5, <1>6, <1>13 DEF FeatureType, SameSearch
  <1>15. Prefers(f, r, stack) BY <1>3 DEF PrefersInv
  <1>16. /\ CallFrames(<<>>, f) /\ ~Busy(<<>>, f) /\ ~Chooses(<<>>, f) /\ Elements(<<>>) = {}
         /\ <<>> \o Tail(stack) = Tail(stack)
    <2>1. Tail(stack) \in Seq(Frames) BY <1>2 DEF Below
    <2>2. <<>> \o Tail(stack) = Tail(stack) BY <2>1
    <2>3. /\ CallFrames(<<>>, f) /\ ~Busy(<<>>, f) /\ ~Chooses(<<>>, f) /\ Elements(<<>>) = {}
      BY FramesOfCalls
    <2> QED BY <2>2, <2>3
  <1>17. ASSUME IsAwaited(r, h), ~SetReturnsTrue(f, r, so), r.mode = "AutoDiscovery"
         PROVE  /\ r.preferred = <<>> /\ Useless(f, next.so) /\ AllForGood /\ AllFound
                /\ StillToTry(f, r.handles, n)
                /\ ~HasNext(r) => Hopeless(f)
    <2>1. r.handles \in Seq(Backends) /\ r.index \in Nat BY DEF FeatureType
    <2>2. r.index \in 1..Len(r.handles) /\ r.handles[r.index] = h BY <1>17, <2>1 DEF IsAwaited
    <2>3. r.index # 0 BY <2>1, <2>2
    <2>4. r.preferred = <<>> /\ AllForGood /\ StillToTry(f, r.handles, r.index) /\ Useless(f, r.so)
      BY <1>15, <1>17, <2>3 DEF Prefers
    <2>5. Useless(f, so) /\ Useless(f, next.so) BY <1>6, <1>10, <1>17, <2>4
    <2>6. ~Usable(f, h[1]) BY <1>4, <2>5 DEF Useless, Usable, Available
    <2>7. ASSUME NEW p \in Registered \ Simulation, Usable(f, p)
          PROVE  \E i \in DOMAIN r.handles : i >= n /\ r.handles[i][1] = p
      <3>1. PICK i \in DOMAIN r.handles : i >= r.index /\ r.handles[i][1] = p BY <2>4, <2>7 DEF StillToTry
      <3>2. i # r.index BY <2>2, <2>6, <2>7, <3>1
      <3>3. i \in Nat BY <2>1, <3>1
      <3>4. i >= n BY <1>7, <2>1, <3>1, <3>2, <3>3
      <3> QED BY <3>1, <3>4
    <2>8. StillToTry(f, r.handles, n) BY <2>4, <2>7 DEF StillToTry
    <2>9. ~HasNext(r) => \A i \in DOMAIN r.handles : ~(i >= n) BY <1>7, <2>1 DEF HasNext
    <2>10. ~HasNext(r) => Hopeless(f) BY <2>7, <2>9 DEF Hopeless
    <2> QED BY <2>4, <2>5, <2>8, <2>10 DEF AllForGood
  <1>18. \/ stack' = Tail(stack) /\ UNCHANGED feature
         \/ feature' = [feature EXCEPT ![f] = won] /\ stack' = Tail(stack)
         \/ /\ IsAwaited(r, h) /\ ~SetReturnsTrue(f, r, so)
            /\ feature' = [feature EXCEPT ![f] = next] /\ stack' = <<Call("load", f)>> \o Tail(stack)
         \/ /\ IsAwaited(r, h) /\ ~SetReturnsTrue(f, r, so) /\ ~HasNext(r)
            /\ feature' = [feature EXCEPT ![f] = AfterFailure(next)]
            /\ stack' = NextAfterFailure(f, next) \o Tail(stack)
    BY <1>2, <1>3, <1>4, <1>5, <1>9, <1>12, <1>13 DEF OnServiceObjectLoaded, featureVars
  <1>19. CASE stack' = Tail(stack) /\ UNCHANGED feature
    <2>1. feature' = [feature EXCEPT ![f] = r] BY <1>3, <1>19 DEF SystemTypes, FeatureTypes
    <2>2. Prefers(f, r, <<>>) BY <1>15, <1>16 DEF Prefers
    <2> QED BY <1>2, <1>11, <1>16, <1>19, <2>1, <2>2, CallKeepsPreference
  <1>20. CASE feature' = [feature EXCEPT ![f] = won] /\ stack' = Tail(stack)
    <2>1. Prefers(f, won, <<>>) BY <1>14, <1>15, <1>16 DEF Prefers
    <2> QED BY <1>2, <1>11, <1>16, <1>20, <2>1, CallKeepsPreference
  <1>21. CASE /\ IsAwaited(r, h) /\ ~SetReturnsTrue(f, r, so)
              /\ feature' = [feature EXCEPT ![f] = next] /\ stack' = <<Call("load", f)>> \o Tail(stack)
    <2>1. PICK p : p = <<Call("load", f)>> OBVIOUS
    <2>2. CallFrames(p, f) /\ ~Chooses(p, f) /\ \A y \in Elements(p) : y.op = "load"
      BY <2>1, FramesOfCalls
    <2>3. n # 0 BY <1>7 DEF FeatureType
    <2>4. Prefers(f, next, p) BY <1>10, <1>17, <1>21, <2>2, <2>3 DEF Prefers
    <2>5. \A y \in Elements(p) : Heard(y)' BY <2>2 DEF Heard
    <2> QED BY <1>2, <1>11, <1>21, <2>1, <2>2, <2>4, <2>5, CallKeepsPreference
  <1>22. CASE /\ IsAwaited(r, h) /\ ~SetReturnsTrue(f, r, so) /\ ~HasNext(r)
              /\ feature' = [feature EXCEPT ![f] = AfterFailure(next)]
              /\ stack' = NextAfterFailure(f, next) \o Tail(stack)
    <2>1. next.mode = "AutoDiscovery" =>
             next.preferred = <<>> /\ Useless(f, next.so) /\ AllFound /\ Hopeless(f)
      BY <1>10, <1>17, <1>22
    <2>2. PICK s \in FeatureType, p \in Seq(Frames) :
             /\ s = AfterFailure(next) /\ p = NextAfterFailure(f, next) /\ CallFrames(p, f)
             /\ (\A y \in Elements(p) : y.op = "discover") /\ Prefers(f, s, p)
      BY <2>1, FailurePrefers DEF CallFrames
    <2>3. \A y \in Elements(p) : Heard(y)' BY <2>2 DEF Heard
    <2> QED BY <1>2, <1>11, <1>22, <2>2, <2>3, CallKeepsPreference
  <1> QED BY <1>18, <1>19, <1>20, <1>21, <1>22

\* startAutoDiscovery()
LEMMA StartKeepsPreference ==
    ASSUME RegistryInv, SystemTypes, PrefersInv, \A x : Heard(x) => Heard(x)',
           NEW f \in Features, StartAutoDiscovery(f)
    PROVE  PrefersInv'
  <1>1. PICK r \in FeatureType : r = feature[f] BY DEF SystemTypes, FeatureTypes
  <1>2. AtEventLoop /\ UNCHANGED <<registry, libraryPaths>> BY DEF StartAutoDiscovery, MayCall
  <1>3. stack \in Seq(Frames) /\ NoCall(stack) /\ ~Registers(stack)
    BY <1>2, NobodyCalls DEF PrefersInv, SystemTypes
  <1>4. Below(stack) BY <1>3 DEF Below
  <1>5. Prefers(f, r, stack) BY <1>1 DEF PrefersInv
  <1>6. CASE r.so # none \/ r.mode = "NoAutoDiscovery"
    <2>1. PICK s \in FeatureType : s = [r EXCEPT !.result = "NoResult"]
      BY SearchTyped DEF DiscoveryResults
    <2>2. /\ s.mode = r.mode /\ s.preferred = r.preferred /\ s.index = r.index /\ s.handles = r.handles
          /\ s.so = r.so
      BY <2>1 DEF FeatureType
    <2>3. feature' = [feature EXCEPT ![f] = s] /\ stack' = stack
      BY <1>1, <1>6, <2>1 DEF StartAutoDiscovery, SystemTypes, FeatureTypes
    <2>4. CallFrames(<<>>, f) /\ ~Busy(<<>>, f) /\ ~Chooses(<<>>, f) /\ Elements(<<>>) = {}
      BY FramesOfCalls
    <2>5. stack' = <<>> \o stack BY <1>3, <2>3
    <2>6. Prefers(f, s, <<>>) BY <1>5, <2>2, <2>4 DEF Prefers
    <2> QED BY <1>2, <1>4, <2>3, <2>4, <2>5, <2>6, CallKeepsPreference
  <1>7. CASE r.so = none /\ r.mode # "NoAutoDiscovery"
    <2>1. PICK y \in {"production", "simulation"} :
             y = IF r.mode = "LoadOnlySimulationBackends" THEN "simulation" ELSE "production"
      OBVIOUS
    <2>2. PICK s \in FeatureType : s = [r EXCEPT !.search = y] BY SearchTyped
    <2>3. /\ s.mode = r.mode /\ s.preferred = r.preferred /\ s.index = r.index /\ s.handles = r.handles
          /\ s.so = r.so /\ s.search = y
      BY <2>2 DEF FeatureType
    <2>4. PICK p : p = <<Call("discover", f)>> OBVIOUS
    <2>5. feature' = [feature EXCEPT ![f] = s] /\ stack' = p \o stack
      BY <1>1, <1>7, <2>1, <2>2, <2>4 DEF StartAutoDiscovery, SystemTypes, FeatureTypes
    <2>6. /\ CallFrames(p, f) /\ ~Chooses(p, f) /\ Head(p).op = "discover"
          /\ \A x \in Elements(p) : x.op = "discover"
      BY <2>4, FramesOfCalls
    <2>7. Prefers(f, s, p) BY <1>5, <1>7, <2>1, <2>3, <2>6 DEF Prefers, Useless
    <2>8. \A x \in Elements(p) : Heard(x)' BY <2>6 DEF Heard
    <2> QED BY <1>2, <1>4, <2>5, <2>6, <2>7, <2>8, CallKeepsPreference
  <1> QED BY <1>6, <1>7

\* What the manager does, and the slots it calls, leave the wishes of a feature as they are.
LEMMA WishesKept ==
    ASSUME OnlySearches, SystemTypes, SystemTypes',
           \/ UNCHANGED feature
           \/ ServiceObjectsDestroyed
           \/ \E p \in Plugins : InitializationDone(p)
           \/ \E f \in Features : SetBackendUpdatesEnabled(f) \/ SetAsynchronousBackendLoading(f)
    PROVE  \A f \in Features : SameWish(feature[f], feature'[f])
  <1> SUFFICES ASSUME NEW f \in Features PROVE SameWish(feature[f], feature'[f]) OBVIOUS
  <1>1. PICK r \in FeatureType : r = feature[f] BY DEF SystemTypes, FeatureTypes
  <1>2. SameWish(r, r) BY DEF SameWish
  <1>3. CASE UNCHANGED feature BY <1>1, <1>2, <1>3
  <1>4. CASE ServiceObjectsDestroyed
    <2>1. SameWish(r, Abandoned(r)) BY BindingTyped, WishesStay DEF SameSearch, SameWish
    <2>2. feature'[f] = r \/ feature'[f] = Abandoned(r) BY <1>1, <1>4 DEF ServiceObjectsDestroyed
    <2> QED BY <1>1, <1>2, <2>1, <2>2
  <1>5. CASE \E p \in Plugins : InitializationDone(p)
    <2>1. SameWish(r, Initialized(r)) BY BindingTyped, WishesStay DEF SameSearch, SameWish
    <2>2. feature'[f] = r \/ feature'[f] = Initialized(r)
      BY <1>1, <1>5 DEF InitializationDone, Initialized
    <2> QED BY <1>1, <1>2, <2>1, <2>2
  <1>6. ASSUME NEW g \in Features, SetBackendUpdatesEnabled(g) PROVE SameWish(r, feature'[f])
    <2>1. CASE g # f
      <3>1. feature'[f] = r BY <1>1, <1>6, <2>1 DEF SetBackendUpdatesEnabled, SystemTypes, FeatureTypes
      <3> QED BY <1>2, <3>1
    <2>2. CASE g = f
      <3>1. PICK w \in BOOLEAN : w = ~r.updates OBVIOUS
      <3>2. PICK u \in FeatureType : u = Updating(r, w) /\ SameSearch(r, u) BY BindingTyped
      <3>3. u.preferred = r.preferred /\ u.so = r.so BY <3>2, WishesStay
      <3>4. /\ SameSearch(u, Connected(f, u)) /\ SameSearch(u, Disconnected(u)) BY BindingTyped
      <3>5. /\ Connected(f, u).preferred = u.preferred /\ Connected(f, u).so = u.so
            /\ Disconnected(u).preferred = u.preferred /\ Disconnected(u).so = u.so
        BY WishesStay
      <3>6. SameWish(r, u) /\ SameWish(r, Connected(f, u)) /\ SameWish(r, Disconnected(u))
        BY <3>2, <3>3, <3>4, <3>5 DEF SameSearch, SameWish
      <3>7. [r EXCEPT !.updates = ~@] = u BY <3>1, <3>2 DEF Updating, FeatureType
      <3>8. feature'[f] \in {u, Connected(f, u), Disconnected(u)}
        <4>1. [feature[g] EXCEPT !.updates = ~@] = u BY <1>1, <2>2, <3>7
        <4>2. PICK v \in {u, Connected(f, u), Disconnected(u)} : feature' = [feature EXCEPT ![f] = v]
          BY <1>6, <2>2, <4>1 DEF SetBackendUpdatesEnabled
        <4> QED BY <4>2 DEF SystemTypes, FeatureTypes
      <3> QED BY <3>6, <3>8
    <2> QED BY <2>1, <2>2
  <1>7. ASSUME NEW g \in Features, SetAsynchronousBackendLoading(g) PROVE SameWish(r, feature'[f])
    <2>1. CASE g # f
      <3>1. feature'[f] = r BY <1>1, <1>7, <2>1 DEF SetAsynchronousBackendLoading, SystemTypes, FeatureTypes
      <3> QED BY <1>2, <3>1
    <2>2. CASE g = f
      <3>1. feature'[f] = [r EXCEPT !.async = ~r.async]
        BY <1>1, <1>7, <2>2 DEF SetAsynchronousBackendLoading, SystemTypes, FeatureTypes
      <3>2. SameWish(r, [r EXCEPT !.async = ~r.async]) BY DEF FeatureType, SameWish
      <3> QED BY <3>1, <3>2
    <2> QED BY <2>1, <2>2
  <1> QED BY <1>1, <1>3, <1>4, <1>5, <1>6, <1>7

\* A step that is neither a call nor a search of the manager's
LEMMA RestsWhenStill ==
    ASSUME PrefersInv, UNCHANGED managerVars, \A x : Heard(x) => Heard(x)'
    PROVE  Rests /\ UNCHANGED registry /\ libraryPaths' = libraryPaths
  BY DEF managerVars, Rests, PrefersInv, Delivered

\* Every step keeps production backends preferred.
LEMMA PreferenceKept ==
    ASSUME BackendsStay, OnlySearches, ServiceInv, SystemTypes, SystemTypes', SearchOrder, PrefersInv, [Next]_vars
    PROVE  PrefersInv'
  <1>1. RegistryInv /\ ManagerTypes BY DEF ServiceInv, SystemTypes
  <1>2. \A x : Heard(x) => Heard(x)' BY <1>1, HeardStays
  <1>3. \A h : IsValid(h) => IsValid(h)' BY <1>1, RegisteredStay
  <1>4. CASE FeatureInternal
    BY <1>1, <1>2, <1>3, <1>4, DiscoverKeepsPreference, ChooseKeepsPreference, LoadKeepsPreference,
       NotifyKeepsPreference DEF FeatureInternal
  <1>5. ASSUME NEW f \in Features, StartAutoDiscovery(f) PROVE PrefersInv'
    BY <1>1, <1>2, <1>5, StartKeepsPreference
  <1>6. libraryPaths' \in Seq(Dirs) BY DEF SystemTypes, ManagerTypes
  <1>7. ASSUME UNCHANGED managerVars, \A f \in Features : SameWish(feature[f], feature'[f]) PROVE PrefersInv'
    BY <1>2, <1>6, <1>7, RestsWhenStill, RestsKeep
  <1>8. ASSUME ManagerNext, \A f \in Features : SameWish(feature[f], feature'[f]),
               SearchPlugins => UNCHANGED feature
        PROVE  PrefersInv'
    <2>1. CASE SearchPlugins BY <1>1, <1>2, <1>8, <2>1, SearchKeepsPreference
    <2>2. CASE AddBackend BY <1>1, <1>2, <1>8, <2>2, AddKeepsPreference
    <2>3. CASE ~SearchPlugins /\ ~AddBackend
      <3>1. CallsOnTop(stack) /\ Delivered BY DEF PrefersInv
      <3>2. Rests /\ UNCHANGED registry /\ (libraryPaths' = libraryPaths \/ "path" \in UserCalls)
        BY <1>1, <1>2, <1>3, <1>8, <2>3, <3>1, ManagerRests
      <3> QED BY <1>6, <1>8, <3>2, RestsKeep
    <2> QED BY <2>1, <2>2, <2>3
  <1>9. CASE ManagerKeeps
    <2>1. ManagerNext /\ UNCHANGED feature BY <1>9 DEF ManagerKeeps, ManagerNext, featureVars
    <2>2. \A f \in Features : SameWish(feature[f], feature'[f]) BY <2>1, WishesKept
    <2> QED BY <1>8, <2>1, <2>2
  <1>10. CASE ServiceObjectsDestroyed
    <2>1. AddBackend
      BY <1>10 DEF ServiceObjectsDestroyed, ManagerDeletes, UnloadAllBackends, MayCall, BackendsStay
    <2>2. \A f \in Features : SameWish(feature[f], feature'[f]) BY <1>10, WishesKept
    <2> QED BY <1>1, <1>2, <2>1, <2>2, AddKeepsPreference
  <1>11. CASE \E p \in Plugins : InitializationDone(p)
    <2>1. \A f \in Features : SameWish(feature[f], feature'[f]) BY <1>11, WishesKept
    <2> QED BY <1>7, <1>11, <2>1 DEF InitializationDone
  <1>12. CASE FeatureCalls
    <2>1. PICK f \in Features :
             \/ StartAutoDiscovery(f)
             \/ SetBackendUpdatesEnabled(f)
             \/ SetAsynchronousBackendLoading(f)
      BY <1>12 DEF FeatureCalls, OnlySearches, SetServiceObject, SetDiscoveryMode, SetPreferredBackends, MayCall
    <2>2. CASE SetBackendUpdatesEnabled(f) \/ SetAsynchronousBackendLoading(f)
      <3>1. \A g \in Features : SameWish(feature[g], feature'[g]) BY <2>2, WishesKept
      <3>2. UNCHANGED managerVars
        BY <2>2 DEF SetBackendUpdatesEnabled, SetAsynchronousBackendLoading
      <3> QED BY <1>7, <3>1, <3>2
    <2> QED BY <1>5, <2>1, <2>2
  <1>13. CASE UNCHANGED vars
    <2>1. UNCHANGED managerVars /\ UNCHANGED feature BY <1>13 DEF vars, featureVars
    <2>2. \A f \in Features : SameWish(feature[f], feature'[f]) BY <2>1, WishesKept
    <2> QED BY <1>7, <2>1, <2>2
  <1> QED BY <1>4, <1>9, <1>10, <1>11, <1>12, <1>13 DEF Next

\* Before the first search nothing is preferred.
LEMMA PreferenceInitially ==
    ASSUME Init PROVE PrefersInv
  <1>1. PICK mode \in InitialModes, async \in [Features -> InitialAsync] :
           feature = [f \in Features |-> NewFeature(mode, async[f])]
    BY DEF Init
  <1>2. Registered = {} /\ m_loadedPaths = {} BY DEF Init, ManagerInit, Registered
  <1>3. PICK x \in Frames : x = SearchFrame /\ x.op = "search"
    BY FramesAre, NowhereIs, FrameFields DEF SearchFrame, PlainOps
  <1>4. stack = <<x>> BY <1>3 DEF Init, ManagerInit
  <1>5. PICK q : q = <<x>> OBVIOUS
  <1>6. q \in Seq(Frames) /\ q # <<>> /\ Head(q) = x /\ \A k \in 1..Len(q) : q[k] = x BY <1>5
  <1>7. CallsOnTop(q) /\ ~Registers(q) /\ NoCall(q)
    BY <1>3, <1>6 DEF CallsOnTop, SearchCalls, Registers, NoCall
  <1>8. ~Due(q) BY <1>6, <1>7, CallsAreOnTop
  <1>9. Delivered BY <1>3, <1>4, FewElements DEF Delivered, Heard
  <1>10. ASSUME NEW f \in Features PROVE Prefers(f, feature[f], stack)
    <2>1. ~Busy(q, f) /\ ~Chooses(q, f) BY <1>7, CallsAreElements
    <2>2. feature[f].index = 0 /\ feature[f].preferred = <<>> BY <1>1 DEF NewFeature
    <2> QED BY <1>4, <1>5, <2>1, <2>2 DEF Prefers
  <1> QED BY <1>2, <1>4, <1>5, <1>7, <1>8, <1>9, <1>10 DEF PrefersInv, Searched, FromFiles

\* onServiceObjectLoaded() binds to a simulation backend when there is nothing better.
LEMMA NotifyBinds ==
    ASSUME SystemTypes, PrefersInv, OnServiceObjectLoaded, NEW f \in Features,
           feature[f].mode = "AutoDiscovery", feature'[f].so \notin {none, feature[f].so},
           feature'[f].so[1] \in Simulation
    PROVE  Hopeless(f)
  <1>1. stack # <<>> /\ Head(stack).op \in CallOps BY DEF OnServiceObjectLoaded, Top, CallOps
  <1>2. PICK c \in Features, h \in Backends : c = Caller /\ h = Head(stack).h
    BY <1>1, CallerIs DEF SystemTypes
  <1>3. PICK r \in FeatureType : r = feature[c] BY DEF SystemTypes, FeatureTypes
  <1>4. PICK so \in ServiceObjectOrNone : so = ServiceObjectOf(h) /\ (so = none \/ so[1] = h[1])
    <2>1. h[1] \in Plugins /\ life[h[1]] \in Nat /\ backend[h[1]].proxy \in Nat
      BY DEF SystemTypes, ManagerTypes, BackendType, Backends
    <2>2. ProxyOf(h[1])[1] = h[1] /\ ProxyOf(h[1]) \in ServiceObjectOrNone
      BY <2>1 DEF ProxyOf, ServiceObjectOrNone, ServiceObjects
    <2> QED BY <2>2 DEF ServiceObjectOf, ServiceObjectOrNone
  <1>5. PICK set \in FeatureType : set = AfterSet(c, r, so) BY SetTyped
  <1>6. set.so \in {r.so, none, so} BY <1>5, SetPrefers
  <1>7. \/ UNCHANGED feature
        \/ IsAwaited(r, h) /\ \E s : feature' = [feature EXCEPT ![c] = s] /\ s.so = set.so
    <2>1. PICK next : next = [set EXCEPT !.index = @ + 1] OBVIOUS
    <2>2. next.so = set.so /\ AfterFailure(next).so = next.so BY <2>1 DEF AfterFailure, FeatureType
    <2>3. \A x : [set EXCEPT !.index = 0, !.handles = <<>>, !.result = x].so = set.so BY DEF FeatureType
    <2>4. \/ UNCHANGED feature
          \/ IsAwaited(r, h) /\ \E x : feature' = [feature EXCEPT ![c] =
                                   [set EXCEPT !.index = 0, !.handles = <<>>, !.result = x]]
          \/ IsAwaited(r, h) /\ feature' = [feature EXCEPT ![c] = next]
          \/ IsAwaited(r, h) /\ feature' = [feature EXCEPT ![c] = AfterFailure(next)]
      BY <1>2, <1>3, <1>4, <1>5, <2>1 DEF OnServiceObjectLoaded, featureVars
    <2> QED BY <2>2, <2>3, <2>4
  <1>8. PICK s : IsAwaited(r, h) /\ feature' = [feature EXCEPT ![c] = s] /\ s.so = set.so BY <1>7
  <1>9. c = f /\ feature'[f] = s BY <1>8 DEF SystemTypes, FeatureTypes
  <1>10. h[1] \in Simulation BY <1>3, <1>4, <1>6, <1>8, <1>9
  <1>11. r.handles \in Seq(Backends) BY DEF FeatureType
  <1>12. r.index \in DOMAIN r.handles /\ r.handles[r.index] = h BY <1>8 DEF IsAwaited
  <1>13. r.index # 0 BY <1>11, <1>12
  <1>14. StillToTry(f, r.handles, r.index) BY <1>3, <1>9, <1>13 DEF PrefersInv, Prefers
  <1> QED BY <1>10, <1>12, <1>14 DEF StillToTry

\* Nothing else binds a feature.
LEMMA OnlyLoadedAreBound ==
    ASSUME BackendsStay, OnlySearches, SystemTypes, SystemTypes', [Next]_vars, ~OnServiceObjectLoaded,
           NEW f \in Features
    PROVE  feature'[f].so \in {none, feature[f].so}
  <1>1. ASSUME NEW c, NEW s, feature' = [feature EXCEPT ![c] = s], c \in Features => s.so = feature[c].so
        PROVE  feature'[f].so = feature[f].so
    BY <1>1 DEF SystemTypes, FeatureTypes
  <1>2. ASSUME \A g \in Features : SameWish(feature[g], feature'[g]) PROVE feature'[f].so \in {none, feature[f].so}
    BY <1>2 DEF SameWish
  <1>3. \A c \in Features : feature[c] \in FeatureType BY DEF SystemTypes, FeatureTypes
  <1>4. CASE Discover BY <1>4 DEF Discover, featureVars
  <1>5. CASE ChooseHandles
    <2>1. PICK hs, n : feature' = [feature EXCEPT ![Caller] = [feature[Caller] EXCEPT !.handles = hs, !.index = n]]
      BY <1>5 DEF ChooseHandles
    <2>2. Caller \in Features => [feature[Caller] EXCEPT !.handles = hs, !.index = n].so = feature[Caller].so
      BY <1>3 DEF FeatureType
    <2> QED BY <1>1, <2>1, <2>2
  <1>6. CASE LoadCurrentHandle
    <2>1. \/ UNCHANGED feature
          \/ feature' = [feature EXCEPT ![Caller] = AfterFailure(feature[Caller])]
      BY <1>6 DEF LoadCurrentHandle
    <2>2. Caller \in Features => AfterFailure(feature[Caller]).so = feature[Caller].so
      BY <1>3 DEF AfterFailure, FeatureType
    <2> QED BY <1>1, <2>1, <2>2
  <1>7. ASSUME NEW g \in Features, StartAutoDiscovery(g) PROVE feature'[f].so = feature[f].so
    <2>1. PICK x : \/ feature' = [feature EXCEPT ![g] = [feature[g] EXCEPT !.result = x]]
                   \/ feature' = [feature EXCEPT ![g] = [feature[g] EXCEPT !.search = x]]
      BY <1>7 DEF StartAutoDiscovery
    <2>2. /\ [feature[g] EXCEPT !.result = x].so = feature[g].so
          /\ [feature[g] EXCEPT !.search = x].so = feature[g].so
      BY <1>3 DEF FeatureType
    <2> QED BY <1>1, <2>1, <2>2
  <1>8. CASE \/ UNCHANGED feature
             \/ ServiceObjectsDestroyed
             \/ \E p \in Plugins : InitializationDone(p)
             \/ \E g \in Features : SetBackendUpdatesEnabled(g) \/ SetAsynchronousBackendLoading(g)
    BY <1>2, <1>8, WishesKept
  <1>9. CASE FeatureCalls
    <2>1. PICK g \in Features :
             \/ StartAutoDiscovery(g)
             \/ SetBackendUpdatesEnabled(g)
             \/ SetAsynchronousBackendLoading(g)
      BY <1>9 DEF FeatureCalls, OnlySearches, SetServiceObject, SetDiscoveryMode, SetPreferredBackends, MayCall
    <2> QED BY <1>7, <1>8, <2>1
  <1>10. ManagerKeeps \/ UNCHANGED vars => UNCHANGED feature BY DEF ManagerKeeps, vars, featureVars
  <1> QED BY <1>4, <1>5, <1>6, <1>8, <1>9, <1>10 DEF Next, FeatureInternal

\* A feature in AutoDiscovery gets a simulation backend only if no registered
\* production backend can be used, whatever loads fail or are refused on the way,
\* whoever else searches and loads, and however the loads of the features
\* interleave (loadServiceObject(), onServiceObjectLoaded(), onServiceObjectFailure()):
\* where the application adds no backends to a search that is over and lets the
\* features find their service objects, and nothing is unloaded, replaced or loaded
\* again.
THEOREM PreferenceHolds ==
    ASSUME NoReload, BackendsStay, OnlySearches PROVE Spec => ProductionIsPreferred
  <1> DEFINE Inv == ServiceInv /\ SystemTypes /\ SearchOrder /\ FeaturesSane /\ PrefersInv
             Step == \A f \in Features :
                       ( /\ feature[f].mode = "AutoDiscovery"
                         /\ feature'[f].so \notin {none, feature[f].so}
                         /\ feature'[f].so[1] \in Simulation ) =>
                       \A p \in Registered \ Simulation : ~Usable(f, p)
  <1>1. Init => Inv
    BY PreferenceInitially, SystemInitially, TypedInitially, FeaturesInitially
  <1>2. ASSUME Inv, [Next]_vars PROVE Inv'
    <2>1. ServiceInv' BY <1>2, SystemKeepsServices
    <2>2. SystemTypes' /\ SearchOrder' BY <1>2, SystemTyped
    <2>3. FeaturesSane' BY <1>2, FeaturesKept
    <2>4. PrefersInv' BY <1>2, <2>2, PreferenceKept
    <2> QED BY <2>1, <2>2, <2>3, <2>4
  <1>3. Inv /\ Inv' /\ [Next]_vars => [Step]_vars
    <2> SUFFICES ASSUME Inv, Inv', [Next]_vars PROVE Step OBVIOUS
    <2>1. ASSUME NEW f \in Features, feature[f].mode = "AutoDiscovery",
                 feature'[f].so \notin {none, feature[f].so}, feature'[f].so[1] \in Simulation
          PROVE  Hopeless(f)
      <3>1. OnServiceObjectLoaded BY <2>1, OnlyLoadedAreBound
      <3> QED BY <2>1, <3>1, NotifyBinds
    <2> QED BY <2>1 DEF Hopeless
  <1>4. Spec => [][Step]_vars BY <1>1, <1>2, <1>3, PTL DEF Spec
  <1> QED BY <1>4 DEF ProductionIsPreferred

-----------------------------------------------------------------------------
(* Zoned features *)

Child == [zone : Zones, so : ServiceObjectOrNone]
ZonedTypes ==
    /\ available \in [Plugins -> SUBSET Zones]
    /\ \A p \in Plugins : available[p] \in ZoneLists[p]
    /\ ownZone \in [Features -> OwnZones]
    /\ zones \in [Features -> SUBSET Child]
ZonesInv ==
    /\ ZonedTypes /\ ZonesFollowTheFeature /\ EveryZoneIsThere
    /\ \A f \in Features : zones[f] # {} => feature[f].so # none

\* The lists of zones have zones.
LEMMA ListsHaveZones ==
    ASSUME NEW p \in Plugins, NEW list \in ZoneLists[p] PROVE list \in SUBSET Zones
  BY DEF Zones

\* initializeZones() makes a child for every zone, with the service object there is.
LEMMA ZonesAreMade ==
    ASSUME NEW f, NEW children, NEW so, NEW list, NEW c, c = InitializeZones(f, children, so, list)
    PROVE  /\ children \in SUBSET Child /\ so \in ServiceObjectOrNone /\ list \in SUBSET Zones => c \in SUBSET Child
           /\ (\A x \in children : x.so = so) => \A x \in c : x.so = so
           /\ ownZone[f] = General => list \subseteq ZonesOf(c)
           /\ children \subseteq c
  <1>1. CASE ownZone[f] # General BY <1>1 DEF InitializeZones
  <1>2. CASE ownZone[f] = General
    <2>1. c = children \cup {ZoneFeature(z, so) : z \in list \ ZonesOf(children)}
      BY <1>2 DEF InitializeZones
    <2>2. \A z : ZoneFeature(z, so).zone = z /\ ZoneFeature(z, so).so = so BY DEF ZoneFeature
    <2>3. so \in ServiceObjectOrNone => \A z \in Zones : ZoneFeature(z, so) \in Child BY DEF ZoneFeature, Child
    <2>4. ASSUME NEW z \in list PROVE z \in ZonesOf(c)
      <3>1. CASE z \in ZonesOf(children) BY <2>1, <3>1 DEF ZonesOf
      <3>2. CASE z \notin ZonesOf(children)
        <4>1. ZoneFeature(z, so) \in c BY <2>1, <2>4, <3>2
        <4> QED BY <2>2, <4>1 DEF ZonesOf
      <3> QED BY <3>1, <3>2
    <2>5. ASSUME children \in SUBSET Child, so \in ServiceObjectOrNone, list \in SUBSET Zones PROVE c \in SUBSET Child
      BY <2>1, <2>3, <2>5
    <2>6. ASSUME \A x \in children : x.so = so, NEW x \in c PROVE x.so = so
      BY <2>1, <2>2, <2>6
    <2> QED BY <2>1, <2>4, <2>5, <2>6
  <1> QED BY <1>1, <1>2

\* The children follow what happens to the service object of their parent.
LEMMA ChildrenFollow ==
    ASSUME ZonesInv, FeatureTypes, FeatureTypes', FeaturesSane', ReplacedByNone, ~ReplacesDirectly, ZonesFollowStep
    PROVE  ZonesInv'
  <1> DEFINE Kept(f) == IF Clears(f) THEN {} ELSE zones[f]
  <1>1. /\ zones' = [f \in Features |->
                       IF Connects(f) THEN InitializeZones(f, Kept(f), feature'[f].so, available[feature'[f].so[1]])
                       ELSE Kept(f)]
        /\ UNCHANGED <<available, ownZone>>
    BY DEF ZonesFollowStep
  <1>2. ASSUME NEW f \in Features
        PROVE  /\ zones'[f] \in SUBSET Child
               /\ \A c \in zones'[f] : c.so = feature'[f].so
               /\ zones'[f] # {} => feature'[f].so # none
               /\ feature'[f].attached /\ ownZone[f] = General
                    => available[feature'[f].so[1]] \subseteq ZonesOf(zones'[f])
    <2>1. PICK k : k = Kept(f) OBVIOUS
    <2>2. /\ k \in SUBSET Child /\ \A c \in k : c.so = feature'[f].so
          /\ k # {} => feature'[f].so # none /\ k = zones[f]
      <3>1. CASE Clears(f) BY <2>1, <3>1
      <3>2. CASE ~Clears(f)
        <4>1. k = zones[f] BY <2>1, <3>2
        <4>2. k # {} => feature[f].so # none /\ feature'[f].so = feature[f].so
          BY <1>2, <3>2, <4>1 DEF ZonesInv, Clears, ReplacedByNone
        <4> QED BY <1>2, <4>1, <4>2 DEF ZonesInv, ZonedTypes, ZonesFollowTheFeature
      <3> QED BY <3>1, <3>2
    <2>3. /\ feature[f] \in FeatureType /\ feature'[f] \in FeatureType /\ Sane(feature'[f])
      BY <1>2 DEF FeatureTypes, FeaturesSane, Sane
    <2>4. feature'[f].attached \in BOOLEAN /\ feature[f].attached \in BOOLEAN /\ feature'[f].so \in ServiceObjectOrNone
      BY <2>3 DEF FeatureType
    <2>5. feature'[f].attached => feature'[f].so # none /\ feature'[f].so[1] \in Plugins
      <3>1. feature'[f].attached => feature'[f].so # none BY <2>3, <2>4 DEF Sane
      <3> QED BY <2>4, <3>1 DEF ServiceObjectOrNone, ServiceObjects
    <2>6. CASE Connects(f)
      <3>1. PICK so, list : so = feature'[f].so /\ list = available[so[1]] OBVIOUS
      <3>2. zones'[f] = InitializeZones(f, k, so, list) BY <1>1, <1>2, <2>1, <2>6, <3>1
      <3>3. so # none /\ list \in SUBSET Zones
        BY <2>5, <2>6, <3>1 DEF Connects, ZonesInv, ZonedTypes
      <3>4. /\ zones'[f] \in SUBSET Child
            /\ \A c \in zones'[f] : c.so = so
            /\ ownZone[f] = General => list \subseteq ZonesOf(zones'[f])
        BY <2>2, <2>4, <3>1, <3>2, <3>3, ZonesAreMade
      <3> QED BY <3>1, <3>3, <3>4
    <2>7. CASE ~Connects(f)
      <3>1. zones'[f] = k BY <1>1, <1>2, <2>1, <2>7
      <3>2. feature'[f].attached => /\ feature[f].attached /\ feature'[f].so = feature[f].so
                                    /\ k = zones[f]
        BY <2>1, <2>4, <2>5, <2>7 DEF Connects, Clears
      <3>3. feature[f].attached /\ ownZone[f] = General
              => available[feature[f].so[1]] \subseteq ZonesOf(zones[f])
        BY <1>2 DEF ZonesInv, EveryZoneIsThere
      <3> QED BY <2>2, <3>1, <3>2, <3>3
    <2> QED BY <2>6, <2>7
  <1>3. zones' \in [Features -> SUBSET Child]
    <2>1. DOMAIN zones' = Features /\ zones' = [f \in Features |-> zones'[f]] BY <1>1
    <2> QED BY <1>2, <2>1
  <1>4. ZonedTypes' BY <1>1, <1>3 DEF ZonesInv, ZonedTypes
  <1>5. ZonesFollowTheFeature' BY <1>2 DEF ZonesFollowTheFeature
  <1>6. EveryZoneIsThere' BY <1>1, <1>2 DEF EveryZoneIsThere
  <1> QED BY <1>2, <1>4, <1>5, <1>6 DEF ZonesInv

\* availableZonesChanged() reaches every feature that is connected to the backend.
LEMMA ZonesAreAdded ==
    ASSUME ZonesInv, FeatureTypes, FeaturesSane, NEW p \in Plugins, AvailableZonesChanged(p)
    PROVE  ZonesInv'
  <1>1. PICK list \in ZoneLists[p] :
          /\ available' = [available EXCEPT ![p] = list]
          /\ zones' = [f \in Features |->
                          IF f \in Hearing(p)
                          THEN InitializeZones(f, zones[f], feature[f].so, list)
                          ELSE zones[f]]
    BY DEF AvailableZonesChanged
  <1>2. feature' = feature /\ ownZone' = ownZone BY DEF AvailableZonesChanged, vars, featureVars
  <1>3. list \in SUBSET Zones BY ListsHaveZones
  <1>4. /\ available' \in [Plugins -> SUBSET Zones] /\ \A q \in Plugins : available'[q] \in ZoneLists[q]
        /\ available'[p] = list /\ \A q \in Plugins : q # p => available'[q] = available[q]
    BY <1>1, <1>3 DEF ZonesInv, ZonedTypes
  <1>5. ASSUME NEW f \in Features
        PROVE  /\ zones'[f] \in SUBSET Child
               /\ \A c \in zones'[f] : c.so = feature[f].so
               /\ zones'[f] # {} => feature[f].so # none
               /\ feature[f].attached /\ ownZone[f] = General
                    => available'[feature[f].so[1]] \subseteq ZonesOf(zones'[f])
    <2>1. /\ zones[f] \in SUBSET Child /\ \A c \in zones[f] : c.so = feature[f].so
          /\ zones[f] # {} => feature[f].so # none
          /\ feature[f].attached /\ ownZone[f] = General
                    => available[feature[f].so[1]] \subseteq ZonesOf(zones[f])
      BY <1>5 DEF ZonesInv, ZonedTypes, ZonesFollowTheFeature, EveryZoneIsThere
    <2>2. feature[f].so \in ServiceObjectOrNone /\ feature[f].attached \in BOOLEAN /\ Sane(feature[f])
      BY <1>5 DEF FeatureTypes, FeatureType, FeaturesSane
    <2>3. feature[f].attached => feature[f].so # none /\ feature[f].so[1] \in Plugins
      <3>1. feature[f].attached => feature[f].so # none BY <2>2 DEF Sane
      <3> QED BY <2>2, <3>1 DEF ServiceObjectOrNone, ServiceObjects
    <2>4. CASE f \in Hearing(p)
      <3>1. zones'[f] = InitializeZones(f, zones[f], feature[f].so, list) BY <1>1, <1>5, <2>4
      <3>2. /\ zones'[f] \in SUBSET Child
            /\ \A c \in zones'[f] : c.so = feature[f].so
            /\ ownZone[f] = General => list \subseteq ZonesOf(zones'[f])
        BY <1>3, <2>1, <2>2, <3>1, ZonesAreMade
      <3>3. feature[f].attached /\ feature[f].so[1] = p BY <2>4 DEF Hearing
      <3> QED BY <1>4, <2>3, <3>2, <3>3
    <2>5. CASE f \notin Hearing(p)
      <3>1. zones'[f] = zones[f] BY <1>1, <1>5, <2>5
      <3>2. feature[f].attached => available'[feature[f].so[1]] = available[feature[f].so[1]]
        BY <1>4, <1>5, <2>3, <2>5 DEF Hearing
      <3> QED BY <2>1, <3>1, <3>2
    <2> QED BY <2>4, <2>5
  <1>6. zones' \in [Features -> SUBSET Child]
    <2>1. DOMAIN zones' = Features /\ zones' = [f \in Features |-> zones'[f]] BY <1>1
    <2> QED BY <1>5, <2>1
  <1>7. ZonedTypes' BY <1>2, <1>4, <1>6 DEF ZonesInv, ZonedTypes
  <1>8. ZonesFollowTheFeature' BY <1>2, <1>5 DEF ZonesFollowTheFeature
  <1>9. EveryZoneIsThere' BY <1>2, <1>5 DEF EveryZoneIsThere
  <1> QED BY <1>2, <1>5, <1>7, <1>8, <1>9 DEF ZonesInv

\* setZone() is refused once there is a backend.
LEMMA ZoneIsSet ==
    ASSUME ZonesInv, FeatureTypes, FeaturesSane, NEW f \in Features, NEW z \in OwnZones, SetZone(f, z)
    PROVE  ZonesInv'
  <1>1. /\ feature[f].so # none => feature[f].so[1] \in Instanceless
        /\ ownZone' = [ownZone EXCEPT ![f] = z]
        /\ feature' = feature /\ available' = available /\ zones' = zones
    BY DEF SetZone, vars, featureVars
  <1>2. feature[f].attached = FALSE
    <2>1. feature[f].attached \in BOOLEAN /\ Sane(feature[f])
      BY DEF FeatureTypes, FeatureType, FeaturesSane
    <2> QED BY <1>1, <2>1 DEF Sane
  <1>3. ownZone' \in [Features -> OwnZones] /\ \A g \in Features : g # f => ownZone'[g] = ownZone[g]
    BY <1>1 DEF ZonesInv, ZonedTypes
  <1>4. ZonedTypes' /\ ZonesFollowTheFeature'
    BY <1>1, <1>3 DEF ZonesInv, ZonedTypes, ZonesFollowTheFeature
  <1>5. EveryZoneIsThere' BY <1>1, <1>2, <1>3 DEF ZonesInv, EveryZoneIsThere
  <1> QED BY <1>1, <1>4, <1>5 DEF ZonesInv

\* However a feature is bound, refused, paused and unloaded, and however the zones of
\* its backend change, it has a child for each of them (and maybe for zones that
\* are gone), each child with its service object
\* (connectToServiceObject(), initializeZones(), clearServiceObject()): where a
\* service object is taken away before another is set.
THEOREM ZonesFollow ==
    ASSUME ~ReplacesDirectly PROVE ZonedSpec => []ZonesAreRight
  <1> DEFINE Inv == SystemTypes /\ SearchOrder /\ FeaturesSane /\ ZonesInv
  <1>1. ASSUME ZonedInit PROVE Inv
    <2>1. Init BY <1>1 DEF ZonedInit
    <2>2. SystemTypes /\ SearchOrder /\ FeaturesSane BY <2>1, TypedInitially, FeaturesInitially
    <2>3. PICK a \in [Plugins -> UNION {ZoneLists[p] : p \in Plugins}] :
             available = a /\ \A p \in Plugins : a[p] \in ZoneLists[p]
      BY <1>1 DEF ZonedInit
    <2>4. available \in [Plugins -> SUBSET Zones] BY <2>3, ListsHaveZones
    <2>5. ownZone = [f \in Features |-> General] /\ zones = [f \in Features |-> {}]
      BY <1>1 DEF ZonedInit
    <2>6. ZonedTypes
      BY <2>3, <2>4, <2>5, ZoneAssumption DEF ZonedTypes
    <2>7. \A f \in Features : feature[f].attached = FALSE
      <3>1. \A mode, b : NewFeature(mode, b).attached = FALSE BY DEF NewFeature
      <3> QED BY <2>1, <3>1 DEF Init
    <2>8. ZonesFollowTheFeature /\ EveryZoneIsThere
      BY <2>5, <2>7 DEF ZonesFollowTheFeature, EveryZoneIsThere
    <2> QED BY <2>2, <2>5, <2>6, <2>8 DEF ZonesInv
  <1>2. ASSUME Inv, [ZonedNext]_zonedVars PROVE Inv'
    <2>1. [Next]_vars BY <1>2 DEF ZonedNext, zonedVars, AvailableZonesChanged, SetZone
    <2>2. SystemTypes' /\ SearchOrder' /\ FeaturesSane' BY <1>2, <2>1, SystemTyped, FeaturesKept
    <2>3. FeatureTypes /\ FeatureTypes' /\ ZonesInv BY <1>2, <2>2 DEF SystemTypes
    <2>4. ASSUME Next /\ ReplacedByNone /\ ZonesFollowStep PROVE ZonesInv'
      BY <2>2, <2>3, <2>4, ChildrenFollow
    <2>5. ASSUME NEW p \in Plugins, AvailableZonesChanged(p) PROVE ZonesInv'
      BY <1>2, <2>3, <2>5, ZonesAreAdded
    <2>6. ASSUME NEW f \in Features, NEW z \in OwnZones, SetZone(f, z) PROVE ZonesInv'
      BY <1>2, <2>3, <2>6, ZoneIsSet
    <2>7. ASSUME UNCHANGED zonedVars PROVE ZonesInv'
      <3>1. UNCHANGED <<feature, available, ownZone, zones>>
        BY <2>7 DEF zonedVars, zoneVars, vars, featureVars
      <3> QED BY <2>3, <3>1 DEF ZonesInv, ZonedTypes, ZonesFollowTheFeature, EveryZoneIsThere
    <2>8. ZonesInv' BY <1>2, <2>4, <2>5, <2>6, <2>7 DEF ZonedNext
    <2> QED BY <2>2, <2>8
  <1>3. Inv => ZonesAreRight
    <2>1. ZonesInv => ZonedTypeOK BY DEF ZonesInv, ZonedTypes, ZonedTypeOK, Child, ServiceObjectOrNone
    <2> QED BY <2>1 DEF ZonesInv, ZonesAreRight
  <1> QED BY <1>1, <1>2, <1>3, PTL DEF ZonedSpec
=============================================================================
