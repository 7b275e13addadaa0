------------------------ MODULE Configuration_proofs ------------------------
(***************************************************************************)
(* Proofs about Configuration: the overrides of the environment, the names *)
(* of the configurations, and the members of the groups and their values,  *)
(* for every number of groups, features, service objects and               *)
(* configurations, every settings file and every depth of slots that call  *)
(* again.                                                                  *)
(***************************************************************************)
EXTENDS Configuration, Selection_proofs, FiniteSetTheorems, SequenceTheorems, TLAPS

\* The settings objects are records of these four fields.
Shape(G) == G = [g \in Groups |->
    [set |-> G[g].set, override |-> G[g].override, members |-> G[g].members,
     value |-> [s \in Settings |-> G[g].value[s]]]]

\* What no step does to settings objects: forget that a setting is set, or
\* change an override or its value.
Kept(G, H) == \A g \in Groups :
    /\ H[g].override = G[g].override
    /\ G[g].set \subseteq H[g].set
    /\ \A s \in G[g].override \cap Settings : H[g].value[s] = G[g].value[s]

ConfigShape == config = [c \in Configs |->
    [state |-> config[c].state, name |-> config[c].name,
     settings |-> config[c].settings, temp |-> config[c].temp]]

\* Only a configuration whose creation is over changes a group.
CreatedFirst == \A c \in Configs :
    /\ config[c].name \in Groups \cup {None}
    /\ config[c].settings # None => config[c].state = "created"

RegisteredInConfigs == registered \in [Groups -> Configs \cup {None}]

OverridesKnown == MalformedAt = {} => \A g \in Groups : group[g].override = Overrides(g)

NamesInv == ConfigShape /\ CreatedFirst /\ RegisteredInConfigs /\ RegisteredIsUsable
OverridesInv == Shape(group) /\ OverridesKnown /\ OverridesHold

-----------------------------------------------------------------------------
(* The overrides *)

\* A setter changes a group only where it has no override.
LEMMA SetterKeeps ==
    ASSUME NEW G, NEW H, NEW g, NEW s, NEW v, Shape(G), s \notin G[g].override,
           H = [G EXCEPT ![g].value[s] = v, ![g].set = @ \cup {s}]
    PROVE  Shape(H) /\ Kept(G, H)
<1>1. ASSUME NEW h \in Groups
      PROVE  /\ H[h] = [set |-> H[h].set, override |-> H[h].override,
                        members |-> H[h].members,
                        value |-> [t \in Settings |-> H[h].value[t]]]
             /\ H[h].override = G[h].override
             /\ G[h].set \subseteq H[h].set
             /\ \A t \in G[h].override \cap Settings : H[h].value[t] = G[h].value[t]
    <2>1. G[h] = [set |-> G[h].set, override |-> G[h].override, members |-> G[h].members,
                  value |-> [t \in Settings |-> G[h].value[t]]]
        BY <1>1 DEF Shape
    <2>2. CASE h = g
        <3>1. H[h] = [[G[h] EXCEPT !.value[s] = v] EXCEPT !.set = @ \cup {s}]
            BY <2>2, <1>1 DEF Shape
        <3>2. H[h].set = G[h].set \cup {s} /\ H[h].override = G[h].override
            BY <2>1, <3>1
        <3>3. H[h].members = G[h].members
            BY <2>1, <3>1
        <3>4. H[h].value = [G[h].value EXCEPT ![s] = v]
            BY <2>1, <3>1
        <3>5. G[h].value = [t \in Settings |-> G[h].value[t]]
            BY <2>1
        <3>6. H[h].value = [t \in Settings |-> H[h].value[t]]
            BY <3>4, <3>5
        <3>7. \A t \in G[h].override \cap Settings : H[h].value[t] = G[h].value[t]
            BY <3>4, <3>5, <2>2
        <3>8. H[h] = [set |-> H[h].set, override |-> H[h].override,
                      members |-> H[h].members, value |-> H[h].value]
            BY <2>1, <3>1
        <3> QED BY <3>2, <3>6, <3>7, <3>8
    <2>3. CASE h # g
        BY <2>1, <2>3, <1>1 DEF Shape
    <2> QED BY <2>2, <2>3
<1>2. H = [h \in Groups |-> H[h]]
    BY DEF Shape
<1> QED BY <1>1, <1>2 DEF Shape, Kept

\* Members join and leave, and the settings of the group stay.
LEMMA MembershipKeeps ==
    ASSUME NEW G, NEW H, NEW g, NEW l, Shape(G), H = [G EXCEPT ![g].members = l]
    PROVE  Shape(H) /\ Kept(G, H)
<1>1. ASSUME NEW h \in Groups
      PROVE  /\ H[h] = [set |-> H[h].set, override |-> H[h].override,
                        members |-> H[h].members,
                        value |-> [t \in Settings |-> H[h].value[t]]]
             /\ H[h].override = G[h].override
             /\ G[h].set = H[h].set
             /\ H[h].value = G[h].value
    <2>1. G[h] = [set |-> G[h].set, override |-> G[h].override, members |-> G[h].members,
                  value |-> [t \in Settings |-> G[h].value[t]]]
        BY <1>1 DEF Shape
    <2>2. CASE h = g
        <3>1. H[h] = [set |-> G[h].set, override |-> G[h].override, members |-> l,
                      value |-> [t \in Settings |-> G[h].value[t]]]
            BY <2>1, <2>2, <1>1 DEF Shape
        <3> QED BY <3>1, <2>1
    <2>3. CASE h # g
        BY <2>1, <2>3, <1>1 DEF Shape
    <2> QED BY <2>2, <2>3
<1>2. H = [h \in Groups |-> H[h]]
    BY DEF Shape
<1> QED BY <1>1, <1>2 DEF Shape, Kept

\* What is kept twice is kept.
LEMMA KeptTwice ==
    ASSUME NEW F, NEW G, NEW H, Kept(F, G), Kept(G, H)
    PROVE  Kept(F, H)
BY DEF Kept

\* Groups that do not change are kept.
LEMMA NothingChanges == ASSUME NEW G PROVE Kept(G, G)
BY DEF Kept

\* A member that leaves takes no setting with it.
LEMMA RemovedKeeps ==
    ASSUME NEW g, NEW m, Shape(group)
    PROVE  Shape(Removed(g, m)) /\ Kept(group, Removed(g, m))
BY MembershipKeeps, NothingChanges DEF Removed

\* A setting that the environment does not override may be set.
LEMMA SetKeeps ==
    ASSUME NEW g, NEW s, NEW v, NEW frames, Shape(group), Set(g, s, v, frames)
    PROVE  Shape(group') /\ Kept(group, group')
BY SetterKeeps, NothingChanges DEF Set

\* A member that joins changes no setting of its group.
LEMMA AddKeeps ==
    ASSUME NEW g, NEW m, Shape(group), Add(g, m)
    PROVE  Shape(group') /\ Kept(group, group') /\ known \subseteq known'
<1> DEFINE l == Append(group[g].members, m)
<1>1. group' = [group EXCEPT ![g].members = l] /\ known \subseteq known'
    BY DEF Add
<1> HIDE DEF l
<1> QED BY <1>1, MembershipKeeps

\* No step changes what was read, forgets a group or changes an override.
Keeps ==
    /\ file' = file /\ env' = env
    /\ known \subseteq known'
    /\ Shape(group') /\ Kept(group, group')

\* Every step keeps the settings of the groups.
LEMMA StepKeeps ==
    ASSUME Shape(group), [Next]_vars
    PROVE  Keeps
<1> USE NothingChanges DEF Keeps
<1>1. CASE Return
    BY <1>1 DEF Return
<1>2. CASE ApplyNext
    BY <1>2 DEF ApplyNext
<1>3. CASE AddNext
    BY <1>3 DEF AddNext
<1>4. CASE CopyNext
    BY <1>4, SetKeeps DEF CopyNext
<1>5. ASSUME NEW f \in Features, ClassBegin(f) PROVE Keeps
    BY <1>5 DEF ClassBegin
<1>6. ASSUME NEW f \in Features, ComponentComplete(f) PROVE Keeps
    BY <1>6, AddKeeps DEF ComponentComplete
<1>7. ASSUME NEW f \in Features, NEW g \in Groups, SetConfigurationId(f, g) PROVE Keeps
    <2> DEFINE left == Removed(member[f].id, f)
    <2>1. Shape(left) /\ Kept(group, left)
        BY RemovedKeeps
    <2>2. CASE group' = left
        BY <1>7, <2>1, <2>2 DEF SetConfigurationId
    <2>3. CASE group' = [left EXCEPT ![g].members = Append(@, f)]
        <3> DEFINE l == Append(left[g].members, f)
        <3>1. group' = [left EXCEPT ![g].members = l]
            BY <2>3
        <3> HIDE DEF l, left
        <3>2. Shape(group') /\ Kept(left, group')
            BY <2>1, <3>1, MembershipKeeps
        <3>3. Kept(group, group')
            BY <2>1, <3>2, KeptTwice
        <3> QED BY <1>7, <3>2, <3>3 DEF SetConfigurationId
    <2> QED BY <1>7, <2>2, <2>3 DEF SetConfigurationId
<1>8. ASSUME NEW f \in Features, NEW s, NEW v, SetDirectly(f, s, v) PROVE Keeps
    BY <1>8 DEF SetDirectly
<1>9. ASSUME NEW m \in Members, Destroy(m) PROVE Keeps
    BY <1>9, RemovedKeeps DEF Destroy
<1>10. ASSUME NEW o \in ServiceObjects, AddServiceObject(o) PROVE Keeps
    BY <1>10, AddKeeps DEF AddServiceObject
<1>11. ASSUME NEW g \in Groups, NEW s, NEW v, SetOfGroup(g, s, v) PROVE Keeps
    BY <1>11, SetKeeps DEF SetOfGroup
<1>12. ASSUME NEW c \in Configs, NEW s, NEW v, SetOfConfiguration(c, s, v) PROVE Keeps
    BY <1>12, SetKeeps DEF SetOfConfiguration
<1>13. ASSUME NEW c \in Configs, NEW g \in Groups, SetName(c, g) PROVE Keeps
    BY <1>13 DEF SetName
<1>14. ASSUME NEW c \in Configs, ConfigurationClassBegin(c) PROVE Keeps
    BY <1>14 DEF ConfigurationClassBegin
<1>15. ASSUME NEW c \in Configs, ConfigurationComplete(c) PROVE Keeps
    BY <1>15 DEF ConfigurationComplete
<1>16. ASSUME NEW c \in Configs, DestroyConfiguration(c) PROVE Keeps
    BY <1>16 DEF DestroyConfiguration
<1>17. CASE UNCHANGED vars
    BY <1>17 DEF vars
<1> HIDE DEF Keeps
<1> QED BY <1>1, <1>2, <1>3, <1>4, <1>5, <1>6, <1>7, <1>8, <1>9, <1>10, <1>11, <1>12,
           <1>13, <1>14, <1>15, <1>16, <1>17 DEF Next

\* The overrides that were read hold at the start.
LEMMA OverridesAtStart == ASSUME Init PROVE OverridesInv
<1> DEFINE Wanted(g, s) == env[Latest(Given(g, s))].value
<1>1. group = [g \in Groups |-> ReadInitialSettings(g)]
    BY DEF Init
<1>2. Shape(group)
    <2>1. ASSUME NEW g \in Groups
          PROVE  group[g] = [set |-> group[g].set, override |-> group[g].override,
                             members |-> group[g].members,
                             value |-> [s \in Settings |-> group[g].value[s]]]
        BY <1>1 DEF ReadInitialSettings
    <2> QED BY <1>1, <2>1 DEF Shape
<1>3. OverridesKnown
    BY <1>1 DEF OverridesKnown, ReadInitialSettings
<1>4. ASSUME MalformedAt = {}, NEW g \in Groups, NEW s \in Settings, Given(g, s) # {}
      PROVE  /\ g \in known /\ s \in group[g].set
             /\ group[g].value[s] = env[Latest(Given(g, s))].value
    <2>1. s \in Overrides(g)
        BY <1>4 DEF Overrides
    <2>2. s \in group[g].set /\ group[g].value[s] = Wanted(g, s)
        BY <1>1, <2>1 DEF ReadInitialSettings
    <2>3. PICK i \in Given(g, s) : TRUE
        BY <1>4
    <2>4. i \in DOMAIN env /\ env[i].group = g /\ env[i].value # Malformed
        BY <2>3 DEF Given
    <2>5. g \in Created
        BY <1>4, <2>4 DEF Created
    <2> QED BY <2>2, <2>5 DEF Init
<1> QED BY <1>2, <1>3, <1>4 DEF OverridesInv, OverridesHold

\* Every step keeps the overrides.
LEMMA OverridesStay == ASSUME OverridesInv, [Next]_vars PROVE OverridesInv'
<1>1. Keeps
    BY StepKeeps DEF OverridesInv
<1>2. /\ file' = file /\ env' = env
      /\ known \subseteq known'
      /\ Shape(group') /\ Kept(group, group')
    BY <1>1 DEF Keeps
<1>3. MalformedAt' = MalformedAt
    BY <1>2 DEF MalformedAt
<1>4. \A g \in Groups : \A s \in Settings : Given(g, s)' = Given(g, s)
    BY <1>2 DEF Given
<1>5. \A g \in Groups : Overrides(g)' = Overrides(g)
    BY <1>3, <1>4 DEF Overrides
<1>6. OverridesKnown'
    BY <1>2, <1>3, <1>5 DEF OverridesInv, OverridesKnown, Kept
<1>7. ASSUME MalformedAt = {}, NEW g \in Groups, NEW s \in Settings, Given(g, s) # {}
      PROVE  /\ g \in known' /\ s \in group'[g].set
             /\ group'[g].value[s] = env'[Latest(Given(g, s))].value
    <2>1. /\ g \in known /\ s \in group[g].set
          /\ group[g].value[s] = env[Latest(Given(g, s))].value
        BY <1>7 DEF OverridesInv, OverridesHold
    <2>2. s \in group[g].override
        BY <1>7 DEF OverridesInv, OverridesKnown, Overrides
    <2> QED BY <1>2, <2>1, <2>2 DEF Kept
<1>8. ASSUME NEW g \in Groups, NEW s \in Settings
      PROVE  Latest(Given(g, s))' = Latest(Given(g, s))
    BY <1>4 DEF Latest
<1>9. OverridesHold'
    <2> SUFFICES ASSUME MalformedAt' = {}, NEW g \in Groups, NEW s \in Settings,
                        Given(g, s)' # {}
                 PROVE  /\ g \in known' /\ s \in group'[g].set
                        /\ group'[g].value[s] = env'[Latest(Given(g, s))'].value
        BY DEF OverridesHold
    <2> QED BY <1>3, <1>4, <1>7, <1>8
<1> QED BY <1>2, <1>6, <1>9 DEF OverridesInv

\* Once an override has been set, the value of the setting cannot be changed: not
\* by a setter, a configuration of QML or a slot that runs in the middle of one.
THEOREM OverridesStand == Spec => []OverridesHold
<1>1. Init => OverridesInv
    BY OverridesAtStart
<1>2. OverridesInv /\ [Next]_vars => OverridesInv'
    BY OverridesStay
<1>3. OverridesInv => OverridesHold
    BY DEF OverridesInv
<1> QED BY <1>1, <1>2, <1>3, PTL DEF Spec

-----------------------------------------------------------------------------
(* The names *)

\* No configuration is registered at the start.
LEMMA NamesAtStart == ASSUME Init PROVE NamesInv
<1>1. /\ config = [c \in Configs |-> NewConfig]
      /\ registered = [g \in Groups |-> None]
    BY DEF Init
<1>2. \A c \in Configs : config[c] = NewConfig
    BY <1>1
<1> QED BY <1>1, <1>2 DEF NamesInv, ConfigShape, CreatedFirst, RegisteredInConfigs,
                         RegisteredIsUsable, NewConfig

IsConfig(r) == r = [state |-> r.state, name |-> r.name, settings |-> r.settings, temp |-> r.temp]

\* What a configuration c may become, with the others as they were and the
\* entries of other configurations untouched.
LEMMA OneChanges ==
    ASSUME NamesInv, NEW c \in Configs, NEW r, IsConfig(r), r.name \in Groups \cup {None},
           r.settings # None => r.state = "created",
           config' = [config EXCEPT ![c] = r],
           RegisteredInConfigs',
           \A g \in Groups : registered'[g] # None =>
               \/ registered'[g] # c /\ registered'[g] = registered[g]
               \/ registered'[g] = c /\ r.name = g /\ r.settings = g
    PROVE  NamesInv'
<1>1. \A d \in Configs : config'[d] = IF d = c THEN r ELSE config[d]
    BY DEF NamesInv, ConfigShape
<1>2. ConfigShape'
    <2>1. \A d \in Configs : IsConfig(config[d])
        BY DEF NamesInv, ConfigShape, IsConfig
    <2>2. \A d \in Configs : IsConfig(config'[d])
        BY <1>1, <2>1
    <2>3. config' = [d \in Configs |-> config'[d]]
        BY DEF NamesInv, ConfigShape
    <2> QED BY <2>2, <2>3 DEF ConfigShape, IsConfig
<1>3. CreatedFirst'
    BY <1>1 DEF NamesInv, CreatedFirst
<1>4. RegisteredIsUsable'
    BY <1>1 DEF NamesInv, RegisteredIsUsable, RegisteredInConfigs
<1> QED BY <1>2, <1>3, <1>4 DEF NamesInv

\* The fields of a configuration after assignments to some of them.
LEMMA TempGiven ==
    ASSUME NEW a, IsConfig(a), NEW x, NEW r, r = [a EXCEPT !.temp = x]
    PROVE  IsConfig(r) /\ r.state = a.state /\ r.name = a.name /\ r.settings = a.settings
BY DEF IsConfig

\* A configuration that is given a name.
LEMMA NameGiven ==
    ASSUME NEW a, IsConfig(a), NEW x, NEW r, r = [a EXCEPT !.name = x]
    PROVE  IsConfig(r) /\ r.state = a.state /\ r.name = x /\ r.settings = a.settings
BY DEF IsConfig

\* A configuration whose creation goes on.
LEMMA StateGiven ==
    ASSUME NEW a, IsConfig(a), NEW x, NEW r, r = [a EXCEPT !.state = x]
    PROVE  IsConfig(r) /\ r.state = x /\ r.name = a.name /\ r.settings = a.settings
BY DEF IsConfig

\* A configuration without settings is registered nowhere.
LEMMA NotRegistered ==
    ASSUME NamesInv, NEW c \in Configs, config[c].settings = None
    PROVE  \A h \in Groups : registered[h] # c
<1>1. None \notin Groups \cup Configs
    BY ConfigurationAssumption
<1> QED BY <1>1 DEF NamesInv, RegisteredIsUsable

\* Every step keeps the names.
LEMMA NamesStay == ASSUME NamesInv, [Next]_vars PROVE NamesInv'
<1>15. None \notin Groups \cup Configs
    BY ConfigurationAssumption
<1>0. RegisteredInConfigs /\ CreatedFirst /\ \A c \in Configs : IsConfig(config[c])
    BY DEF NamesInv, ConfigShape, IsConfig
<1>1. ASSUME UNCHANGED <<config, registered>> PROVE NamesInv'
    BY <1>1 DEF NamesInv, ConfigShape, CreatedFirst, RegisteredInConfigs, RegisteredIsUsable
<1>2. ASSUME NEW c \in Configs, NEW s, NEW v, SetOfConfiguration(c, s, v) PROVE NamesInv'
    <2>1. CASE UNCHANGED config
        BY <1>1, <1>2, <2>1 DEF SetOfConfiguration
    <2>2. CASE config' = [config EXCEPT ![c].temp[s] = v]
        <3> DEFINE x == [config[c].temp EXCEPT ![s] = v]
                   r == [config[c] EXCEPT !.temp = x]
        <3>1. config' = [config EXCEPT ![c] = r] /\ registered' = registered
            BY <1>2, <2>2 DEF SetOfConfiguration
        <3>2. IsConfig(r) /\ r.state = config[c].state
              /\ r.name = config[c].name /\ r.settings = config[c].settings
            <4> HIDE DEF x
            <4> QED BY <1>0, TempGiven
        <3>3. \A g \in Groups : registered[g] = c =>
                  config[c].name = g /\ config[c].settings = g
            BY <1>15 DEF NamesInv, RegisteredIsUsable
        <3>4. RegisteredInConfigs'
            BY <1>0, <3>1 DEF RegisteredInConfigs
        <3> HIDE DEF r
        <3>5. r.name \in Groups \cup {None} /\ (r.settings # None => r.state = "created")
            BY <1>0, <3>2 DEF CreatedFirst
        <3> QED BY <3>1, <3>2, <3>3, <3>4, <3>5, OneChanges
    <2> QED BY <1>2, <2>1, <2>2 DEF SetOfConfiguration
<1>3. ASSUME NEW c \in Configs, NEW g \in Groups, SetName(c, g) PROVE NamesInv'
    <2>1. CASE config[c].state = "creating"
        <3> DEFINE r == [config[c] EXCEPT !.name = g]
        <3>1. config' = [config EXCEPT ![c] = r] /\ registered' = registered
            BY <1>3, <2>1 DEF SetName
        <3>2. config[c].settings = None
            BY <1>0, <2>1 DEF CreatedFirst
        <3>3. IsConfig(r) /\ r.name = g /\ r.settings = None
            BY <1>0, <3>2, NameGiven
        <3>4. RegisteredInConfigs'
            BY <1>0, <3>1 DEF RegisteredInConfigs
        <3> HIDE DEF r
        <3> QED BY <3>1, <3>2, <3>3, <3>4, NotRegistered, OneChanges
    <2>2. CASE config[c].state # "creating"
        <3> DEFINE r == [config[c] EXCEPT !.state = "created", !.name = g, !.settings = g]
        <3>1. /\ config[c].settings = None
              /\ config' = [config EXCEPT ![c] = r]
              /\ registered' = [registered EXCEPT ![g] = c]
            BY <1>3, <2>2 DEF SetName
        <3>2. IsConfig(r) /\ r.state = "created" /\ r.name = g /\ r.settings = g
            <4> DEFINE a == config[c]
            <4>1. r = [a EXCEPT !.state = "created", !.name = g, !.settings = g]
                OBVIOUS
            <4>2. IsConfig(a)
                BY <1>0
            <4> HIDE DEF a, r
            <4> QED BY <4>1, <4>2 DEF IsConfig
        <3>3. /\ RegisteredInConfigs' /\ registered'[g] = c
              /\ \A h \in Groups : h # g => registered'[h] = registered[h]
            BY <1>0, <3>1 DEF RegisteredInConfigs
        <3>4. \A h \in Groups : registered[h] # c
            BY <3>1, NotRegistered
        <3>5. \A h \in Groups : registered'[h] # None =>
                  \/ registered'[h] # c /\ registered'[h] = registered[h]
                  \/ registered'[h] = c /\ r.name = h /\ r.settings = h
            <4> HIDE DEF r
            <4> QED BY <3>2, <3>3, <3>4
        <3> HIDE DEF r
        <3> QED BY <3>1, <3>2, <3>3, <3>5, OneChanges
    <2> QED BY <2>1, <2>2
<1>4. ASSUME NEW c \in Configs, ConfigurationClassBegin(c) PROVE NamesInv'
    <2> DEFINE r == [config[c] EXCEPT !.state = "creating"]
    <2>1. config' = [config EXCEPT ![c] = r] /\ registered' = registered
        BY <1>4 DEF ConfigurationClassBegin
    <2>2. config[c].settings = None
        BY <1>0, <1>4 DEF ConfigurationClassBegin, CreatedFirst
    <2>3. IsConfig(r) /\ r.name = config[c].name /\ r.settings = None
        BY <1>0, <2>2, StateGiven
    <2>4. RegisteredInConfigs'
        BY <1>0, <2>1 DEF RegisteredInConfigs
    <2> HIDE DEF r
    <2>5. r.name \in Groups \cup {None}
        BY <1>0, <2>3 DEF CreatedFirst
    <2> QED BY <2>1, <2>2, <2>3, <2>4, <2>5, NotRegistered, OneChanges
<1>5. ASSUME NEW c \in Configs, ConfigurationComplete(c) PROVE NamesInv'
    <2> DEFINE n == config[c].name
    <2>1. config[c].settings = None
        BY <1>0, <1>5 DEF ConfigurationComplete, CreatedFirst
    <2>2. \A h \in Groups : registered[h] # c
        BY <2>1, NotRegistered
    <2>3. n \in Groups \cup {None}
        BY <1>0 DEF CreatedFirst
    <2>4. CASE Registers(c, n)
        <3> DEFINE r == [config[c] EXCEPT !.state = "created", !.settings = n]
        <3>1. /\ config' = [config EXCEPT ![c] = r]
              /\ registered' = [registered EXCEPT ![n] = c]
            BY <1>5, <2>4 DEF ConfigurationComplete
        <3>2. IsConfig(r) /\ r.state = "created" /\ r.name = n /\ r.settings = n
            <4> DEFINE a == config[c]
            <4>1. r = [a EXCEPT !.state = "created", !.settings = n] /\ n = a.name
                OBVIOUS
            <4>2. IsConfig(a)
                BY <1>0
            <4> HIDE DEF a, n, r
            <4> QED BY <4>1, <4>2 DEF IsConfig
        <3>3. n \in Groups
            BY <2>3, <2>4 DEF Registers
        <3> HIDE DEF r, n
        <3>4. /\ RegisteredInConfigs' /\ registered'[n] = c
              /\ \A h \in Groups : h # n => registered'[h] = registered[h]
            BY <1>0, <3>1, <3>3 DEF RegisteredInConfigs
        <3> QED BY <2>2, <3>1, <3>2, <3>3, <3>4, OneChanges
    <2>5. CASE ~Registers(c, n)
        <3> DEFINE r == [config[c] EXCEPT !.state = "created"]
        <3>1. config' = [config EXCEPT ![c] = r] /\ registered' = registered
            BY <1>5, <2>5 DEF ConfigurationComplete
        <3>2. IsConfig(r) /\ r.name = n /\ r.settings = None
            BY <1>0, <2>1, StateGiven
        <3>3. RegisteredInConfigs'
            BY <1>0, <3>1 DEF RegisteredInConfigs
        <3> HIDE DEF r, n
        <3> QED BY <2>2, <2>3, <3>1, <3>2, <3>3, OneChanges
    <2> QED BY <2>4, <2>5
<1>6. ASSUME NEW c \in Configs, DestroyConfiguration(c) PROVE NamesInv'
    <2> DEFINE r == NewConfig
    <2>1. registered' = Unregistered(c) /\ config' = [config EXCEPT ![c] = r]
        BY <1>6 DEF DestroyConfiguration
    <2>2. RegisteredInConfigs'
        BY <1>0, <2>1 DEF RegisteredInConfigs, Unregistered
    <2>3. \A h \in Groups : registered'[h] # None =>
              registered'[h] # c /\ registered'[h] = registered[h]
        <3>1. ASSUME NEW h \in Groups, registered'[h] # None
              PROVE  registered'[h] # c /\ registered'[h] = registered[h]
            <4>1. registered'[h] = registered[h]
                BY <1>0, <2>1, <3>1 DEF RegisteredInConfigs, Unregistered
            <4>2. registered[h] = c => config[c].name = h
                BY <3>1, <4>1 DEF NamesInv, RegisteredIsUsable
            <4>3. config[c].name = h => registered'[h] = None
                BY <1>0, <1>15, <2>1 DEF RegisteredInConfigs, Unregistered
            <4> QED BY <3>1, <4>1, <4>2, <4>3
        <3> QED BY <3>1
    <2>4. IsConfig(r) /\ r.name = None /\ r.settings = None
        BY DEF NewConfig, IsConfig
    <2> HIDE DEF r
    <2> QED BY <2>1, <2>2, <2>3, <2>4, OneChanges
<1>7. ASSUME NEW f \in Features, ClassBegin(f) \/ ComponentComplete(f) PROVE NamesInv'
    BY <1>1, <1>7 DEF ClassBegin, ComponentComplete
<1>8. ASSUME NEW f \in Features, NEW g \in Groups, SetConfigurationId(f, g) PROVE NamesInv'
    BY <1>1, <1>8 DEF SetConfigurationId
<1>9. ASSUME NEW f \in Features, NEW s, NEW v, SetDirectly(f, s, v) PROVE NamesInv'
    BY <1>1, <1>9 DEF SetDirectly
<1>10. ASSUME NEW m \in Members, Destroy(m) PROVE NamesInv'
    BY <1>1, <1>10 DEF Destroy
<1>11. ASSUME NEW o \in ServiceObjects, AddServiceObject(o) PROVE NamesInv'
    BY <1>1, <1>11 DEF AddServiceObject
<1>12. ASSUME NEW g \in Groups, NEW s, NEW v, SetOfGroup(g, s, v) PROVE NamesInv'
    BY <1>1, <1>12 DEF SetOfGroup
<1>13. CASE Return \/ ApplyNext \/ AddNext \/ CopyNext
    BY <1>1, <1>13 DEF Return, ApplyNext, AddNext, CopyNext
<1>14. CASE UNCHANGED vars
    BY <1>1, <1>14 DEF vars
<1> QED BY <1>2, <1>3, <1>4, <1>5, <1>6, <1>7, <1>8, <1>9, <1>10, <1>11, <1>12, <1>13,
           <1>14 DEF Next

\* The configuration registered for a group is there, has its name and changes
\* that group, whichever configurations of that name come and go.
THEOREM NamesAreUsable == Spec => []RegisteredIsUsable
<1>1. Init => NamesInv
    BY NamesAtStart
<1>2. NamesInv /\ [Next]_vars => NamesInv'
    BY NamesStay
<1>3. NamesInv => RegisteredIsUsable
    BY DEF NamesInv
<1> QED BY <1>1, <1>2, <1>3, PTL DEF Spec
-----------------------------------------------------------------------------
(* Types *)

AllValues == UNION {Values[s] : s \in Settings}
MemberRecords == [id : Groups \cup {None}, qml : BOOLEAN, value : Assignments,
                  own : SUBSET Settings]
ConfigRecords == [state : {"none", "creating", "created"}, name : Groups \cup {None},
                  settings : Groups \cup {None}, temp : Assignments]

\* One value of an assignment is replaced.
LEMMA OneAssigned ==
    ASSUME NEW a \in Assignments, NEW s \in Settings, NEW v \in Values[s]
    PROVE  /\ [a EXCEPT ![s] = v] \in Assignments
           /\ [a EXCEPT ![s] = v][s] = v
           /\ \A t \in Settings : t # s => [a EXCEPT ![s] = v][t] = a[t]
  <1>1. a \in [Settings -> AllValues] /\ \A t \in Settings : a[t] \in Values[t]
    BY DEF Assignments, AllValues
  <1>2. v \in AllValues BY DEF AllValues
  <1>3. [a EXCEPT ![s] = v] \in [Settings -> AllValues] BY <1>1, <1>2
  <1>4. \A t \in Settings : [a EXCEPT ![s] = v][t] \in Values[t] BY <1>1
  <1>5. [a EXCEPT ![s] = v] \in Assignments BY <1>3, <1>4 DEF Assignments, AllValues
  <1> QED BY <1>1, <1>5

\* H is G, where group g has got value v for setting s.
GetsValue(G, g, s, v, H) ==
    /\ H \in [Groups -> SettingsObjects]
    /\ H[g].set = G[g].set \cup {s} /\ H[g].value[s] = v
    /\ \A h \in Groups : H[h].members = G[h].members
    /\ \A h \in Groups : h # g => H[h] = G[h]
    /\ \A t \in Settings : t # s => H[g].value[t] = G[g].value[t]

\* A group gets a value.
LEMMA GroupSets ==
    ASSUME NEW G \in [Groups -> SettingsObjects], NEW g \in Groups, NEW s \in Settings,
           NEW v \in Values[s], NEW H,
           H = [G EXCEPT ![g].value[s] = v, ![g].set = @ \cup {s}]
    PROVE  GetsValue(G, g, s, v, H)
  <1> DEFINE a == [G[g].value EXCEPT ![s] = v]
             r == [[G[g] EXCEPT !.value = a] EXCEPT !.set = @ \cup {s}]
  <1>1. G[g] \in SettingsObjects OBVIOUS
  <1>2. /\ a \in Assignments /\ a[s] = v
        /\ \A t \in Settings : t # s => a[t] = G[g].value[t]
    <2>1. G[g].value \in Assignments BY <1>1 DEF SettingsObjects
    <2> QED BY <2>1, OneAssigned
  <1>3. H[g] = r /\ \A h \in Groups : h # g => H[h] = G[h] OBVIOUS
  <1>4. H = [h \in Groups |-> H[h]] OBVIOUS
  <1> HIDE DEF a
  <1>5. /\ r \in SettingsObjects /\ r.value = a /\ r.set = G[g].set \cup {s}
        /\ r.members = G[g].members
    BY <1>1, <1>2 DEF SettingsObjects
  <1> HIDE DEF r
  <1>6. H \in [Groups -> SettingsObjects] BY <1>3, <1>4, <1>5
  <1> QED BY <1>2, <1>3, <1>5, <1>6 DEF GetsValue

\* H is G, where group g has got the members of l.
GetsMembers(G, g, l, H) ==
    /\ H \in [Groups -> SettingsObjects]
    /\ H[g].members = l
    /\ \A h \in Groups : H[h].set = G[h].set /\ H[h].value = G[h].value
    /\ \A h \in Groups : h # g => H[h] = G[h]

\* A group gets other members.
LEMMA GroupLists ==
    ASSUME NEW G \in [Groups -> SettingsObjects], NEW g \in Groups, NEW l \in Seq(Members),
           NEW H, H = [G EXCEPT ![g].members = l]
    PROVE  GetsMembers(G, g, l, H)
  <1>1. G[g] \in SettingsObjects OBVIOUS
  <1>2. H[g] = [G[g] EXCEPT !.members = l] /\ \A h \in Groups : h # g => H[h] = G[h] OBVIOUS
  <1>3. H = [h \in Groups |-> H[h]] OBVIOUS
  <1>4. /\ H[g] \in SettingsObjects /\ H[g].members = l
        /\ H[g].set = G[g].set /\ H[g].value = G[g].value
    BY <1>1, <1>2 DEF SettingsObjects
  <1> QED BY <1>2, <1>3, <1>4 DEF GetsMembers

\* N is M, where member m has got value v for setting s, and its own settings are D.
HasValue(M, m, s, v, D, N) ==
    /\ N \in [Members -> MemberRecords]
    /\ N[m].value[s] = v /\ N[m].own = D
    /\ \A t \in Settings : t # s => N[m].value[t] = M[m].value[t]
    /\ \A x \in Members : N[x].id = M[x].id
    /\ \A x \in Members : x # m => N[x] = M[x]

\* A member gets a value.
LEMMA MemberTakes ==
    ASSUME NEW M \in [Members -> MemberRecords], NEW m \in Members, NEW s \in Settings,
           NEW v \in Values[s], NEW D \in SUBSET Settings, NEW N,
           N = [M EXCEPT ![m].value[s] = v, ![m].own = D]
    PROVE  HasValue(M, m, s, v, D, N)
  <1> DEFINE a == [M[m].value EXCEPT ![s] = v]
             r == [[M[m] EXCEPT !.value = a] EXCEPT !.own = D]
  <1>1. M[m] \in MemberRecords OBVIOUS
  <1>2. /\ a \in Assignments /\ a[s] = v
        /\ \A t \in Settings : t # s => a[t] = M[m].value[t]
    <2>1. M[m].value \in Assignments BY <1>1 DEF MemberRecords
    <2> QED BY <2>1, OneAssigned
  <1>3. N[m] = r /\ \A x \in Members : x # m => N[x] = M[x] OBVIOUS
  <1>4. N = [x \in Members |-> N[x]] OBVIOUS
  <1> HIDE DEF a
  <1>5. r \in MemberRecords /\ r.value = a /\ r.own = D /\ r.id = M[m].id
    BY <1>1, <1>2 DEF MemberRecords
  <1> HIDE DEF r
  <1>6. N \in [Members -> MemberRecords] BY <1>3, <1>4, <1>5
  <1> QED BY <1>2, <1>3, <1>5, <1>6 DEF HasValue

-----------------------------------------------------------------------------
(* The stack of calls *)

Frames == [op : {"slot", "set", "add", "complete"}, group : Groups \cup {None},
           setting : Settings \cup {""}, who : Members \cup Configs \cup {None},
           value : AllValues, done : Nat]

\* What the calls under way rely on: M are the members, C the configurations.
FrameOK(f, M, C) ==
    /\ f.setting = "serviceSettings" => f.op = "set"
    /\ f.op = "set" => /\ f.group \in Groups /\ f.setting \in Settings \ FileSettings
                       /\ f.value \in Values[f.setting]
    /\ f.op = "add" => f.group \in Groups /\ f.who \in Members /\ M[f.who].id = f.group
    /\ f.op = "complete" => /\ f.who \in Configs /\ C[f.who].settings \in Groups
                            /\ C[f.who].state = "created"

Held(q, M, C) ==
    /\ q \in Seq(Frames) /\ q # <<>> /\ q[Len(q)].op = "slot"
    /\ \A k \in 1..Len(q) : FrameOK(q[k], M, C)

\* A frame on top of others
LEMMA Pushed ==
    ASSUME NEW S, NEW q \in Seq(S), NEW x \in S
    PROVE  /\ <<x>> \o q \in Seq(S) /\ <<x>> \o q # <<>>
           /\ Len(<<x>> \o q) = Len(q) + 1 /\ Len(q) \in Nat
           /\ (<<x>> \o q)[1] = x /\ Head(<<x>> \o q) = x /\ Tail(<<x>> \o q) = q
           /\ \A k \in 1..Len(q) : (<<x>> \o q)[k + 1] = q[k]
           /\ \A k \in 1..(Len(q) + 1) : k = 1 \/ k - 1 \in 1..Len(q)
  <1>1. <<x>> \in Seq(S) /\ Len(<<x>>) = 1 /\ <<x>>[1] = x OBVIOUS
  <1>2. <<x>> \o q \in Seq(S) /\ Len(<<x>> \o q) = Len(q) + 1 /\ Len(q) \in Nat
    BY <1>1
  <1>3. (<<x>> \o q)[1] = x /\ \A k \in 1..Len(q) : (<<x>> \o q)[k + 1] = q[k]
    BY <1>1
  <1>4. Head(<<x>> \o q) = x BY <1>2, <1>3
  <1>5. Tail(<<x>> \o q) = q
    <2> DEFINE p == <<x>> \o q
    <2>1. p \in Seq(S) /\ Len(p) = Len(q) + 1 /\ \A k \in 1..Len(q) : p[k + 1] = q[k]
      BY <1>2, <1>3
    <2> HIDE DEF p
    <2>2. Tail(p) \in Seq(S) /\ Len(Tail(p)) = Len(q)
          /\ \A k \in 1..Len(q) : Tail(p)[k] = p[k + 1]
      BY <1>2, <2>1
    <2> QED BY <2>1, <2>2 DEF p
  <1> QED BY <1>2, <1>3, <1>4, <1>5

\* A stack is its top on the rest.
LEMMA Popped ==
    ASSUME NEW S, NEW q \in Seq(S), q # <<>>
    PROVE  /\ Head(q) \in S /\ Tail(q) \in Seq(S) /\ q = <<Head(q)>> \o Tail(q)
           /\ Head(q) = q[1] /\ Len(q) = Len(Tail(q)) + 1 /\ Len(Tail(q)) \in Nat
           /\ \A k \in 1..Len(Tail(q)) : Tail(q)[k] = q[k + 1]
  <1>1. /\ Head(q) \in S /\ Tail(q) \in Seq(S) /\ Head(q) = q[1]
        /\ Len(q) = Len(Tail(q)) + 1 /\ Len(Tail(q)) \in Nat
        /\ \A k \in 1..Len(Tail(q)) : Tail(q)[k] = q[k + 1]
    OBVIOUS
  <1>2. q = <<Head(q)>> \o Tail(q)
    <2> DEFINE p == <<Head(q)>> \o Tail(q)
    <2>1. /\ p \in Seq(S) /\ Len(p) = Len(Tail(q)) + 1 /\ p[1] = Head(q)
          /\ \A k \in 1..Len(Tail(q)) : p[k + 1] = Tail(q)[k]
      BY <1>1, Pushed
    <2> HIDE DEF p
    <2>2. \A k \in 1..Len(q) : p[k] = q[k]
      <3> TAKE k \in 1..Len(q)
      <3>1. k = 1 \/ (k - 1 \in 1..Len(Tail(q)) /\ k = (k - 1) + 1) BY <1>1
      <3> QED BY <1>1, <2>1, <3>1
    <2> QED BY <1>1, <2>1, <2>2 DEF p
  <1> QED BY <1>1, <1>2

\* A call is made.
LEMMA PushHeld ==
    ASSUME NEW M, NEW C, NEW q, Held(q, M, C), NEW x \in Frames, FrameOK(x, M, C)
    PROVE  Held(<<x>> \o q, M, C)
  <1>1. q \in Seq(Frames) BY DEF Held
  <1> DEFINE p == <<x>> \o q
  <1>2. /\ p \in Seq(Frames) /\ p # <<>> /\ Len(p) = Len(q) + 1 /\ Len(q) \in Nat /\ p[1] = x
        /\ \A k \in 1..Len(q) : p[k + 1] = q[k]
        /\ \A k \in 1..(Len(q) + 1) : k = 1 \/ k - 1 \in 1..Len(q)
    BY <1>1, Pushed
  <1> HIDE DEF p
  <1>3. \A k \in 1..Len(p) : FrameOK(p[k], M, C)
    <2> TAKE k \in 1..Len(p)
    <2>1. CASE k = 1 BY <1>2, <2>1
    <2>2. CASE k - 1 \in 1..Len(q)
      <3>1. p[(k - 1) + 1] = q[k - 1] BY <1>2, <2>2
      <3>2. p[k] = q[k - 1] BY <3>1
      <3> QED BY <2>2, <3>2 DEF Held
    <2> QED BY <1>2, <2>1, <2>2
  <1>4. Len(q) \in 1..Len(q) BY <1>1 DEF Held
  <1>5. p[Len(p)].op = "slot" BY <1>2, <1>4 DEF Held
  <1> QED BY <1>2, <1>3, <1>5 DEF Held, p

\* A call returns: it was not the last slot.
LEMMA PopHeld ==
    ASSUME NEW M, NEW C, NEW q, Held(q, M, C), Head(q).op # "slot" \/ Tail(q) # <<>>
    PROVE  Held(Tail(q), M, C)
  <1> DEFINE t == Tail(q)
  <1>1. /\ t \in Seq(Frames) /\ Head(q) = q[1] /\ Len(q) = Len(t) + 1 /\ Len(t) \in Nat
        /\ \A k \in 1..Len(t) : t[k] = q[k + 1]
    BY Popped DEF Held
  <1>2. Len(t) # 0 BY <1>1 DEF Held
  <1> HIDE DEF t
  <1>3. t # <<>> BY <1>2
  <1>4. t[Len(t)].op = "slot"
    <2>1. Len(t) \in 1..Len(t) BY <1>1, <1>2
    <2> QED BY <1>1, <2>1 DEF Held
  <1>5. \A k \in 1..Len(t) : FrameOK(t[k], M, C)
    <2> TAKE k \in 1..Len(t)
    <2>1. k + 1 \in 1..Len(q) /\ t[k] = q[k + 1] BY <1>1
    <2> QED BY <2>1 DEF Held
  <1> QED BY <1>1, <1>3, <1>4, <1>5 DEF Held, t

\* The call on top goes on.
LEMMA AdvanceHeld ==
    ASSUME NEW M, NEW C, NEW q, Held(q, M, C), Head(q).op # "slot",
           NEW n \in Nat
    PROVE  /\ Held(<<[Head(q) EXCEPT !.done = n]>> \o Tail(q), M, C)
           /\ [Head(q) EXCEPT !.done = n] \in Frames
  <1> DEFINE f == [Head(q) EXCEPT !.done = n]
  <1>1. Head(q) \in Frames /\ Head(q) = q[1] /\ 1 \in 1..Len(q) BY Popped DEF Held
  <1>2. FrameOK(Head(q), M, C) BY <1>1 DEF Held
  <1>3. /\ f \in Frames /\ f.op = Head(q).op /\ f.group = Head(q).group
        /\ f.setting = Head(q).setting /\ f.who = Head(q).who /\ f.value = Head(q).value
    BY <1>1 DEF Frames
  <1> HIDE DEF f
  <1>4. FrameOK(f, M, C) BY <1>2, <1>3 DEF FrameOK
  <1>5. Held(Tail(q), M, C) BY PopHeld
  <1> QED BY <1>3, <1>4, <1>5, PushHeld DEF f

\* Members and configurations that change, but for what calls under way rely on
LEMMA OthersHeld ==
    ASSUME NEW M, NEW C, NEW N, NEW D, NEW q, Held(q, M, C),
           \A k \in 1..Len(q) : FrameOK(q[k], M, C) => FrameOK(q[k], N, D)
    PROVE  Held(q, N, D)
  BY DEF Held

\* Slots and setters as frames
LEMMA FrameTypes ==
    ASSUME NEW M, NEW C
    PROVE  /\ Slot[1] \in Frames /\ FrameOK(Slot[1], M, C) /\ Slot = <<Slot[1]>>
           /\ Slot[1].op = "slot" /\ Slot[1].setting # "serviceSettings"
           /\ \A g \in Groups : \A s \in Settings \ FileSettings : \A v \in Values[s] :
                /\ Frame("set", g, s, None, v) \in Frames
                /\ FrameOK(Frame("set", g, s, None, v), M, C)
           /\ \A g \in Groups : \A m \in Members :
                /\ Frame("add", g, "", m, Default) \in Frames
                /\ M[m].id = g => FrameOK(Frame("add", g, "", m, Default), M, C)
           /\ \A c \in Configs :
                /\ Frame("complete", None, "", c, Default) \in Frames
                /\ C[c].settings \in Groups /\ C[c].state = "created" =>
                     FrameOK(Frame("complete", None, "", c, Default), M, C)
  <1>1. Default \in AllValues
    <2>1. "serviceSettings" \in Settings BY DEF Settings
    <2> QED BY <2>1, ConfigurationAssumption DEF AllValues
  <1>2. \A s \in Settings : Values[s] \subseteq AllValues BY DEF AllValues
  <1>4. /\ Slot[1] \in Frames /\ FrameOK(Slot[1], M, C) /\ Slot = <<Slot[1]>>
        /\ Slot[1].op = "slot" /\ Slot[1].setting # "serviceSettings"
    <2> DEFINE x == Frame("slot", None, "", None, Default)
    <2>1. x = [op |-> "slot", group |-> None, setting |-> "", who |-> None,
               value |-> Default, done |-> 0]
      BY DEF Frame
    <2>2. Slot = <<x>> /\ Slot[1] = x BY DEF Slot
    <2> HIDE DEF x
    <2>3. x \in Frames BY <1>1, <2>1 DEF Frames
    <2>4. FrameOK(x, M, C) BY <2>1 DEF FrameOK
    <2> QED BY <2>1, <2>2, <2>3, <2>4
  <1>5. ASSUME NEW g \in Groups, NEW s \in Settings \ FileSettings, NEW v \in Values[s]
        PROVE  /\ Frame("set", g, s, None, v) \in Frames
               /\ FrameOK(Frame("set", g, s, None, v), M, C)
    <2>1. v \in AllValues BY <1>2
    <2>2. Frame("set", g, s, None, v) \in Frames BY <2>1 DEF Frame, Frames
    <2>3. FrameOK(Frame("set", g, s, None, v), M, C) BY DEF Frame, FrameOK
    <2> QED BY <2>2, <2>3
  <1>6. ASSUME NEW g \in Groups, NEW m \in Members
        PROVE  /\ Frame("add", g, "", m, Default) \in Frames
               /\ M[m].id = g => FrameOK(Frame("add", g, "", m, Default), M, C)
    BY <1>1 DEF Frame, Frames, FrameOK
  <1>7. ASSUME NEW c \in Configs
        PROVE  /\ Frame("complete", None, "", c, Default) \in Frames
               /\ C[c].settings \in Groups /\ C[c].state = "created" =>
                    FrameOK(Frame("complete", None, "", c, Default), M, C)
    BY <1>1 DEF Frame, Frames, FrameOK
  <1> QED BY <1>4, <1>5, <1>6, <1>7

-----------------------------------------------------------------------------
(* The states at the start *)

\* The settings of QIfConfiguration are copied one after another.
LEMMA CopiesSettings ==
    /\ CopyOrder \in Seq(Settings)
    /\ \A i \in 1..Len(CopyOrder) : CopyOrder[i] = "serviceSettings" => i = 1
  <1> DEFINE n == Cardinality(FileSettings)
             q == SetToSeq(FileSettings)
  <1>1. n \in Nat /\ ExistsBijection(1..n, FileSettings)
    BY FS_CardinalityType, ConfigurationAssumption
  <1>2. \E f \in [1..n -> FileSettings] : IsInjective(f)
    <2>1. PICK f \in Bijection(1..n, FileSettings) : TRUE BY <1>1 DEF ExistsBijection
    <2>2. f \in [1..n -> FileSettings] /\ IsInjective(f)
      BY <2>1 DEF Bijection, Injection, Surjection, IsInjective
    <2> QED BY <2>2
  <1>3. q \in [1..n -> FileSettings] BY <1>2 DEF SetToSeq
  <1>4. q \in Seq(Settings) BY <1>1, <1>3 DEF Settings
  <1>5. FeatureOrder \in Seq(Settings)
    <2>1. FeatureOrder \in Seq(STRING) BY ConfigurationAssumption
    <2>2. \A i \in 1..Len(FeatureOrder) : FeatureOrder[i] \in Settings
      BY <2>1 DEF Settings, FeatureSettings, ToSet
    <2> QED BY <2>1, <2>2
  <1>6. <<"serviceSettings">> \in Seq(Settings) BY DEF Settings
  <1>7. \A i \in 1..Len(q) : q[i] # "serviceSettings" BY <1>1, <1>3, ConfigurationAssumption
  <1>8. \A i \in 1..Len(FeatureOrder) : FeatureOrder[i] # "serviceSettings"
    BY <1>5, ConfigurationAssumption DEF FeatureSettings, ToSet
  <1> DEFINE o == <<"serviceSettings">>
             p == o \o q
  <1>9. CopyOrder = p \o FeatureOrder BY DEF CopyOrder
  <1> HIDE DEF q
  <1>10. /\ p \in Seq(Settings) /\ Len(p) = Len(q) + 1 /\ Len(q) \in Nat
         /\ \A i \in 1..Len(p) : p[i] = "serviceSettings" => i = 1
    <2>1. "serviceSettings" \in Settings BY DEF Settings
    <2>2. /\ p \in Seq(Settings) /\ Len(p) = Len(q) + 1 /\ Len(q) \in Nat
          /\ \A k \in 1..Len(q) : p[k + 1] = q[k]
          /\ \A k \in 1..(Len(q) + 1) : k = 1 \/ k - 1 \in 1..Len(q)
      BY <1>4, <2>1, Pushed
    <2> HIDE DEF p
    <2>3. \A i \in 1..Len(p) : i # 1 => i - 1 \in 1..Len(q) /\ p[(i - 1) + 1] = q[i - 1]
      BY <2>2
    <2>4. \A i \in 1..Len(p) : (i - 1) + 1 = i OBVIOUS
    <2> QED BY <1>7, <2>2, <2>3, <2>4
  <1> HIDE DEF p
  <1>11. CopyOrder \in Seq(Settings) BY <1>5, <1>9, <1>10
  <1>12. \A i \in 1..Len(CopyOrder) : \/ i \in 1..Len(p) /\ CopyOrder[i] = p[i]
                                      \/ /\ i - Len(p) \in 1..Len(FeatureOrder)
                                         /\ CopyOrder[i] = FeatureOrder[i - Len(p)]
    BY <1>5, <1>9, <1>10
  <1> QED BY <1>8, <1>10, <1>11, <1>12

\* The last of some entries is one of them.
LEMMA LatestIs ==
    ASSUME NEW n \in Nat, NEW I \in SUBSET (1..n), I # {}
    PROVE  Latest(I) \in I
  <1>1. I \in SUBSET (0..n) OBVIOUS
  <1>2. \E i \in I : \A j \in I : j <= i BY <1>1, GreatestExists
  <1> QED BY <1>2 DEF Latest

\* What is read of the files and the environment is well-formed and has its type.
LEMMA ReadTypes ==
    ASSUME Init, NEW g \in Groups
    PROVE  ReadInitialSettings(g) \in SettingsObjects
  <1>1. /\ Len(file) \in Nat /\ DOMAIN file = 1..Len(file)
        /\ \A i \in 1..Len(file) :
             /\ DOMAIN file[i].values \subseteq Settings
             /\ \A s \in DOMAIN file[i].values : file[i].values[s] \in Values[s] \cup {Malformed}
    BY InputAssumption DEF Init
  <1>2. /\ Len(env) \in Nat /\ DOMAIN env = 1..Len(env)
        /\ \A i \in 1..Len(env) : env[i].value \in Values[env[i].setting] \cup {Malformed}
    BY InputAssumption DEF Init
  <1> DEFINE inFile == UNION {DOMAIN file[i].values : i \in Read(g)}
             value == [s \in Settings |->
                IF s \in Overrides(g) THEN env[Latest(Given(g, s))].value
                ELSE IF s \in inFile
                     THEN file[Latest({i \in Read(g) : s \in DOMAIN file[i].values})].values[s]
                     ELSE Default]
  <1>3. Overrides(g) \subseteq Settings BY DEF Overrides
  <1>4. Read(g) \subseteq 1..Len(file) BY <1>1 DEF Read
  <1>5. inFile \subseteq Settings BY <1>1, <1>4
  <1>6. ASSUME NEW s \in Settings, s \in Overrides(g)
        PROVE  env[Latest(Given(g, s))].value \in Values[s]
    <2>1. Given(g, s) \in SUBSET (1..Len(env)) BY <1>2 DEF Given
    <2>2. Given(g, s) # {} BY <1>6 DEF Overrides
    <2>3. Latest(Given(g, s)) \in Given(g, s) BY <1>2, <2>1, <2>2, LatestIs
    <2> QED BY <1>2, <2>1, <2>3 DEF Given
  <1>7. ASSUME NEW s \in Settings, s \in inFile
        PROVE  file[Latest({i \in Read(g) : s \in DOMAIN file[i].values})].values[s] \in Values[s]
    <2> DEFINE I == {i \in Read(g) : s \in DOMAIN file[i].values}
    <2>1. I \in SUBSET (1..Len(file)) /\ I # {} BY <1>4, <1>7
    <2>2. Latest(I) \in I BY <1>1, <2>1, LatestIs
    <2> HIDE DEF I
    <2>3. PICK i \in I : i = Latest(I) BY <2>2
    <2>4. i \in Read(g) /\ s \in DOMAIN file[i].values /\ i \in 1..Len(file) BY <1>4 DEF I
    <2>5. i \notin MalformedAt BY <1>4, <2>4 DEF Read
    <2>6. file[i].values[s] # Malformed BY <1>1, <2>4, <2>5 DEF MalformedAt
    <2>7. file[i].values[s] \in Values[s] BY <1>1, <2>4, <2>6
    <2> QED BY <2>3, <2>7 DEF I
  <1>8. Default \in Values["serviceSettings"] /\ \A s \in Settings : Default \in Values[s]
    BY ConfigurationAssumption DEF Settings
  <1>9. value \in Assignments
    <2>1. \A s \in Settings : value[s] \in Values[s] BY <1>6, <1>7, <1>8
    <2> HIDE DEF value
    <2>2. value = [s \in Settings |-> value[s]] BY DEF value
    <2> QED BY <2>1, <2>2 DEF Assignments
  <1>10. ReadInitialSettings(g) = [set |-> inFile \cup Overrides(g), override |-> Overrides(g),
                                   members |-> <<>>, value |-> value]
    BY DEF ReadInitialSettings
  <1> HIDE DEF inFile, value
  <1> QED BY <1>3, <1>5, <1>9, <1>10 DEF SettingsObjects

\* The members of a list are in its group.
ListsOK(G, M) == \A g \in Groups : \A i \in 1..Len(G[g].members) : M[G[g].members[i]].id = g

Base == TypeOK /\ Held(stack, member, config) /\ ListsOK(group, member)

\* The types are right at the start.
LEMMA BaseAtStart == Init => Base
  <1> SUFFICES ASSUME Init PROVE Base OBVIOUS
  <1>1. known \subseteq Groups BY DEF Init, Created
  <1>2. group \in [Groups -> SettingsObjects] BY ReadTypes DEF Init
  <1>3. Initial \in Assignments
    <2>1. Initial = [s \in Settings |-> Initial[s]] /\ \A s \in Settings : Initial[s] \in Values[s]
      BY ConfigurationAssumption
    <2> QED BY <2>1 DEF Assignments
  <1>4. NewMember \in MemberRecords BY <1>3 DEF NewMember, MemberRecords
  <1>5. [s \in Settings |-> Default] \in Assignments
    BY ConfigurationAssumption DEF Assignments
  <1>6. NewConfig \in ConfigRecords BY <1>5 DEF NewConfig, ConfigRecords
  <1>7. TypeOK BY <1>1, <1>2, <1>4, <1>6 DEF Init, TypeOK, MemberRecords, ConfigRecords
  <1>8. Held(stack, member, config)
    <2>1. Slot[1] \in Frames /\ FrameOK(Slot[1], member, config) /\ Slot = <<Slot[1]>>
          /\ Slot[1].op = "slot"
      BY FrameTypes
    <2> DEFINE x == Slot[1]
    <2>2. stack = <<x>> BY <2>1 DEF Init
    <2> HIDE DEF x
    <2>3. /\ <<x>> \in Seq(Frames) /\ <<x>> # <<>> /\ Len(<<x>>) = 1
          /\ \A k \in 1..1 : <<x>>[k] = x
      BY <2>1 DEF x
    <2> QED BY <2>1, <2>2, <2>3 DEF Held, x
  <1>9. ListsOK(group, member)
    <2>1. \A g \in Groups : group[g].members = <<>> BY DEF Init, ReadInitialSettings
    <2>2. \A g \in Groups : Len(group[g].members) = 0 BY <2>1
    <2> QED BY <2>2 DEF ListsOK
  <1> QED BY <1>7, <1>8, <1>9 DEF Base

-----------------------------------------------------------------------------
(* What the calls change *)

\* Members that change, but for those whose settings are being applied
LEMMA MembersHeld ==
    ASSUME NEW M, NEW C, NEW N, NEW q, Held(q, M, C),
           \A m \in Members : \/ N[m].id = M[m].id
                              \/ \A k \in 1..Len(q) : ~(q[k].op = "add" /\ q[k].who = m)
    PROVE  Held(q, N, C)
  <1>1. \A k \in 1..Len(q) : FrameOK(q[k], M, C) => FrameOK(q[k], N, C)
    BY DEF FrameOK
  <1> QED BY <1>1, OthersHeld

\* Configurations that change, but for those that are being completed
LEMMA ConfigsHeld ==
    ASSUME NEW M, NEW C, NEW D, NEW q, Held(q, M, C),
           \A c \in Configs : \/ D[c].settings = C[c].settings /\ D[c].state = C[c].state
                              \/ C[c].settings \notin Groups
                              \/ C[c].state # "created"
                              \/ \A k \in 1..Len(q) : q[k].who # c
    PROVE  Held(q, M, D)
  <1>1. \A k \in 1..Len(q) : FrameOK(q[k], M, C) => FrameOK(q[k], M, D)
    BY DEF FrameOK
  <1> QED BY <1>1, OthersHeld

\* A slot runs.
LEMMA SlotHeld ==
    ASSUME NEW M, NEW C, NEW q, Held(q, M, C)
    PROVE  Held(Slot \o q, M, C)
  <1> DEFINE x == Slot[1]
  <1>1. x \in Frames /\ FrameOK(x, M, C) /\ Slot = <<x>> BY FrameTypes
  <1> HIDE DEF x
  <1> QED BY <1>1, PushHeld

\* A setting of a group gets a value and is told to the members, or is overridden and stays.
LEMMA SetStep ==
    ASSUME NEW M, NEW C, group \in [Groups -> SettingsObjects], NEW g \in Groups,
           NEW s \in Settings, NEW v \in Values[s], NEW frames, Held(frames, M, C),
           Set(g, s, v, frames)
    PROVE  /\ group' \in [Groups -> SettingsObjects] /\ Held(stack', M, C)
           /\ \A h \in Groups : group'[h].members = group[h].members
           /\ group' = group \/ GetsValue(group, g, s, v, group')
  <1>1. CASE s \in group[g].override
    BY <1>1 DEF Set
  <1>2. CASE s \notin group[g].override
    <2>1. /\ group' = [group EXCEPT ![g].value[s] = v, ![g].set = @ \cup {s}]
          /\ stack' = IF s \in FileSettings THEN frames
                      ELSE <<Frame("set", g, s, None, v)>> \o frames
      BY <1>2 DEF Set
    <2>2. GetsValue(group, g, s, v, group') BY <2>1, GroupSets
    <2>3. Held(stack', M, C)
      <3>1. CASE s \in FileSettings BY <2>1, <3>1
      <3>2. CASE s \notin FileSettings
        <4> DEFINE x == Frame("set", g, s, None, v)
        <4>1. x \in Frames /\ FrameOK(x, M, C) BY <3>2, FrameTypes
        <4>2. stack' = <<x>> \o frames BY <2>1, <3>2
        <4> HIDE DEF x
        <4> QED BY <4>1, <4>2, PushHeld
      <3> QED BY <3>1, <3>2
    <2> QED BY <2>2, <2>3 DEF GetsValue
  <1> QED BY <1>1, <1>2

\* A member takes a value of its group in the place of its own.
LEMMA TakeStep ==
    ASSUME member \in [Members -> MemberRecords], NEW m \in Members, NEW s \in Settings,
           NEW v \in Values[s], NEW frames, NEW C, Held(frames, member, C),
           Take(m, s, v, frames)
    PROVE  /\ member' \in [Members -> MemberRecords] /\ Held(stack', member', C)
           /\ HasValue(member, m, s, v, member[m].own \ {s}, member')
  <1> DEFINE D == member[m].own \ {s}
  <1>1. member[m].own \in SUBSET Settings BY DEF MemberRecords
  <1>2. D \in SUBSET Settings BY <1>1
  <1>3. member' = [member EXCEPT ![m].value[s] = v, ![m].own = D]
    <2>1. member' = [member EXCEPT ![m].value[s] = v, ![m].own = @ \ {s}] BY DEF Take
    <2> QED BY <2>1, <1>1 DEF MemberRecords
  <1> HIDE DEF D
  <1>4. HasValue(member, m, s, v, D, member') BY <1>2, <1>3, MemberTakes
  <1>5. Held(frames, member', C) BY <1>4, MembersHeld DEF HasValue
  <1>6. Held(Slot \o frames, member', C) BY <1>5, SlotHeld
  <1>7. stack' = frames \/ stack' = Slot \o frames BY DEF Take
  <1> QED BY <1>4, <1>5, <1>6, <1>7 DEF D, HasValue

\* A member joins.
LEMMA Joined ==
    ASSUME NEW G \in [Groups -> SettingsObjects], NEW g \in Groups, NEW m \in Members, NEW N,
           ListsOK(G, N), N[m].id = g, NEW H, H = [G EXCEPT ![g].members = Append(@, m)]
    PROVE  /\ GetsMembers(G, g, Append(G[g].members, m), H) /\ ListsOK(H, N)
           /\ G[g].members \in Seq(Members)
  <1> DEFINE l == Append(G[g].members, m)
  <1>1. G[g].members \in Seq(Members) BY DEF SettingsObjects
  <1>2. l \in Seq(Members) BY <1>1
  <1>3. H = [G EXCEPT ![g].members = l] OBVIOUS
  <1>4. \A i \in 1..Len(l) : N[l[i]].id = g
    <2> TAKE i \in 1..Len(l)
    <2>1. CASE i = Len(l) BY <1>1, <2>1
    <2>2. CASE i # Len(l)
      <3>1. i \in 1..Len(G[g].members) /\ l[i] = G[g].members[i] BY <1>1, <2>2
      <3> QED BY <3>1 DEF ListsOK
    <2> QED BY <2>1, <2>2
  <1> HIDE DEF l
  <1>5. GetsMembers(G, g, l, H) BY <1>2, <1>3, GroupLists
  <1>6. ListsOK(H, N) BY <1>4, <1>5 DEF ListsOK, GetsMembers
  <1> QED BY <1>1, <1>5, <1>6 DEF l

\* A member joins a group, and the group applies its settings to it.
LEMMA AddStep ==
    ASSUME group \in [Groups -> SettingsObjects], NEW g \in Groups, NEW m \in Members, NEW N,
           NEW C, ListsOK(group, N), N[m].id = g, Held(stack, N, C), known \subseteq Groups,
           Add(g, m)
    PROVE  /\ group' \in [Groups -> SettingsObjects] /\ ListsOK(group', N)
           /\ Held(stack', N, C) /\ known' \subseteq Groups
  <1>1. /\ group' = [group EXCEPT ![g].members = Append(@, m)]
        /\ stack' = <<Frame("add", g, "", m, Default)>> \o stack
        /\ known' = known \cup {g}
    BY DEF Add
  <1> DEFINE x == Frame("add", g, "", m, Default)
  <1>2. x \in Frames /\ FrameOK(x, N, C) BY FrameTypes
  <1> HIDE DEF x
  <1>3. Held(<<x>> \o stack, N, C) BY <1>2, PushHeld
  <1>4. /\ GetsMembers(group, g, Append(group[g].members, m), group') /\ ListsOK(group', N)
        /\ group[g].members \in Seq(Members)
    BY <1>1, Joined
  <1> QED BY <1>1, <1>3, <1>4 DEF x, GetsMembers

\* H is G, where group g has lost member m.
Loses(G, g, m, H) ==
    /\ H \in [Groups -> SettingsObjects]
    /\ \A h \in Groups : H[h].set = G[h].set /\ H[h].value = G[h].value
    /\ \A h \in Groups : h # g => H[h] = G[h]
    /\ g \in Groups => \A i \in 1..Len(H[g].members) :
         H[g].members[i] # m /\ \E j \in 1..Len(G[g].members) : H[g].members[i] = G[g].members[j]

\* A member leaves: it is in no list of its group, and the others stay.
LEMMA RemovedIs ==
    ASSUME group \in [Groups -> SettingsObjects], NEW g \in Groups \cup {None}, NEW m \in Members
    PROVE  Loses(group, g, m, Removed(g, m))
  <1>1. CASE g = None
    BY <1>1, ConfigurationAssumption DEF Removed, Loses
  <1>2. CASE g \in Groups
    <2> DEFINE L == group[g].members
               S == ToSet(L) \ {m}
               l == Chosen(L, S)
               H == Removed(g, m)
    <2>1. L \in Seq(Members) BY <1>2 DEF SettingsObjects
    <2>2. H = [group EXCEPT ![g].members = l]
      BY <1>2, ConfigurationAssumption DEF Removed, Without
    <2> HIDE DEF L, S, H
    <2>3. /\ l \in Seq(Members \cap S)
          /\ \A i \in 1..Len(l) : \E j \in 1..Len(L) : l[i] = L[j]
      BY <2>1, ChosenEntries
    <2> HIDE DEF l
    <2>4. l \in Seq(Members) /\ \A i \in 1..Len(l) : l[i] # m BY <2>3 DEF S
    <2>5. GetsMembers(group, g, l, H) BY <1>2, <2>2, <2>4, GroupLists
    <2> QED BY <1>2, <2>3, <2>4, <2>5 DEF H, L, GetsMembers, Loses
  <1> QED BY <1>1, <1>2

\* Lists and identifiers agree when a member has left its group.
LEMMA RemovedStep ==
    ASSUME TypeOK, ListsOK(group, member), NEW m \in Members, NEW N,
           \A x \in Members : x # m => N[x] = member[x]
    PROVE  ListsOK(Removed(member[m].id, m), N)
  <1> DEFINE H == Removed(member[m].id, m)
  <1>1. group \in [Groups -> SettingsObjects] /\ member[m].id \in Groups \cup {None}
    BY DEF TypeOK
  <1>9. Loses(group, member[m].id, m, H) BY <1>1, RemovedIs
  <1> HIDE DEF H
  <1>2. ASSUME NEW h \in Groups, NEW i \in 1..Len(H[h].members) PROVE N[H[h].members[i]].id = h
    <2>1. CASE h # member[m].id
      <3>1. H[h] = group[h] BY <1>9, <2>1 DEF Loses
      <3>2. member[group[h].members[i]].id = h
        <4>1. i \in 1..Len(group[h].members) BY <1>2, <3>1
        <4> QED BY <1>2, <4>1 DEF ListsOK
      <3>3. group[h].members[i] \in Members
        <4>1. group[h].members \in Seq(Members) BY <1>1 DEF SettingsObjects
        <4>2. i \in 1..Len(group[h].members) BY <1>2, <3>1
        <4> QED BY <4>1, <4>2
      <3>4. group[h].members[i] # m BY <2>1, <3>2
      <3> QED BY <3>1, <3>2, <3>3, <3>4
    <2>2. CASE h = member[m].id
      <3>1. /\ H[h].members[i] # m
            /\ \E j \in 1..Len(group[h].members) : H[h].members[i] = group[h].members[j]
        BY <1>9, <2>2 DEF Loses
      <3> DEFINE x == H[h].members[i]
      <3>2. PICK j \in 1..Len(group[h].members) : x = group[h].members[j] BY <3>1
      <3>3. group[h].members \in Seq(Members) BY <1>1 DEF SettingsObjects
      <3>4. x \in Members BY <3>2, <3>3
      <3>5. member[x].id = h BY <3>2 DEF ListsOK
      <3>6. N[x] = member[x] BY <3>1, <3>4
      <3> QED BY <3>5, <3>6
    <2> QED BY <2>1, <2>2
  <1>3. ListsOK(H, N) BY <1>2 DEF ListsOK
  <1> QED BY <1>3 DEF H

-----------------------------------------------------------------------------
(* Every step keeps the types, the stack and the lists. *)

\* The type invariant by the sets of its records.
LEMMA TypesAre ==
    TypeOK <=> /\ known \subseteq Groups
               /\ group \in [Groups -> SettingsObjects]
               /\ member \in [Members -> MemberRecords]
               /\ config \in [Configs -> ConfigRecords]
               /\ registered \in [Groups -> Configs \cup {None}]
               /\ asserted \in BOOLEAN
BY DEF TypeOK, MemberRecords, ConfigRecords

\* The call on top
LEMMA TopIs ==
    ASSUME NEW M, NEW C, Held(stack, M, C)
    PROVE  /\ stack \in Seq(Frames) /\ stack # <<>> /\ DOMAIN stack = 1..Len(stack)
           /\ Len(stack) \in Nat /\ 1 \in 1..Len(stack)
           /\ Top = stack[1] /\ Top \in Frames /\ FrameOK(Top, M, C) /\ Top.done \in Nat
  <1>1. stack \in Seq(Frames) /\ stack # <<>> BY DEF Held
  <1>2. /\ DOMAIN stack = 1..Len(stack) /\ Len(stack) \in Nat /\ 1 \in 1..Len(stack)
        /\ Head(stack) = stack[1] /\ Head(stack) \in Frames
    BY <1>1
  <1>3. FrameOK(Top, M, C) BY <1>2 DEF Held, Top
  <1>4. Top.done \in Nat BY <1>2 DEF Top, Frames
  <1> QED BY <1>1, <1>2, <1>3, <1>4 DEF Top

\* The lists of the groups and the ids of the members stay.
LEMMA ListsStay ==
    ASSUME NEW G \in [Groups -> SettingsObjects], NEW M, NEW H, NEW N, ListsOK(G, M),
           \A h \in Groups : H[h].members = G[h].members,
           \A x \in Members : N[x].id = M[x].id
    PROVE  ListsOK(H, N)
  <1>1. ASSUME NEW h \in Groups, NEW i \in 1..Len(H[h].members) PROVE N[H[h].members[i]].id = h
    <2>1. G[h].members \in Seq(Members) BY DEF SettingsObjects
    <2>2. H[h].members = G[h].members OBVIOUS
    <2>3. i \in 1..Len(G[h].members) BY <1>1, <2>2
    <2>4. G[h].members[i] \in Members BY <2>1, <2>3
    <2>5. M[G[h].members[i]].id = h BY <2>3 DEF ListsOK
    <2> QED BY <2>2, <2>4, <2>5
  <1> QED BY <1>1 DEF ListsOK

\* A round of a setter: it ends, it passes a member, or the member takes the value.
LEMMA ApplyIs ==
    ASSUME Base, ApplyNext
    PROVE  /\ Top.op = "set" /\ Top.group \in Groups /\ Top.setting \in Settings \ FileSettings
           /\ UNCHANGED <<known, group, config, registered, asserted>>
           /\ Held(stack', member', config) /\ member' \in [Members -> MemberRecords]
           /\ \A x \in Members : member'[x].id = member[x].id
           /\ \/ /\ Top.done + 1 > Len(group[Top.group].members)
                 /\ stack' = Tail(stack) /\ member' = member
              \/ /\ Top.done + 1 \in 1..Len(group[Top.group].members)
                 /\ LET m == group[Top.group].members[Top.done + 1]
                        v == IF Top.setting = "serviceSettings" THEN Top.value
                             ELSE group[Top.group].value[Top.setting]
                        frames == <<[Top EXCEPT !.done = Top.done + 1]>> \o Tail(stack)
                    IN  /\ m \in Members /\ v \in Values[Top.setting]
                        /\ \/ /\ ~(Concerns(m, Top.setting) /\ ~Refuses(Top.setting, v))
                              /\ stack' = frames /\ member' = member
                           \/ /\ stack' = frames \/ stack' = Slot \o frames
                              /\ HasValue(member, m, Top.setting, v,
                                          member[m].own \ {Top.setting}, member')
  <1> DEFINE list == group[Top.group].members
             next == Top.done + 1
             m == list[next]
             v == IF Top.setting = "serviceSettings" THEN Top.value
                  ELSE group[Top.group].value[Top.setting]
             frames == <<[Top EXCEPT !.done = next]>> \o Tail(stack)
  <1>1. Held(stack, member, config) /\ group \in [Groups -> SettingsObjects]
        /\ member \in [Members -> MemberRecords]
    BY TypesAre DEF Base
  <1>2. /\ Top.op = "set"
        /\ \/ next > Len(list) /\ stack' = Tail(stack) /\ member' = member
           \/ /\ ~(next > Len(list))
              /\ \/ Concerns(m, Top.setting) /\ ~Refuses(Top.setting, v)
                    /\ Take(m, Top.setting, v, frames)
                 \/ /\ ~(Concerns(m, Top.setting) /\ ~Refuses(Top.setting, v))
                    /\ stack' = frames /\ member' = member
        /\ UNCHANGED <<known, group, config, registered, asserted>>
    BY DEF ApplyNext
  <1>3. /\ Top.group \in Groups /\ Top.setting \in Settings \ FileSettings
        /\ Top.value \in Values[Top.setting] /\ Top.done \in Nat
    BY <1>1, <1>2, TopIs DEF FrameOK
  <1>4. list \in Seq(Members) /\ group[Top.group].value \in Assignments
    BY <1>1, <1>3 DEF SettingsObjects
  <1>5. v \in Values[Top.setting] BY <1>3, <1>4 DEF Assignments
  <1>6. Held(frames, member, config)
    <2>1. next \in Nat /\ Head(stack).op # "slot" BY <1>2, <1>3 DEF Top
    <2> HIDE DEF next
    <2>2. Held(<<[Head(stack) EXCEPT !.done = next]>> \o Tail(stack), member, config)
      BY <1>1, <2>1, AdvanceHeld
    <2> QED BY <2>2 DEF Top
  <1>7. CASE next > Len(list)
    <2>1. stack' = Tail(stack) /\ member' = member BY <1>2, <1>7
    <2>2. Held(Tail(stack), member, config) BY <1>1, <1>2, PopHeld DEF Top
    <2> QED BY <1>1, <1>2, <1>3, <1>7, <2>1, <2>2
  <1>8. CASE ~(next > Len(list))
    <2>1. next \in 1..Len(list) /\ m \in Members BY <1>3, <1>4, <1>8
    <2>2. CASE stack' = frames /\ member' = member
               /\ ~(Concerns(m, Top.setting) /\ ~Refuses(Top.setting, v))
      <3> HIDE DEF frames, v
      <3>1. Held(stack', member', config) /\ member' \in [Members -> MemberRecords]
        BY <1>1, <1>6, <2>2
      <3> QED BY <1>2, <1>3, <1>5, <2>1, <2>2, <3>1 DEF frames, v
    <2>3. CASE Take(m, Top.setting, v, frames)
      <3>1. stack' = frames \/ stack' = Slot \o frames BY <2>3 DEF Take
      <3> HIDE DEF frames, v, m
      <3>2. /\ Held(stack', member', config) /\ member' \in [Members -> MemberRecords]
            /\ HasValue(member, m, Top.setting, v, member[m].own \ {Top.setting}, member')
        BY <1>1, <1>3, <1>5, <1>6, <2>1, <2>3, TakeStep
      <3> QED BY <1>2, <1>3, <1>5, <2>1, <3>1, <3>2 DEF frames, v, m, HasValue
    <2> QED BY <1>2, <1>8, <2>2, <2>3
  <1> QED BY <1>7, <1>8

\* A member that joins is told the settings that concern it.
LEMMA OrdersAre ==
    ASSUME NEW m \in Members
    PROVE  OrderFor(m) \in Seq(Settings)
           /\ \A i \in 1..Len(OrderFor(m)) : /\ OrderFor(m)[i] \in Settings \ FileSettings
                                             /\ Concerns(m, OrderFor(m)[i])
  <1>1. CASE m \in Features
    <2>1. OrderFor(m) = FeatureOrder /\ FeatureOrder \in Seq(STRING) /\ m \notin ServiceObjects
      BY <1>1, ConfigurationAssumption DEF OrderFor
    <2>2. \A i \in 1..Len(FeatureOrder) : FeatureOrder[i] \in FeatureSettings
      BY <2>1 DEF FeatureSettings, ToSet
    <2>3. FeatureSettings \subseteq Settings \ FileSettings /\ "serviceSettings" \notin FeatureSettings
      BY ConfigurationAssumption DEF Settings
    <2>4. FeatureOrder \in Seq(Settings) BY <2>1, <2>2, <2>3
    <2> QED BY <2>1, <2>2, <2>3, <2>4 DEF Concerns
  <1>2. CASE m \notin Features
    <2>1. OrderFor(m) = <<"serviceSettings">> /\ m \in ServiceObjects
      BY <1>2 DEF OrderFor, Members
    <2>2. "serviceSettings" \in Settings \ FileSettings
      BY ConfigurationAssumption DEF Settings
    <2>3. /\ <<"serviceSettings">> \in Seq(Settings)
          /\ \A i \in 1..Len(<<"serviceSettings">>) : <<"serviceSettings">>[i] = "serviceSettings"
      BY <2>2
    <2> QED BY <2>1, <2>2, <2>3 DEF Concerns
  <1> QED BY <1>1, <1>2

\* A setting is applied to a member that has joined, or all of them have been.
LEMMA AddIs ==
    ASSUME Base, AddNext
    PROVE  /\ Top.op = "add" /\ Top.group \in Groups /\ Top.who \in Members
           /\ UNCHANGED <<known, group, config, registered, asserted>>
           /\ Held(stack', member', config) /\ member' \in [Members -> MemberRecords]
           /\ \A x \in Members : member'[x].id = member[x].id
           /\ \/ /\ Top.done + 1 > Len(OrderFor(Top.who))
                 /\ stack' = Tail(stack) /\ member' = member
              \/ /\ Top.done + 1 \in 1..Len(OrderFor(Top.who))
                 /\ LET s == OrderFor(Top.who)[Top.done + 1]
                        v == group[Top.group].value[s]
                        frames == <<[Top EXCEPT !.done = Top.done + 1]>> \o Tail(stack)
                    IN  /\ s \in Settings /\ v \in Values[s]
                        /\ \/ /\ ~(s \in group[Top.group].set /\ ~Refuses(s, v))
                              /\ stack' = frames /\ member' = member
                           \/ /\ stack' = frames \/ stack' = Slot \o frames
                              /\ HasValue(member, Top.who, s, v, member[Top.who].own \ {s}, member')
  <1> DEFINE order == OrderFor(Top.who)
             next == Top.done + 1
             s == order[next]
             v == group[Top.group].value[s]
             frames == <<[Top EXCEPT !.done = next]>> \o Tail(stack)
  <1>1. Held(stack, member, config) /\ group \in [Groups -> SettingsObjects]
        /\ member \in [Members -> MemberRecords]
    BY TypesAre DEF Base
  <1>2. /\ Top.op = "add"
        /\ \/ next > Len(order) /\ stack' = Tail(stack) /\ member' = member
           \/ /\ ~(next > Len(order))
              /\ \/ s \in group[Top.group].set /\ ~Refuses(s, v)
                    /\ Take(Top.who, s, v, frames)
                 \/ /\ ~(s \in group[Top.group].set /\ ~Refuses(s, v))
                    /\ stack' = frames /\ member' = member
        /\ UNCHANGED <<known, group, config, registered, asserted>>
    BY DEF AddNext
  <1>3. Top.group \in Groups /\ Top.who \in Members /\ Top.done \in Nat
    BY <1>1, <1>2, TopIs DEF FrameOK
  <1>4. order \in Seq(Settings) /\ group[Top.group].value \in Assignments
    BY <1>1, <1>3, OrdersAre DEF SettingsObjects
  <1>5. Held(frames, member, config)
    <2>1. next \in Nat /\ Head(stack).op # "slot" BY <1>2, <1>3 DEF Top
    <2> HIDE DEF next
    <2>2. Held(<<[Head(stack) EXCEPT !.done = next]>> \o Tail(stack), member, config)
      BY <1>1, <2>1, AdvanceHeld
    <2> QED BY <2>2 DEF Top
  <1>6. CASE next > Len(order)
    <2>1. stack' = Tail(stack) /\ member' = member BY <1>2, <1>6
    <2>2. Held(Tail(stack), member, config) BY <1>1, <1>2, PopHeld DEF Top
    <2> QED BY <1>1, <1>2, <1>3, <1>6, <2>1, <2>2
  <1>7. CASE ~(next > Len(order))
    <2>1. next \in 1..Len(order) /\ s \in Settings BY <1>3, <1>4, <1>7
    <2>2. v \in Values[s] BY <1>4, <2>1 DEF Assignments
    <2>3. CASE stack' = frames /\ member' = member
               /\ ~(s \in group[Top.group].set /\ ~Refuses(s, v))
      <3> HIDE DEF frames, v
      <3>1. Held(stack', member', config) /\ member' \in [Members -> MemberRecords]
        BY <1>1, <1>5, <2>3
      <3> QED BY <1>2, <1>3, <2>1, <2>2, <2>3, <3>1 DEF frames, v
    <2>4. CASE Take(Top.who, s, v, frames)
      <3>1. stack' = frames \/ stack' = Slot \o frames BY <2>4 DEF Take
      <3> HIDE DEF frames, v, s
      <3>2. /\ Held(stack', member', config) /\ member' \in [Members -> MemberRecords]
            /\ HasValue(member, Top.who, s, v, member[Top.who].own \ {s}, member')
        BY <1>1, <1>3, <1>5, <2>1, <2>2, <2>4, TakeStep
      <3> QED BY <1>2, <1>3, <2>1, <2>2, <3>1, <3>2 DEF frames, v, s, HasValue
    <2> QED BY <1>2, <1>7, <2>3, <2>4
  <1> QED BY <1>6, <1>7

\* A setter of a configuration or of a group
LEMMA SetKeepsBase ==
    ASSUME Base, NEW g \in Groups, NEW s \in Settings, NEW v \in Values[s], NEW frames,
           Set(g, s, v, frames), Held(frames, member, config')
    PROVE  /\ group' \in [Groups -> SettingsObjects] /\ Held(stack', member, config')
           /\ ListsOK(group', member)
  <1>1. group \in [Groups -> SettingsObjects] BY TypesAre DEF Base
  <1>2. /\ group' \in [Groups -> SettingsObjects] /\ Held(stack', member, config')
        /\ \A h \in Groups : group'[h].members = group[h].members
    BY <1>1, SetStep
  <1>3. ListsOK(group', member) BY <1>1, <1>2, ListsStay DEF Base
  <1> QED BY <1>2, <1>3

\* The steps of componentComplete() that copy the settings.
LEMMA CopyIs ==
    ASSUME Base, CopyNext
    PROVE  /\ Top.op = "complete"
           /\ UNCHANGED <<known, member, config, registered, asserted>>
           /\ \/ stack' = Tail(stack) /\ group' = group
              \/ /\ stack' = <<[Top EXCEPT !.done = Top.done + 1]>> \o Tail(stack)
                 /\ group' = group
              \/ \E g \in Groups, s \in Settings : \E frames : \E v \in Values[s] :
                   /\ Set(g, s, v, frames)
                   /\ Held(frames, member, config)
                   /\ \/ frames = <<[Top EXCEPT !.done = Top.done + 1]>> \o Tail(stack)
                      \/ frames = Slot \o (<<[Top EXCEPT !.done = Top.done + 1]>> \o Tail(stack))
                   /\ s = CopyOrder[Top.done + 1] /\ Top.done + 1 \in 1..Len(CopyOrder)
           /\ Held(stack', member, config) /\ group' \in [Groups -> SettingsObjects]
           /\ ListsOK(group', member)
  <1> DEFINE next == Top.done + 1
             s == CopyOrder[next]
             g == config[Top.who].settings
             v == config[Top.who].temp[s]
             frames == <<[Top EXCEPT !.done = next]>> \o Tail(stack)
             pushed == IF s \in group[g].override THEN frames ELSE Slot \o frames
  <1>1. /\ Held(stack, member, config) /\ group \in [Groups -> SettingsObjects]
        /\ config \in [Configs -> ConfigRecords] /\ ListsOK(group, member)
    BY TypesAre DEF Base
  <1>2. /\ Top.op = "complete"
        /\ UNCHANGED <<known, member, config, registered, asserted>>
        /\ \/ stack' = Tail(stack) /\ group' = group
           \/ stack' = frames /\ group' = group
           \/ ~(next > Len(CopyOrder)) /\ Set(g, s, v, pushed)
    BY DEF CopyNext
  <1>3. Top.who \in Configs /\ g \in Groups /\ Top.done \in Nat
    BY <1>1, <1>2, TopIs DEF FrameOK
  <1>4. Held(frames, member, config)
    <2>1. next \in Nat /\ Head(stack).op # "slot" BY <1>2, <1>3 DEF Top
    <2> HIDE DEF next
    <2>2. Held(<<[Head(stack) EXCEPT !.done = next]>> \o Tail(stack), member, config)
      BY <1>1, <2>1, AdvanceHeld
    <2> QED BY <2>2 DEF Top
  <1>5. CASE stack' = Tail(stack) /\ group' = group
    <2>1. Held(Tail(stack), member, config) BY <1>1, <1>2, PopHeld DEF Top
    <2> QED BY <1>1, <1>2, <1>5, <2>1
  <1>6. CASE stack' = frames /\ group' = group
    <2> HIDE DEF frames
    <2>1. Held(stack', member, config) BY <1>4, <1>6
    <2> QED BY <1>1, <1>2, <1>6, <2>1 DEF frames
  <1>7. CASE ~(next > Len(CopyOrder)) /\ Set(g, s, v, pushed)
    <2>1. next \in 1..Len(CopyOrder) BY <1>3, <1>7, CopiesSettings
    <2>2. s \in Settings BY <2>1, CopiesSettings
    <2>3. v \in Values[s] BY <1>1, <1>3, <2>2 DEF ConfigRecords, Assignments
    <2>4. Held(Slot \o frames, member, config) BY <1>4, SlotHeld
    <2> HIDE DEF frames, s, v, g
    <2>5. Held(pushed, member, config) /\ (pushed = frames \/ pushed = Slot \o frames)
      BY <1>4, <2>4
    <2> HIDE DEF pushed
    <2>6. Held(pushed, member, config') BY <1>2, <2>5
    <2>7. /\ group' \in [Groups -> SettingsObjects] /\ Held(stack', member, config')
          /\ ListsOK(group', member)
      BY <1>3, <1>7, <2>2, <2>3, <2>6, SetKeepsBase
    <2>8. \E h \in Groups, t \in Settings : \E q : \E w \in Values[t] :
            Set(h, t, w, q) /\ Held(q, member, config)
              /\ (q = frames \/ q = Slot \o frames) /\ t = s /\ next \in 1..Len(CopyOrder)
      BY <1>3, <1>7, <2>1, <2>2, <2>3, <2>5
    <2>9. Held(stack', member, config) BY <1>2, <2>7
    <2> QED BY <1>2, <2>7, <2>8, <2>9 DEF frames, s
  <1> QED BY <1>2, <1>5, <1>6, <1>7

\* The id of one member changes, and it is in no call under way.
LEMMA LeavesHeld ==
    ASSUME Base, NEW m \in Members, ~Joining(m), NEW N,
           \A x \in Members : x # m => N[x] = member[x]
    PROVE  Held(stack, N, config)
  <1>1. Held(stack, member, config) BY DEF Base
  <1>2. \A k \in 1..Len(stack) : ~(stack[k].op = "add" /\ stack[k].who = m)
    BY <1>1, TopIs DEF Joining
  <1> QED BY <1>1, <1>2, MembersHeld

\* Every step keeps the types.
LEMMA StepKeepsBase == Base /\ [Next]_vars => Base'
  <1> SUFFICES ASSUME Base, [Next]_vars PROVE Base' OBVIOUS
  <1> USE DEF Base
  <1> DEFINE Kept6 == /\ known' \subseteq Groups
                      /\ group' \in [Groups -> SettingsObjects]
                      /\ member' \in [Members -> MemberRecords]
                      /\ config' \in [Configs -> ConfigRecords]
                      /\ registered' \in [Groups -> Configs \cup {None}]
                      /\ asserted' \in BOOLEAN
  <1>1. /\ known \subseteq Groups
        /\ group \in [Groups -> SettingsObjects]
        /\ member \in [Members -> MemberRecords]
        /\ config \in [Configs -> ConfigRecords]
        /\ registered \in [Groups -> Configs \cup {None}]
        /\ asserted \in BOOLEAN
        /\ Held(stack, member, config) /\ ListsOK(group, member)
    BY TypesAre
  <1>2. TypeOK' <=> Kept6 BY DEF TypeOK, MemberRecords, ConfigRecords
  <1> SUFFICES Kept6 /\ Held(stack', member', config') /\ ListsOK(group', member')
    BY <1>2
  <1>3. CASE UNCHANGED vars
    BY <1>1, <1>3 DEF vars
  <1>4. CASE Return
    <2>1. /\ stack' = Tail(stack) /\ Tail(stack) # <<>>
          /\ UNCHANGED <<known, group, member, config, registered, asserted>>
      BY <1>4 DEF Return, AtRest
    <2>2. Held(Tail(stack), member, config) BY <1>1, <2>1, PopHeld
    <2> QED BY <1>1, <2>1, <2>2
  <1>5. CASE ApplyNext
    <2>1. ListsOK(group', member') BY <1>1, <1>5, ApplyIs, ListsStay
    <2> QED BY <1>1, <1>5, <2>1, ApplyIs
  <1>6. CASE AddNext
    <2>1. ListsOK(group', member') BY <1>1, <1>6, AddIs, ListsStay
    <2> QED BY <1>1, <1>6, <2>1, AddIs
  <1>7. CASE CopyNext
    BY <1>1, <1>7, CopyIs
  <1>8. ASSUME NEW f \in Features, ClassBegin(f) PROVE Kept6 /\ Held(stack', member', config') /\ ListsOK(group', member')
    <2>1. /\ member' = [member EXCEPT ![f].qml = TRUE] /\ f \in Members
          /\ UNCHANGED <<known, group, stack, config, registered, asserted>>
      BY <1>8 DEF ClassBegin, Members
    <2>2. member' \in [Members -> MemberRecords] BY <1>1, <2>1 DEF MemberRecords
    <2>3. \A x \in Members : member'[x].id = member[x].id BY <1>1, <2>1 DEF MemberRecords
    <2>4. Held(stack, member', config) BY <1>1, <2>3, MembersHeld
    <2>5. ListsOK(group, member') BY <1>1, <2>3, ListsStay
    <2> QED BY <1>1, <2>1, <2>2, <2>4, <2>5
  <1>9. ASSUME NEW f \in Features, ComponentComplete(f) PROVE Kept6 /\ Held(stack', member', config') /\ ListsOK(group', member')
    <2>1. /\ member' = [member EXCEPT ![f].qml = FALSE, ![f].own = {}] /\ f \in Members
          /\ UNCHANGED <<config, registered, asserted>>
          /\ \/ UNCHANGED <<known, group, stack>>
             \/ member[f].id # None /\ Add(member[f].id, f)
      BY <1>9 DEF ComponentComplete, Members
    <2>2. member' \in [Members -> MemberRecords] BY <1>1, <2>1 DEF MemberRecords
    <2>3. \A x \in Members : member'[x].id = member[x].id BY <1>1, <2>1 DEF MemberRecords
    <2>4. Held(stack, member', config) BY <1>1, <2>3, MembersHeld
    <2>5. ListsOK(group, member') BY <1>1, <2>3, ListsStay
    <2>6. CASE UNCHANGED <<known, group, stack>>
      BY <1>1, <2>1, <2>2, <2>4, <2>5, <2>6
    <2>7. CASE member[f].id # None /\ Add(member[f].id, f)
      <3>1. member[f].id \in Groups BY <1>1, <2>1, <2>7 DEF MemberRecords
      <3>2. /\ group' \in [Groups -> SettingsObjects] /\ ListsOK(group', member')
            /\ Held(stack', member', config) /\ known' \subseteq Groups
        BY <1>1, <2>1, <2>3, <2>4, <2>5, <2>7, <3>1, AddStep
      <3> QED BY <1>1, <2>1, <2>2, <3>2
    <2> QED BY <2>1, <2>6, <2>7
  <1>10. ASSUME NEW f \in Features, NEW g \in Groups, SetConfigurationId(f, g)
         PROVE Kept6 /\ Held(stack', member', config') /\ ListsOK(group', member')
    <2> DEFINE left == Removed(member[f].id, f)
    <2>1. /\ member' = [member EXCEPT ![f].id = g, ![f].own = {}] /\ f \in Members
          /\ UNCHANGED <<config, registered>> /\ asserted' = LeavesExisting(f)
          /\ ~Joining(f)
          /\ \/ group' = left /\ UNCHANGED <<known, stack>>
             \/ /\ known' = known \cup {g}
                /\ group' = [left EXCEPT ![g].members = Append(@, f)]
                /\ stack' = <<Frame("add", g, "", f, Default)>> \o stack
      BY <1>10 DEF SetConfigurationId, Members
    <2>2. member' \in [Members -> MemberRecords] BY <1>1, <2>1 DEF MemberRecords
    <2>3. /\ member'[f].id = g /\ \A x \in Members : x # f => member'[x] = member[x]
      BY <1>1, <2>1 DEF MemberRecords
    <2>4. Held(stack, member', config) BY <2>1, <2>3, LeavesHeld
    <2>5. ListsOK(left, member') BY <1>1, <2>1, <2>3, RemovedStep
    <2>6. left \in [Groups -> SettingsObjects]
      <3>1. member[f].id \in Groups \cup {None} BY <1>1, <2>1 DEF MemberRecords
      <3>2. Loses(group, member[f].id, f, left) BY <1>1, <2>1, <3>1, RemovedIs
      <3> QED BY <3>2 DEF Loses
    <2>7. asserted' \in BOOLEAN
      <3>1. asserted' = LeavesExisting(f) BY <2>1
      <3> QED BY <3>1 DEF LeavesExisting
    <2> HIDE DEF left
    <2>8. CASE group' = left /\ UNCHANGED <<known, stack>>
      BY <1>1, <2>1, <2>2, <2>4, <2>5, <2>6, <2>7, <2>8
    <2>9. CASE /\ known' = known \cup {g}
               /\ group' = [left EXCEPT ![g].members = Append(@, f)]
               /\ stack' = <<Frame("add", g, "", f, Default)>> \o stack
      <3>1. /\ GetsMembers(left, g, Append(left[g].members, f), group')
            /\ ListsOK(group', member')
        <4>1. group' = [left EXCEPT ![g].members = Append(@, f)] BY <2>9
        <4>2. member'[f].id = g /\ f \in Members BY <2>1, <2>3
        <4> QED BY <4>1, <4>2, <2>5, <2>6, Joined
      <3> DEFINE x == Frame("add", g, "", f, Default)
      <3>2. x \in Frames /\ FrameOK(x, member', config) BY <2>1, <2>3, FrameTypes
      <3>3. stack' = <<x>> \o stack BY <2>9
      <3> HIDE DEF x
      <3>4. Held(stack', member', config) BY <2>4, <3>2, <3>3, PushHeld
      <3> QED BY <1>1, <2>1, <2>2, <2>7, <2>9, <3>1, <3>4 DEF GetsMembers
    <2> QED BY <2>1, <2>8, <2>9
  <1>11. ASSUME NEW f \in Features, NEW s \in FeatureSettings, NEW v \in Values[s],
                SetDirectly(f, s, v)
         PROVE Kept6 /\ Held(stack', member', config') /\ ListsOK(group', member')
    <2> DEFINE D == member[f].own \cup {s}
    <2>1. /\ member' = [member EXCEPT ![f].value[s] = v, ![f].own = @ \cup {s}]
          /\ f \in Members /\ s \in Settings /\ stack' = Slot \o stack
          /\ UNCHANGED <<known, group, config, registered, asserted>>
      BY <1>11 DEF SetDirectly, Members, Settings
    <2>2. D \in SUBSET Settings BY <1>1, <2>1 DEF MemberRecords
    <2>3. member' = [member EXCEPT ![f].value[s] = v, ![f].own = D]
      BY <1>1, <2>1 DEF MemberRecords
    <2> HIDE DEF D
    <2>4. HasValue(member, f, s, v, D, member') BY <1>1, <2>1, <2>2, <2>3, MemberTakes
    <2>5. \A x \in Members : member'[x].id = member[x].id BY <2>4 DEF HasValue
    <2>6. Held(stack, member', config) BY <1>1, <2>5, MembersHeld
    <2>7. Held(stack', member', config) BY <2>1, <2>6, SlotHeld
    <2>8. ListsOK(group, member') BY <1>1, <2>5, ListsStay
    <2> QED BY <1>1, <2>1, <2>4, <2>7, <2>8 DEF HasValue
  <1>12. ASSUME NEW m \in Members, Destroy(m)
         PROVE Kept6 /\ Held(stack', member', config') /\ ListsOK(group', member')
    <2> DEFINE left == Removed(member[m].id, m)
    <2>1. /\ member' = [member EXCEPT ![m] = NewMember]
          /\ UNCHANGED <<known, config, registered, stack>> /\ asserted' = LeavesExisting(m)
          /\ ~Joining(m) /\ group' = left
      BY <1>12 DEF Destroy
    <2>2. NewMember \in MemberRecords
      <3>1. Initial = [s \in Settings |-> Initial[s]] /\ \A s \in Settings : Initial[s] \in Values[s]
        BY ConfigurationAssumption
      <3>2. Initial \in Assignments BY <3>1 DEF Assignments
      <3> QED BY <3>2 DEF NewMember, MemberRecords
    <2> HIDE DEF left
    <2>3. member' \in [Members -> MemberRecords] BY <1>1, <2>1, <2>2
    <2>4. \A x \in Members : x # m => member'[x] = member[x] BY <1>1, <2>1
    <2>5. Held(stack, member', config) BY <2>1, <2>4, LeavesHeld
    <2>6. ListsOK(left, member') BY <1>1, <2>4, RemovedStep DEF left
    <2>7. left \in [Groups -> SettingsObjects]
      <3>1. member[m].id \in Groups \cup {None} BY <1>1 DEF MemberRecords
      <3>2. Loses(group, member[m].id, m, left) BY <1>1, <3>1, RemovedIs DEF left
      <3> QED BY <3>2 DEF Loses
    <2>8. asserted' \in BOOLEAN BY <2>1 DEF LeavesExisting
    <2> QED BY <1>1, <2>1, <2>3, <2>5, <2>6, <2>7, <2>8
  <1>13. ASSUME NEW o \in ServiceObjects, AddServiceObject(o)
         PROVE Kept6 /\ Held(stack', member', config') /\ ListsOK(group', member')
    <2> DEFINE g == GroupOf[o]
    <2>1. /\ member' = [member EXCEPT ![o].id = g] /\ o \in Members /\ g \in Groups
          /\ UNCHANGED <<config, registered, asserted>> /\ Add(g, o)
          /\ member[o].id = None
      BY <1>13, ConfigurationAssumption DEF AddServiceObject, Members
    <2> HIDE DEF g
    <2>2. member' \in [Members -> MemberRecords] BY <1>1, <2>1 DEF MemberRecords
    <2>3. /\ member'[o].id = g /\ \A x \in Members : x # o => member'[x] = member[x]
      BY <1>1, <2>1 DEF MemberRecords
    <2>4. ~Joining(o)
      <3>1. \A k \in 1..Len(stack) : FrameOK(stack[k], member, config) BY <1>1 DEF Held
      <3>2. DOMAIN stack = 1..Len(stack) BY <1>1, TopIs
      <3> QED BY <2>1, <3>1, <3>2, ConfigurationAssumption DEF Joining, FrameOK
    <2>5. Held(stack, member', config) BY <2>1, <2>3, <2>4, LeavesHeld
    <2>6. ListsOK(group, member')
      <3>1. Removed(member[o].id, o) = group BY <2>1 DEF Removed
      <3>2. ListsOK(Removed(member[o].id, o), member') BY <1>1, <2>1, <2>3, RemovedStep
      <3> QED BY <3>1, <3>2
    <2>7. /\ group' \in [Groups -> SettingsObjects] /\ ListsOK(group', member')
          /\ Held(stack', member', config) /\ known' \subseteq Groups
      BY <1>1, <2>1, <2>3, <2>5, <2>6, AddStep
    <2> QED BY <1>1, <2>1, <2>2, <2>7
  <1>14. ASSUME NEW g \in Groups, NEW s \in Settings, NEW v \in Values[s], SetOfGroup(g, s, v)
         PROVE Kept6 /\ Held(stack', member', config') /\ ListsOK(group', member')
    <2>1. /\ known' = known \cup {g} /\ Set(g, s, v, stack)
          /\ UNCHANGED <<member, config, registered, asserted>>
      BY <1>14 DEF SetOfGroup
    <2>2. Held(stack, member, config') BY <1>1, <2>1
    <2>3. /\ group' \in [Groups -> SettingsObjects] /\ Held(stack', member, config')
          /\ ListsOK(group', member)
      BY <2>1, <2>2, SetKeepsBase
    <2> QED BY <1>1, <2>1, <2>3
  <1>15. ASSUME NEW c \in Configs, NEW s \in Settings, NEW v \in Values[s],
                SetOfConfiguration(c, s, v)
         PROVE Kept6 /\ Held(stack', member', config') /\ ListsOK(group', member')
    <2> DEFINE g == config[c].settings
               frames == IF s \in group[g].override THEN stack ELSE Slot \o stack
    <2>1. /\ UNCHANGED <<known, member, registered, asserted>>
          /\ \/ /\ config[c].state = "creating"
                /\ config' = [config EXCEPT ![c].temp[s] = v]
                /\ stack' = Slot \o stack /\ group' = group
             \/ /\ g # None /\ Set(g, s, v, frames) /\ config' = config
      BY <1>15 DEF SetOfConfiguration
    <2>2. Held(Slot \o stack, member, config) BY <1>1, SlotHeld
    <2>3. CASE /\ config[c].state = "creating"
               /\ config' = [config EXCEPT ![c].temp[s] = v]
               /\ stack' = Slot \o stack /\ group' = group
      <3> DEFINE a == [config[c].temp EXCEPT ![s] = v]
      <3>1. config[c] \in ConfigRecords /\ config[c].temp \in Assignments
        BY <1>1 DEF ConfigRecords
      <3>2. a \in Assignments BY <3>1, OneAssigned
      <3>3. config' = [config EXCEPT ![c] = [config[c] EXCEPT !.temp = a]] BY <2>3
      <3> HIDE DEF a
      <3>4. [config[c] EXCEPT !.temp = a] \in ConfigRecords BY <3>1, <3>2 DEF ConfigRecords
      <3>5. config' \in [Configs -> ConfigRecords] BY <1>1, <3>3, <3>4
      <3>6. \A x \in Configs : config'[x].settings = config[x].settings
                               /\ config'[x].state = config[x].state
        BY <1>1, <3>1, <3>3 DEF ConfigRecords
      <3>7. Held(stack', member, config') BY <2>2, <2>3, <3>6, ConfigsHeld
      <3> QED BY <1>1, <2>1, <2>3, <3>5, <3>7
    <2>4. CASE g # None /\ Set(g, s, v, frames) /\ config' = config
      <3>1. g \in Groups BY <1>1, <2>4 DEF ConfigRecords
      <3> HIDE DEF g
      <3>2. Held(frames, member, config') BY <1>1, <2>2, <2>4
      <3> HIDE DEF frames
      <3>3. /\ group' \in [Groups -> SettingsObjects] /\ Held(stack', member, config')
            /\ ListsOK(group', member)
        BY <2>4, <3>1, <3>2, SetKeepsBase
      <3> QED BY <1>1, <2>1, <2>4, <3>3
    <2> QED BY <2>1, <2>3, <2>4
  <1>16. ASSUME NEW c \in Configs, NEW g \in Groups, SetName(c, g)
         PROVE Kept6 /\ Held(stack', member', config') /\ ListsOK(group', member')
    <2>1. /\ UNCHANGED <<group, member, asserted>> /\ stack' = Slot \o stack
          /\ \/ /\ config[c].state = "creating"
                /\ config' = [config EXCEPT ![c].name = g]
                /\ UNCHANGED <<known, registered>>
             \/ /\ config[c].settings = None
                /\ config' = [config EXCEPT ![c].state = "created", ![c].name = g, ![c].settings = g]
                /\ registered' = [registered EXCEPT ![g] = c]
                /\ known' = known \cup {g}
      BY <1>16 DEF SetName
    <2> DEFINE r == [config[c] EXCEPT !.name = g]
               q == [[[config[c] EXCEPT !.state = "created"] EXCEPT !.name = g] EXCEPT !.settings = g]
    <2>7. config[c] \in ConfigRecords BY <1>1
    <2>8. r \in ConfigRecords /\ r.settings = config[c].settings /\ r.state = config[c].state
          /\ q \in ConfigRecords
      BY <2>7 DEF ConfigRecords
    <2>9. \/ config' = [config EXCEPT ![c] = r]
          \/ config' = [config EXCEPT ![c] = q] /\ config[c].settings = None
      BY <2>1
    <2> HIDE DEF r, q
    <2>2. config' \in [Configs -> ConfigRecords] BY <1>1, <2>8, <2>9
    <2>3. known' \subseteq Groups /\ registered' \in [Groups -> Configs \cup {None}]
      BY <1>1, <2>1
    <2>4. \A x \in Configs : \/ config'[x].settings = config[x].settings
                                /\ config'[x].state = config[x].state
                             \/ config[x].settings \notin Groups
      <3>1. None \notin Groups BY ConfigurationAssumption
      <3> QED BY <1>1, <2>8, <2>9, <3>1
    <2>5. Held(stack, member, config') BY <1>1, <2>4, ConfigsHeld
    <2>6. Held(stack', member, config') BY <2>1, <2>5, SlotHeld
    <2> QED BY <1>1, <2>1, <2>2, <2>3, <2>6
  <1>17. ASSUME NEW c \in Configs, ConfigurationClassBegin(c)
         PROVE Kept6 /\ Held(stack', member', config') /\ ListsOK(group', member')
    <2>1. /\ UNCHANGED <<known, group, member, registered, stack, asserted>>
          /\ config[c].state = "none" /\ config' = [config EXCEPT ![c].state = "creating"]
      BY <1>17 DEF ConfigurationClassBegin
    <2>2. config' \in [Configs -> ConfigRecords] BY <1>1, <2>1 DEF ConfigRecords
    <2>3. \A x \in Configs : \/ config'[x].settings = config[x].settings
                                /\ config'[x].state = config[x].state
                             \/ config[x].state # "created"
      BY <1>1, <2>1 DEF ConfigRecords
    <2>4. Held(stack, member, config') BY <1>1, <2>3, ConfigsHeld
    <2> QED BY <1>1, <2>1, <2>2, <2>4
  <1>18. ASSUME NEW c \in Configs, ConfigurationComplete(c)
         PROVE Kept6 /\ Held(stack', member', config') /\ ListsOK(group', member')
    <2>1. /\ UNCHANGED <<group, member, asserted>> /\ config[c].state = "creating"
          /\ \/ /\ Registers(c, config[c].name)
                /\ config' = [config EXCEPT ![c].state = "created", ![c].settings = config[c].name]
                /\ registered' = [registered EXCEPT ![config[c].name] = c]
                /\ known' = known \cup {config[c].name}
                /\ stack' = Slot \o <<Frame("complete", None, "", c, Default)>> \o stack
             \/ /\ config' = [config EXCEPT ![c].state = "created"]
                /\ UNCHANGED <<registered, known, stack>>
      BY <1>18 DEF ConfigurationComplete
    <2> DEFINE r == [config[c] EXCEPT !.state = "created"]
               q == [[config[c] EXCEPT !.state = "created"] EXCEPT !.settings = config[c].name]
    <2>7. config[c] \in ConfigRecords BY <1>1
    <2>8. r \in ConfigRecords /\ q \in ConfigRecords BY <2>7 DEF ConfigRecords
    <2>9. config' = [config EXCEPT ![c] = r] \/ config' = [config EXCEPT ![c] = q] BY <2>1
    <2> HIDE DEF r, q
    <2>2. config' \in [Configs -> ConfigRecords] BY <1>1, <2>8, <2>9
    <2>3. known' \subseteq Groups /\ registered' \in [Groups -> Configs \cup {None}]
      BY <1>1, <2>1 DEF ConfigRecords, Registers
    <2>4. \A x \in Configs : \/ config'[x].settings = config[x].settings
                                /\ config'[x].state = config[x].state
                             \/ config[x].state # "created"
      BY <1>1, <2>1 DEF ConfigRecords
    <2>5. Held(stack, member, config') BY <1>1, <2>4, ConfigsHeld
    <2>6. Held(stack', member, config')
      <3>1. CASE stack' = stack BY <2>5, <3>1
      <3>2. CASE /\ Registers(c, config[c].name)
                 /\ config' = [config EXCEPT ![c].state = "created", ![c].settings = config[c].name]
                 /\ stack' = Slot \o <<Frame("complete", None, "", c, Default)>> \o stack
        <4> DEFINE x == Frame("complete", None, "", c, Default)
        <4>1. config'[c].settings \in Groups /\ config'[c].state = "created"
          BY <1>1, <3>2 DEF ConfigRecords, Registers
        <4>2. x \in Frames /\ FrameOK(x, member, config') BY <4>1, FrameTypes
        <4>3. stack' = (Slot \o <<x>>) \o stack BY <3>2
        <4> HIDE DEF x
        <4>4. Held(<<x>> \o stack, member, config') BY <2>5, <4>2, PushHeld
        <4>5. Held(Slot \o (<<x>> \o stack), member, config') BY <4>4, SlotHeld
        <4>6. (Slot \o <<x>>) \o stack = Slot \o (<<x>> \o stack)
          <5>1. stack \in Seq(Frames) /\ <<x>> \in Seq(Frames) BY <1>1, <4>2 DEF Held
          <5>2. Slot \in Seq(Frames)
            <6> DEFINE y == Slot[1]
            <6>1. y \in Frames /\ Slot = <<y>> BY FrameTypes
            <6> HIDE DEF y
            <6> QED BY <6>1
          <5>3. \A u, w, z \in Seq(Frames) : (u \o w) \o z = u \o (w \o z)
            BY ConcatAssociative
          <5> HIDE DEF x
          <5> QED BY <5>1, <5>2, <5>3, Zenon
        <4> QED BY <4>3, <4>5, <4>6
      <3> QED BY <2>1, <3>1, <3>2
    <2> QED BY <1>1, <2>1, <2>2, <2>3, <2>6
  <1>19. ASSUME NEW c \in Configs, DestroyConfiguration(c)
         PROVE Kept6 /\ Held(stack', member', config') /\ ListsOK(group', member')
    <2>1. /\ UNCHANGED <<known, group, member, stack, asserted>>
          /\ \A i \in DOMAIN stack : stack[i].who # c
          /\ config' = [config EXCEPT ![c] = NewConfig] /\ registered' = Unregistered(c)
      BY <1>19 DEF DestroyConfiguration
    <2>2. NewConfig \in ConfigRecords
      <3>1. [s \in Settings |-> Default] \in Assignments
        BY ConfigurationAssumption DEF Assignments
      <3> QED BY <3>1 DEF NewConfig, ConfigRecords
    <2>3. config' \in [Configs -> ConfigRecords] BY <1>1, <2>1, <2>2
    <2>4. registered' \in [Groups -> Configs \cup {None}] BY <1>1, <2>1 DEF Unregistered
    <2>5. \A x \in Configs : \/ config'[x] = config[x]
                             \/ \A k \in 1..Len(stack) : stack[k].who # x
      BY <1>1, <2>1, TopIs
    <2>6. Held(stack, member, config') BY <1>1, <2>5, ConfigsHeld
    <2> QED BY <1>1, <2>1, <2>3, <2>4, <2>6
  <1> QED
    BY <1>3, <1>4, <1>5, <1>6, <1>7, <1>8, <1>9, <1>10, <1>11, <1>12, <1>13, <1>14, <1>15,
       <1>16, <1>17, <1>18, <1>19 DEF Next

-----------------------------------------------------------------------------
(* What the members of a group are owed *)

\* Setting s of group g is set, and concerns its member m.
Duty(m, g, s, G, M) ==
    /\ \E i \in 1..Len(G[g].members) : G[g].members[i] = m
    /\ s \in G[g].set /\ Concerns(m, s) /\ s \notin FileSettings /\ s \notin M[m].own

Agrees(m, g, s, G, M) == M[m].value[s] = G[g].value[s] \/ Refuses(s, G[g].value[s])

\* Call f has not come to setting s of member m of group g yet.
Covers(f, m, g, s, G) ==
    /\ f.group = g
    /\ \/ /\ f.op = "set" /\ f.setting = s
          /\ \E j \in 1..Len(G[g].members) : f.done < j /\ G[g].members[j] = m
       \/ /\ f.op = "add" /\ f.who = m
          /\ \E j \in 1..Len(OrderFor(m)) : f.done < j /\ OrderFor(m)[j] = s

Owed(m, g, s, q, G) == \E k \in 1..Len(q) : Covers(q[k], m, g, s, G)

AgreeAll(G, M, q) ==
    \A g \in Groups : \A m \in Members : \A s \in Settings :
        Duty(m, g, s, G, M) => Agrees(m, g, s, G, M) \/ Owed(m, g, s, q, G)

\* The setters of serviceSettings pass on the value that the group has.
ServiceOK(q, G) == \A k \in 1..Len(q) :
    q[k].op = "set" /\ q[k].setting = "serviceSettings" =>
        q[k].value = G[q[k].group].value["serviceSettings"]

\* A configuration that is about to pass serviceSettings on interrupts no setter of these.
CompleteOK(q) == \A k \in 1..Len(q) :
    q[k].op = "complete" /\ q[k].done = 0 =>
        \A j \in 1..Len(q) : k < j => q[j].setting # "serviceSettings"

AgreeInv == AgreeAll(group, member, stack) /\ ServiceOK(stack, group) /\ CompleteOK(stack)

\* A call on top of others
LEMMA OwedOn ==
    ASSUME NEW q \in Seq(Frames), NEW x \in Frames, NEW G, NEW m, NEW g, NEW s
    PROVE  Owed(m, g, s, <<x>> \o q, G) <=> Covers(x, m, g, s, G) \/ Owed(m, g, s, q, G)
  <1> DEFINE p == <<x>> \o q
  <1>1. /\ Len(p) = Len(q) + 1 /\ Len(q) \in Nat /\ p[1] = x
        /\ \A k \in 1..Len(q) : p[k + 1] = q[k]
        /\ \A k \in 1..(Len(q) + 1) : k = 1 \/ k - 1 \in 1..Len(q)
    BY Pushed
  <1> HIDE DEF p
  <1>2. ASSUME Owed(m, g, s, p, G) PROVE Covers(x, m, g, s, G) \/ Owed(m, g, s, q, G)
    <2>1. PICK k \in 1..Len(p) : Covers(p[k], m, g, s, G) BY <1>2 DEF Owed
    <2>2. CASE k = 1 BY <1>1, <2>1, <2>2
    <2>3. CASE k - 1 \in 1..Len(q)
      <3>1. p[(k - 1) + 1] = q[k - 1] /\ (k - 1) + 1 = k BY <1>1, <2>3
      <3>2. Covers(q[k - 1], m, g, s, G) BY <2>1, <3>1
      <3> QED BY <2>3, <3>2 DEF Owed
    <2> QED BY <1>1, <2>1, <2>2, <2>3
  <1>3. ASSUME Covers(x, m, g, s, G) PROVE Owed(m, g, s, p, G)
    <2>1. 1 \in 1..Len(p) BY <1>1
    <2> QED BY <1>1, <1>3, <2>1 DEF Owed
  <1>4. ASSUME Owed(m, g, s, q, G) PROVE Owed(m, g, s, p, G)
    <2>1. PICK k \in 1..Len(q) : Covers(q[k], m, g, s, G) BY <1>4 DEF Owed
    <2>2. k + 1 \in 1..Len(p) /\ p[k + 1] = q[k] BY <1>1
    <2> QED BY <2>1, <2>2 DEF Owed
  <1> QED BY <1>2, <1>3, <1>4 DEF p

\* The condition on rounds of service settings for a stack with one frame more.
LEMMA ServiceOn ==
    ASSUME NEW q \in Seq(Frames), NEW x \in Frames, NEW G
    PROVE  ServiceOK(<<x>> \o q, G) <=>
             /\ x.op = "set" /\ x.setting = "serviceSettings" =>
                  x.value = G[x.group].value["serviceSettings"]
             /\ ServiceOK(q, G)
  <1> DEFINE p == <<x>> \o q
             P(f) == f.op = "set" /\ f.setting = "serviceSettings" =>
                        f.value = G[f.group].value["serviceSettings"]
  <1>1. /\ Len(p) = Len(q) + 1 /\ Len(q) \in Nat /\ p[1] = x
        /\ \A k \in 1..Len(q) : p[k + 1] = q[k]
        /\ \A k \in 1..(Len(q) + 1) : k = 1 \/ k - 1 \in 1..Len(q)
    BY Pushed
  <1> HIDE DEF p, P
  <1>2. ASSUME P(x), \A k \in 1..Len(q) : P(q[k]) PROVE \A k \in 1..Len(p) : P(p[k])
    <2> TAKE k \in 1..Len(p)
    <2>1. CASE k = 1 BY <1>1, <1>2, <2>1
    <2>2. CASE k - 1 \in 1..Len(q)
      <3>1. p[(k - 1) + 1] = q[k - 1] /\ (k - 1) + 1 = k BY <1>1, <2>2
      <3> QED BY <1>2, <2>2, <3>1
    <2> QED BY <1>1, <2>1, <2>2
  <1>3. ASSUME \A k \in 1..Len(p) : P(p[k]) PROVE P(x) /\ \A k \in 1..Len(q) : P(q[k])
    <2>1. 1 \in 1..Len(p) /\ \A k \in 1..Len(q) : k + 1 \in 1..Len(p) BY <1>1
    <2> QED BY <1>1, <1>3, <2>1
  <1>4. P(x) /\ (\A k \in 1..Len(q) : P(q[k])) <=> \A k \in 1..Len(p) : P(p[k])
    BY <1>2, <1>3
  <1> QED BY <1>4 DEF p, P, ServiceOK

\* The condition on configurations that complete for a stack with one frame more.
LEMMA CompleteOn ==
    ASSUME NEW q \in Seq(Frames), NEW x \in Frames
    PROVE  CompleteOK(<<x>> \o q) <=>
             /\ x.op = "complete" /\ x.done = 0 =>
                  \A j \in 1..Len(q) : q[j].setting # "serviceSettings"
             /\ CompleteOK(q)
  <1> DEFINE p == <<x>> \o q
  <1>1. /\ Len(p) = Len(q) + 1 /\ Len(q) \in Nat /\ p[1] = x
        /\ \A k \in 1..Len(q) : p[k + 1] = q[k]
        /\ \A k \in 1..(Len(q) + 1) : k = 1 \/ k - 1 \in 1..Len(q)
    BY Pushed
  <1> HIDE DEF p
  <1>2. ASSUME CompleteOK(q), x.op = "complete" /\ x.done = 0 =>
                  \A j \in 1..Len(q) : q[j].setting # "serviceSettings"
        PROVE  CompleteOK(p)
    <2>1. ASSUME NEW k \in 1..Len(p), p[k].op = "complete", p[k].done = 0,
                 NEW j \in 1..Len(p), k < j
          PROVE  p[j].setting # "serviceSettings"
      <3>1. j - 1 \in 1..Len(q) /\ p[(j - 1) + 1] = q[j - 1] /\ (j - 1) + 1 = j BY <1>1, <2>1
      <3>2. p[j] = q[j - 1] BY <3>1
      <3>3. CASE k = 1 BY <1>1, <1>2, <2>1, <3>1, <3>2, <3>3
      <3>4. CASE k # 1
        <4>1. k - 1 \in 1..Len(q) /\ p[(k - 1) + 1] = q[k - 1] /\ (k - 1) + 1 = k
          BY <1>1, <3>4
        <4>2. q[k - 1].op = "complete" /\ q[k - 1].done = 0 /\ k - 1 < j - 1 BY <2>1, <4>1
        <4>3. q[j - 1].setting # "serviceSettings" BY <1>2, <3>1, <4>1, <4>2 DEF CompleteOK
        <4> QED BY <3>2, <4>3
      <3> QED BY <3>3, <3>4
    <2> QED BY <2>1 DEF CompleteOK
  <1>3. ASSUME CompleteOK(p)
        PROVE  CompleteOK(q) /\ (x.op = "complete" /\ x.done = 0 =>
                  \A j \in 1..Len(q) : q[j].setting # "serviceSettings")
    <2>1. \A k \in 1..Len(q) : k + 1 \in 1..Len(p) /\ 1 < k + 1 BY <1>1
    <2>2. 1 \in 1..Len(p) BY <1>1
    <2>3. ASSUME x.op = "complete" /\ x.done = 0, NEW j \in 1..Len(q)
          PROVE  q[j].setting # "serviceSettings"
      <3>1. j + 1 \in 1..Len(p) /\ 1 < j + 1 /\ p[j + 1] = q[j] BY <1>1, <2>1
      <3>2. p[j + 1].setting # "serviceSettings" BY <1>1, <1>3, <2>2, <2>3, <3>1 DEF CompleteOK
      <3> QED BY <3>1, <3>2
    <2>4. ASSUME NEW k \in 1..Len(q), q[k].op = "complete", q[k].done = 0,
                 NEW j \in 1..Len(q), k < j
          PROVE  q[j].setting # "serviceSettings"
      <3>1. /\ k + 1 \in 1..Len(p) /\ p[k + 1] = q[k]
            /\ j + 1 \in 1..Len(p) /\ p[j + 1] = q[j] /\ k + 1 < j + 1
        BY <1>1, <2>1, <2>4
      <3>2. p[j + 1].setting # "serviceSettings" BY <1>3, <2>4, <3>1 DEF CompleteOK
      <3> QED BY <3>1, <3>2
    <2> QED BY <2>3, <2>4 DEF CompleteOK
  <1> QED BY <1>2, <1>3 DEF p

\* The three conditions, for a call on top of others that owes nothing new
Clear(x, G) ==
    /\ x.op = "set" /\ x.setting = "serviceSettings" =>
         x.value = G[x.group].value["serviceSettings"]
    /\ ~(x.op = "complete" /\ x.done = 0)

Fine(G, M, q) == AgreeAll(G, M, q) /\ ServiceOK(q, G) /\ CompleteOK(q)

\* Members agree as before under a frame that has nothing to tell yet.
LEMMA FineOn ==
    ASSUME NEW q \in Seq(Frames), NEW x \in Frames, NEW G, NEW M, Fine(G, M, q), Clear(x, G)
    PROVE  Fine(G, M, <<x>> \o q)
  <1>1. ServiceOK(<<x>> \o q, G) BY ServiceOn DEF Fine, Clear
  <1>2. CompleteOK(<<x>> \o q) BY CompleteOn DEF Fine, Clear
  <1>3. \A m, g, s : Owed(m, g, s, q, G) => Owed(m, g, s, <<x>> \o q, G) BY OwedOn
  <1>4. AgreeAll(G, M, <<x>> \o q) BY <1>3 DEF Fine, AgreeAll
  <1> QED BY <1>1, <1>2, <1>4 DEF Fine

\* A slot may be put on any stack.
LEMMA FineSlot ==
    ASSUME NEW q \in Seq(Frames), NEW G, NEW M, Fine(G, M, q)
    PROVE  Fine(G, M, Slot \o q)
  <1> DEFINE x == Slot[1]
  <1>1. x \in Frames /\ Slot = <<x>> /\ x.op = "slot" BY FrameTypes
  <1>2. Clear(x, G) BY <1>1 DEF Clear
  <1> HIDE DEF x
  <1> QED BY <1>1, <1>2, FineOn

\* A call returns that owes nothing to anybody.
LEMMA FinePopped ==
    ASSUME NEW q \in Seq(Frames), q # <<>>, NEW G, NEW M, Fine(G, M, q),
           \A m \in Members : \A g, s : ~Covers(Head(q), m, g, s, G)
    PROVE  Fine(G, M, Tail(q))
  <1> DEFINE x == Head(q)
             t == Tail(q)
  <1>1. x \in Frames /\ t \in Seq(Frames) /\ q = <<x>> \o t BY Popped
  <1> HIDE DEF x, t
  <1>2. ServiceOK(t, G) BY <1>1, ServiceOn DEF Fine
  <1>3. CompleteOK(t) BY <1>1, CompleteOn DEF Fine
  <1>4. \A m \in Members : \A g, s : ~Covers(x, m, g, s, G) BY DEF x
  <1>5. \A m \in Members : \A g, s : Owed(m, g, s, q, G) => Owed(m, g, s, t, G)
    BY <1>1, <1>4, OwedOn
  <1>6. AgreeAll(G, M, t) BY <1>5 DEF Fine, AgreeAll
  <1> QED BY <1>2, <1>3, <1>6 DEF Fine, t

\* Every setting that concerns a member and is applied to it at all is in its order.
LEMMA OrdersReach ==
    ASSUME NEW m \in Members, NEW s \in Settings \ FileSettings, Concerns(m, s)
    PROVE  \E j \in 1..Len(OrderFor(m)) : OrderFor(m)[j] = s
  <1>1. CASE m \in Features
    <2>1. OrderFor(m) = FeatureOrder /\ FeatureOrder \in Seq(STRING) /\ m \notin ServiceObjects
      BY <1>1, ConfigurationAssumption DEF OrderFor
    <2>2. s \in FeatureSettings BY <2>1 DEF Concerns, Settings
    <2> QED BY <2>1, <2>2 DEF FeatureSettings, ToSet
  <1>2. CASE m \notin Features
    <2>1. OrderFor(m) = <<"serviceSettings">> /\ m \in ServiceObjects
      BY <1>2 DEF OrderFor, Members
    <2>2. s = "serviceSettings" BY <2>1 DEF Concerns
    <2>3. 1 \in 1..Len(<<"serviceSettings">>) /\ <<"serviceSettings">>[1] = "serviceSettings"
      OBVIOUS
    <2> QED BY <2>1, <2>2, <2>3
  <1> QED BY <1>1, <1>2

-----------------------------------------------------------------------------
(* Every call leaves a member with what it is owed. *)

\* A group is set, and goes through its members.
LEMMA SetFine ==
    ASSUME NEW M, NEW C, group \in [Groups -> SettingsObjects], NEW g \in Groups,
           NEW s \in Settings, NEW v \in Values[s], NEW frames, Held(frames, M, C),
           Fine(group, M, frames), Set(g, s, v, frames),
           s = "serviceSettings" =>
               \A k \in 1..Len(frames) : frames[k].setting # "serviceSettings"
    PROVE  Fine(group', M, stack')
  <1>1. CASE s \in group[g].override
    BY <1>1 DEF Set
  <1>2. CASE s \notin group[g].override
    <2> DEFINE H == group'
               x == Frame("set", g, s, None, v)
    <2>1. /\ group' = [group EXCEPT ![g].value[s] = v, ![g].set = @ \cup {s}]
          /\ stack' = IF s \in FileSettings THEN frames ELSE <<x>> \o frames
      BY <1>2 DEF Set
    <2>2. GetsValue(group, g, s, v, H) BY <2>1, GroupSets
    <2>3. frames \in Seq(Frames) /\ \A k \in 1..Len(frames) : FrameOK(frames[k], M, C)
      BY DEF Held
    <2> HIDE DEF H
    <2>4. ServiceOK(frames, H)
      <3> SUFFICES ASSUME NEW k \in 1..Len(frames), frames[k].op = "set",
                          frames[k].setting = "serviceSettings"
                   PROVE  frames[k].value = H[frames[k].group].value["serviceSettings"]
        BY DEF ServiceOK
      <3>1. s # "serviceSettings" /\ "serviceSettings" \in Settings BY DEF Settings
      <3>2. frames[k].group \in Groups BY <2>3 DEF FrameOK
      <3>3. frames[k].value = group[frames[k].group].value["serviceSettings"]
        BY DEF Fine, ServiceOK
      <3>4. H[frames[k].group].value["serviceSettings"]
              = group[frames[k].group].value["serviceSettings"]
        BY <2>2, <3>1, <3>2 DEF GetsValue
      <3> QED BY <3>3, <3>4
    <2>5. ASSUME NEW h \in Groups, NEW m \in Members, NEW t \in Settings, h # g \/ t # s,
                 Duty(m, h, t, H, M)
          PROVE  Agrees(m, h, t, H, M) \/ Owed(m, h, t, frames, H)
      <3>1. /\ H[h].members = group[h].members /\ H[h].value[t] = group[h].value[t]
            /\ t \in H[h].set => t \in group[h].set
        BY <2>2, <2>5 DEF GetsValue
      <3>2. Duty(m, h, t, group, M) BY <2>5, <3>1 DEF Duty
      <3>3. Agrees(m, h, t, group, M) \/ Owed(m, h, t, frames, group)
        BY <3>2 DEF Fine, AgreeAll
      <3>4. Owed(m, h, t, frames, group) => Owed(m, h, t, frames, H)
        BY <3>1 DEF Owed, Covers
      <3> QED BY <3>1, <3>3, <3>4 DEF Agrees
    <2>6. CompleteOK(frames) BY DEF Fine
    <2>7. CASE s \in FileSettings
      <3>1. \A m \in Members : ~Duty(m, g, s, H, M) BY <2>7 DEF Duty
      <3>2. AgreeAll(H, M, frames) BY <2>5, <3>1 DEF AgreeAll
      <3> QED BY <2>1, <2>4, <2>6, <2>7, <3>2 DEF Fine, H
    <2>8. CASE s \notin FileSettings
      <3>1. x \in Frames BY <2>8, FrameTypes
      <3>2. x.op = "set" /\ x.group = g /\ x.setting = s /\ x.value = v /\ x.done = 0
        BY DEF Frame
      <3> HIDE DEF x
      <3>3. H[g].value[s] = v BY <2>2 DEF GetsValue
      <3>4. ServiceOK(<<x>> \o frames, H) BY <2>3, <2>4, <3>1, <3>2, <3>3, ServiceOn
      <3>5. CompleteOK(<<x>> \o frames) BY <2>3, <2>6, <3>1, <3>2, CompleteOn
      <3>6. ASSUME NEW m \in Members, Duty(m, g, s, H, M) PROVE Covers(x, m, g, s, H)
        <4>1. PICK i \in 1..Len(H[g].members) : H[g].members[i] = m BY <3>6 DEF Duty
        <4>2. x.done < i BY <3>2
        <4> QED BY <3>2, <4>1, <4>2 DEF Covers
      <3>7. AgreeAll(H, M, <<x>> \o frames)
        <4> SUFFICES ASSUME NEW h \in Groups, NEW m \in Members, NEW t \in Settings,
                            Duty(m, h, t, H, M)
                     PROVE  Agrees(m, h, t, H, M) \/ Owed(m, h, t, <<x>> \o frames, H)
          BY DEF AgreeAll
        <4>1. CASE h = g /\ t = s BY <2>3, <3>1, <3>6, <4>1, OwedOn
        <4>2. CASE h # g \/ t # s BY <2>3, <2>5, <3>1, <4>2, OwedOn
        <4> QED BY <4>1, <4>2
      <3>8. stack' = <<x>> \o frames BY <2>1, <2>8
      <3> QED BY <3>4, <3>5, <3>7, <3>8 DEF Fine, H
    <2> QED BY <2>7, <2>8
  <1> QED BY <1>1, <1>2

\* The call on top goes on: it owes what it owed, but for the round it has done.
LEMMA CoversNext ==
    ASSUME NEW f \in Frames, NEW m, NEW g, NEW s, NEW G, Covers(f, m, g, s, G)
    PROVE  \/ Covers([f EXCEPT !.done = f.done + 1], m, g, s, G)
           \/ f.op = "set" /\ f.setting = s /\ f.group = g /\ G[g].members[f.done + 1] = m
           \/ f.op = "add" /\ f.who = m /\ f.group = g /\ OrderFor(m)[f.done + 1] = s
  <1> DEFINE x == [f EXCEPT !.done = f.done + 1]
  <1>1. /\ f.done \in Nat /\ x.op = f.op /\ x.group = f.group /\ x.setting = f.setting
        /\ x.who = f.who /\ x.done = f.done + 1
    BY DEF Frames
  <1> HIDE DEF x
  <1>2. CASE f.op = "set"
    <2>1. PICK j \in 1..Len(G[g].members) : f.done < j /\ G[g].members[j] = m
      BY <1>2 DEF Covers
    <2>2. CASE j = f.done + 1 BY <1>2, <2>1, <2>2 DEF Covers
    <2>3. CASE j # f.done + 1
      <3>1. x.done < j BY <1>1, <2>1, <2>3
      <3>2. Covers(x, m, g, s, G) BY <1>1, <1>2, <2>1, <3>1 DEF Covers
      <3> QED BY <3>2 DEF x
    <2> QED BY <2>2, <2>3
  <1>3. CASE f.op = "add"
    <2>1. PICK j \in 1..Len(OrderFor(m)) : f.done < j /\ OrderFor(m)[j] = s
      BY <1>3 DEF Covers
    <2>2. CASE j = f.done + 1 BY <1>3, <2>1, <2>2 DEF Covers
    <2>3. CASE j # f.done + 1
      <3>1. x.done < j BY <1>1, <2>1, <2>3
      <3>2. Covers(x, m, g, s, G) BY <1>1, <1>3, <2>1, <3>1 DEF Covers
      <3> QED BY <3>2 DEF x
    <2> QED BY <2>2, <2>3
  <1> QED BY <1>2, <1>3 DEF Covers

\* What is left to do in a frame that goes on.
LEMMA FrameNext ==
    ASSUME NEW f \in Frames
    PROVE  LET x == [f EXCEPT !.done = f.done + 1]
           IN  /\ x \in Frames /\ x.op = f.op /\ x.setting = f.setting /\ x.value = f.value
               /\ x.group = f.group /\ x.who = f.who
  <1>1. f.done \in Nat BY DEF Frames
  <1> DEFINE n == f.done + 1
  <1>2. n \in Nat BY <1>1
  <1> HIDE DEF n
  <1>3. LET x == [f EXCEPT !.done = n]
        IN  /\ x \in Frames /\ x.op = f.op /\ x.setting = f.setting /\ x.value = f.value
            /\ x.group = f.group /\ x.who = f.who
    BY <1>2 DEF Frames
  <1> QED BY <1>3 DEF n

\* One round of the call on top leaves its member with what it was for.
LEMMA RoundFine ==
    ASSUME Base, Fine(group, member, stack), Top.op \in {"set", "add"},
           NEW m \in Members, NEW s \in Settings, NEW v \in Values[s],
           \/ member' = member
           \/ HasValue(member, m, s, v, member[m].own \ {s}, member'),
           Top.op = "set" => Top.setting = s /\ group[Top.group].members[Top.done + 1] = m,
           Top.op = "add" => Top.who = m /\ OrderFor(m)[Top.done + 1] = s,
           \A g \in Groups : Duty(m, g, s, group, member') => Agrees(m, g, s, group, member'),
           NEW frames, frames = <<[Top EXCEPT !.done = Top.done + 1]>> \o Tail(stack),
           stack' = frames \/ stack' = Slot \o frames
    PROVE  Fine(group, member', stack')
  <1> DEFINE x == [Top EXCEPT !.done = Top.done + 1]
             t == Tail(stack)
  <1>1. Held(stack, member, config) BY DEF Base
  <1>2. Top \in Frames /\ t \in Seq(Frames) /\ stack = <<Top>> \o t
    BY <1>1, TopIs, Popped DEF Top
  <1>3. /\ x \in Frames /\ x.op = Top.op /\ x.setting = Top.setting /\ x.value = Top.value
        /\ x.group = Top.group
    <2>1. Top \in Frames BY <1>1, TopIs
    <2> QED BY <2>1, FrameNext
  <1>4. frames = <<x>> \o t OBVIOUS
  <1> HIDE DEF x, t
  <1>5. ServiceOK(frames, group)
    <2>1. ServiceOK(<<Top>> \o t, group) BY <1>2 DEF Fine
    <2>2. /\ Top.op = "set" /\ Top.setting = "serviceSettings" =>
               Top.value = group[Top.group].value["serviceSettings"]
          /\ ServiceOK(t, group)
      BY <1>2, <2>1, ServiceOn
    <2>3. x.op = "set" /\ x.setting = "serviceSettings" =>
            x.value = group[x.group].value["serviceSettings"]
      BY <1>3, <2>2
    <2>4. x \in Frames /\ t \in Seq(Frames) BY <1>2, <1>3
    <2>5. ServiceOK(<<x>> \o t, group) BY <2>2, <2>3, <2>4, ServiceOn
    <2> QED BY <1>4, <2>5
  <1>6. CompleteOK(frames)
    <2>1. CompleteOK(<<Top>> \o t) BY <1>2 DEF Fine
    <2>2. CompleteOK(t) BY <1>2, <2>1, CompleteOn
    <2>3. x \in Frames /\ t \in Seq(Frames) /\ x.op # "complete" BY <1>2, <1>3
    <2>4. CompleteOK(<<x>> \o t) BY <2>2, <2>3, CompleteOn
    <2> QED BY <1>4, <2>4
  <1>7. AgreeAll(group, member', frames)
    <2> SUFFICES ASSUME NEW g \in Groups, NEW y \in Members, NEW u \in Settings,
                        Duty(y, g, u, group, member')
                 PROVE  Agrees(y, g, u, group, member') \/ Owed(y, g, u, frames, group)
      BY DEF AgreeAll
    <2>1. CASE y = m /\ u = s BY <2>1
    <2>2. CASE y # m \/ u # s
      <3>1. member'[y].value[u] = member[y].value[u]
            /\ (u \notin member'[y].own => u \notin member[y].own)
        BY <2>2 DEF HasValue
      <3>2. Duty(y, g, u, group, member) BY <3>1 DEF Duty
      <3>3. Agrees(y, g, u, group, member) \/ Owed(y, g, u, stack, group)
        BY <3>2 DEF Fine, AgreeAll
      <3>4. CASE Agrees(y, g, u, group, member) BY <3>1, <3>4 DEF Agrees
      <3>5. CASE Owed(y, g, u, stack, group)
        <4>1. Covers(Top, y, g, u, group) \/ Owed(y, g, u, t, group) BY <1>2, <3>5, OwedOn
        <4>2. CASE Owed(y, g, u, t, group) BY <1>2, <1>3, <1>4, <4>2, OwedOn
        <4>3. CASE Covers(Top, y, g, u, group)
          <5>1. Covers(x, y, g, u, group) BY <1>2, <2>2, <4>3, CoversNext DEF x
          <5> QED BY <1>2, <1>3, <1>4, <5>1, OwedOn
        <4> QED BY <4>1, <4>2, <4>3
      <3> QED BY <3>3, <3>4, <3>5
    <2> QED BY <2>1, <2>2
  <1>8. Fine(group, member', frames) BY <1>5, <1>6, <1>7 DEF Fine
  <1>9. frames \in Seq(Frames) BY <1>2, <1>3, <1>4, Pushed
  <1> QED BY <1>8, <1>9, FineSlot

\* A member is in the lists of one group.
LEMMA OneGroup ==
    ASSUME Base, NEW g \in Groups, NEW m \in Members,
           \E i \in 1..Len(group[g].members) : group[g].members[i] = m
    PROVE  member[m].id = g
  BY DEF Base, ListsOK

\* The next member of a setter gets the value.
LEMMA ApplyFine ==
    ASSUME Base, Fine(group, member, stack), ApplyNext
    PROVE  Fine(group', member', stack')
  <1> DEFINE list == group[Top.group].members
             next == Top.done + 1
             m == list[next]
             s == Top.setting
             v == IF Top.setting = "serviceSettings" THEN Top.value
                  ELSE group[Top.group].value[Top.setting]
             frames == <<[Top EXCEPT !.done = next]>> \o Tail(stack)
  <1>1. Held(stack, member, config) BY DEF Base
  <1>2. /\ Top.op = "set" /\ Top.group \in Groups /\ s \in Settings \ FileSettings
        /\ group' = group
    BY ApplyIs
  <1>3. Top \in Frames /\ Top.done \in Nat /\ stack \in Seq(Frames) /\ stack # <<>>
        /\ Top = stack[1] /\ 1 \in 1..Len(stack)
    BY <1>1, TopIs
  <1>4. CASE next > Len(list) /\ stack' = Tail(stack) /\ member' = member
    <2>1. \A y \in Members : \A g, u : ~Covers(Top, y, g, u, group)
      BY <1>2, <1>3, <1>4 DEF Covers
    <2>2. Fine(group, member, Tail(stack)) BY <1>3, <2>1, FinePopped DEF Top
    <2> QED BY <1>2, <1>4, <2>2
  <1>5. CASE /\ next \in 1..Len(list) /\ m \in Members /\ v \in Values[s]
             /\ \/ /\ ~(Concerns(m, s) /\ ~Refuses(s, v))
                   /\ stack' = frames /\ member' = member
                \/ /\ stack' = frames \/ stack' = Slot \o frames
                   /\ HasValue(member, m, s, v, member[m].own \ {s}, member')
    <2>1. v = group[Top.group].value[s]
      BY <1>2, <1>3 DEF Fine, ServiceOK
    <2>2. member[m].id = Top.group BY <1>2, <1>5, OneGroup
    <2> HIDE DEF v
    <2>3. ASSUME NEW g \in Groups, Duty(m, g, s, group, member')
          PROVE  Agrees(m, g, s, group, member')
      <3>1. member[m].id = g BY <1>5, <2>3, OneGroup DEF Duty
      <3>2. Concerns(m, s) BY <2>3 DEF Duty
      <3> QED BY <1>5, <2>1, <2>2, <3>1, <3>2 DEF Agrees, HasValue
    <2> HIDE DEF frames
    <2>4. stack' = frames \/ stack' = Slot \o frames BY <1>5
    <2>5. \/ member' = member
          \/ HasValue(member, m, s, v, member[m].own \ {s}, member')
      BY <1>5
    <2>6. frames = <<[Top EXCEPT !.done = Top.done + 1]>> \o Tail(stack) BY DEF frames
    <2>7. Top.op = "set" => Top.setting = s /\ group[Top.group].members[Top.done + 1] = m
      OBVIOUS
    <2>8. m \in Members /\ v \in Values[s] /\ s \in Settings BY <1>2, <1>5
    <2>9. Top.op \in {"set", "add"} /\ Top.op # "add" BY <1>2
    <2> HIDE DEF m, s
    <2>10. Fine(group, member', stack')
      BY <2>3, <2>4, <2>5, <2>6, <2>7, <2>8, <2>9, RoundFine
    <2> QED BY <1>2, <2>10
  <1> HIDE DEF frames, v
  <1> QED BY <1>4, <1>5, ApplyIs DEF frames, v

\* The next setting comes to a member that joins.
LEMMA AddFine ==
    ASSUME Base, Fine(group, member, stack), AddNext
    PROVE  Fine(group', member', stack')
  <1> DEFINE order == OrderFor(Top.who)
             next == Top.done + 1
             m == Top.who
             s == order[next]
             v == group[Top.group].value[s]
             frames == <<[Top EXCEPT !.done = next]>> \o Tail(stack)
  <1>1. Held(stack, member, config) BY DEF Base
  <1>2. Top.op = "add" /\ Top.group \in Groups /\ m \in Members /\ group' = group
    BY AddIs
  <1>3. Top \in Frames /\ Top.done \in Nat /\ stack \in Seq(Frames) /\ stack # <<>>
        /\ Top = stack[1] /\ 1 \in 1..Len(stack) /\ FrameOK(Top, member, config)
    BY <1>1, TopIs
  <1>4. CASE next > Len(order) /\ stack' = Tail(stack) /\ member' = member
    <2>1. order \in Seq(Settings) BY <1>2, OrdersAre
    <2>2. \A y \in Members : \A g, u : ~Covers(Top, y, g, u, group)
      BY <1>2, <1>3, <1>4, <2>1 DEF Covers
    <2>3. Fine(group, member, Tail(stack)) BY <1>3, <2>2, FinePopped DEF Top
    <2> QED BY <1>2, <1>4, <2>3
  <1>5. CASE /\ next \in 1..Len(order) /\ s \in Settings /\ v \in Values[s]
             /\ \/ /\ ~(s \in group[Top.group].set /\ ~Refuses(s, v))
                   /\ stack' = frames /\ member' = member
                \/ /\ stack' = frames \/ stack' = Slot \o frames
                   /\ HasValue(member, m, s, v, member[m].own \ {s}, member')
    <2>1. member[m].id = Top.group BY <1>2, <1>3 DEF FrameOK
    <2>2. ASSUME NEW g \in Groups, Duty(m, g, s, group, member')
          PROVE  Agrees(m, g, s, group, member')
      <3>1. member[m].id = g BY <1>2, <2>2, OneGroup DEF Duty
      <3>2. s \in group[g].set BY <2>2 DEF Duty
      <3> HIDE DEF frames, s, m
      <3> QED BY <1>5, <2>1, <3>1, <3>2 DEF Agrees, HasValue
    <2> HIDE DEF frames
    <2>3. stack' = frames \/ stack' = Slot \o frames BY <1>5
    <2>4. \/ member' = member
          \/ HasValue(member, m, s, v, member[m].own \ {s}, member')
      BY <1>5
    <2>5. frames = <<[Top EXCEPT !.done = Top.done + 1]>> \o Tail(stack) BY DEF frames
    <2>6. Top.op = "add" => Top.who = m /\ OrderFor(m)[Top.done + 1] = s
      OBVIOUS
    <2>7. m \in Members /\ v \in Values[s] /\ s \in Settings BY <1>2, <1>5
    <2>8. Top.op \in {"set", "add"} /\ Top.op # "set" BY <1>2
    <2> HIDE DEF m, s, v
    <2>9. Fine(group, member', stack')
      BY <2>2, <2>3, <2>4, <2>5, <2>6, <2>7, <2>8, RoundFine
    <2> QED BY <1>2, <2>9
  <1> HIDE DEF frames, v
  <1> QED BY <1>4, <1>5, AddIs DEF frames, v

\* Members that change only where they have been set themselves
LEMMA FineSame ==
    ASSUME NEW G, NEW M, NEW N, NEW q, Fine(G, M, q),
           \A x \in Members : \A s \in Settings :
               \/ s \in N[x].own
               \/ N[x].value[s] = M[x].value[s] /\ s \notin M[x].own
    PROVE  Fine(G, N, q)
  <1>1. \A x \in Members : \A s \in Settings : \A g \in Groups :
          Duty(x, g, s, G, N) => /\ Duty(x, g, s, G, M)
                                 /\ Agrees(x, g, s, G, M) => Agrees(x, g, s, G, N)
    BY DEF Duty, Agrees
  <1>2. AgreeAll(G, N, q) BY <1>1 DEF Fine, AgreeAll
  <1> QED BY <1>2 DEF Fine

\* Member m joins or leaves: the others and the settings of the groups stay, and
\* so do the lists that a setter in q is going through.
Regroups(G, M, q, m, H, N) ==
    /\ \A x \in Members : x # m => N[x].value = M[x].value /\ N[x].own = M[x].own
    /\ \A h \in Groups : H[h].set = G[h].set /\ H[h].value = G[h].value
    /\ \A h \in Groups : \A x \in Members : x # m /\ (\E i \in 1..Len(H[h].members) : H[h].members[i] = x)
             => \E i \in 1..Len(G[h].members) : G[h].members[i] = x
    /\ \A k \in 1..Len(q) : q[k].op = "set" =>
         /\ q[k].group \in Groups
         /\ \A j \in 1..Len(G[q[k].group].members) :
              /\ j \in 1..Len(H[q[k].group].members)
              /\ H[q[k].group].members[j] = G[q[k].group].members[j]

\* All that m is due is owed to it.
OwesAll(m, H, N, p) ==
    \A h \in Groups : \A s \in Settings : Duty(m, h, s, H, N) => Owed(m, h, s, p, H)

\* One member joins or leaves, and no setter goes through a list that it leaves.
LEMMA MembershipFine ==
    ASSUME NEW G, NEW M, NEW q \in Seq(Frames), Fine(G, M, q), NEW m \in Members, NEW H, NEW N,
           Regroups(G, M, q, m, H, N),
           NEW p, p = q \/ \E x \in Frames : x.op = "add" /\ p = <<x>> \o q,
           OwesAll(m, H, N, p)
    PROVE  Fine(H, N, p)
  <1> USE DEF Regroups, OwesAll
  <1>1. \A x, h, s : Owed(x, h, s, q, G) => Owed(x, h, s, q, H)
    <2> SUFFICES ASSUME NEW x, NEW h, NEW s, Owed(x, h, s, q, G)
                 PROVE  Owed(x, h, s, q, H)
      OBVIOUS
    <2>1. PICK k \in 1..Len(q) : Covers(q[k], x, h, s, G) BY DEF Owed
    <2>2. CASE q[k].op = "set"
      <3>1. /\ q[k].group = h /\ q[k].setting = s
            /\ \E j \in 1..Len(G[h].members) : q[k].done < j /\ G[h].members[j] = x
        BY <2>1, <2>2 DEF Covers
      <3>2. PICK j \in 1..Len(G[h].members) : q[k].done < j /\ G[h].members[j] = x BY <3>1
      <3>3. j \in 1..Len(H[h].members) /\ H[h].members[j] = x BY <2>2, <3>1, <3>2
      <3>4. Covers(q[k], x, h, s, H) BY <2>2, <3>1, <3>2, <3>3 DEF Covers
      <3> QED BY <3>4 DEF Owed
    <2>3. CASE q[k].op # "set"
      <3>1. Covers(q[k], x, h, s, H) BY <2>1, <2>3 DEF Covers
      <3> QED BY <3>1 DEF Owed
    <2> QED BY <2>2, <2>3
  <1>2. \A x, h, s : Owed(x, h, s, q, H) => Owed(x, h, s, p, H)
    <2>1. CASE p = q BY <2>1
    <2>2. CASE \E f \in Frames : f.op = "add" /\ p = <<f>> \o q BY <2>2, OwedOn
    <2> QED BY <2>1, <2>2
  <1>3. ServiceOK(q, H)
    <2> SUFFICES ASSUME NEW k \in 1..Len(q), q[k].op = "set", q[k].setting = "serviceSettings"
                 PROVE  q[k].value = H[q[k].group].value["serviceSettings"]
      BY DEF ServiceOK
    <2>1. q[k].group \in Groups OBVIOUS
    <2>2. q[k].value = G[q[k].group].value["serviceSettings"] BY DEF Fine, ServiceOK
    <2> QED BY <2>1, <2>2
  <1>4. ServiceOK(p, H)
    <2>1. CASE p = q BY <1>3, <2>1
    <2>2. CASE \E f \in Frames : f.op = "add" /\ p = <<f>> \o q BY <1>3, <2>2, ServiceOn
    <2> QED BY <2>1, <2>2
  <1>5. CompleteOK(p)
    <2>1. CompleteOK(q) BY DEF Fine
    <2>2. CASE p = q BY <2>1, <2>2
    <2>3. CASE \E f \in Frames : f.op = "add" /\ p = <<f>> \o q BY <2>1, <2>3, CompleteOn
    <2> QED BY <2>2, <2>3
  <1>6. AgreeAll(H, N, p)
    <2> SUFFICES ASSUME NEW h \in Groups, NEW x \in Members, NEW s \in Settings,
                        Duty(x, h, s, H, N)
                 PROVE  Agrees(x, h, s, H, N) \/ Owed(x, h, s, p, H)
      BY DEF AgreeAll
    <2>1. CASE x = m BY <2>1
    <2>2. CASE x # m
      <3>1. N[x].value = M[x].value /\ N[x].own = M[x].own BY <2>2
      <3>2. H[h].set = G[h].set /\ H[h].value = G[h].value OBVIOUS
      <3>3. \E i \in 1..Len(G[h].members) : G[h].members[i] = x BY <2>2 DEF Duty
      <3>4. Duty(x, h, s, G, M) BY <3>1, <3>2, <3>3 DEF Duty
      <3>5. Agrees(x, h, s, G, M) \/ Owed(x, h, s, q, G) BY <3>4 DEF Fine, AgreeAll
      <3> QED BY <1>1, <1>2, <3>1, <3>2, <3>5 DEF Agrees
    <2> QED BY <2>1, <2>2
  <1> QED BY <1>4, <1>5, <1>6 DEF Fine

\* A member that joins is owed every setting of its group.
LEMMA JoinOwes ==
    ASSUME NEW q \in Seq(Frames), NEW g \in Groups, NEW m \in Members, NEW s \in Settings,
           NEW H, NEW N, Duty(m, g, s, H, N)
    PROVE  Owed(m, g, s, <<Frame("add", g, "", m, Default)>> \o q, H)
  <1> DEFINE x == Frame("add", g, "", m, Default)
  <1>1. x \in Frames BY FrameTypes
  <1>2. x.op = "add" /\ x.group = g /\ x.who = m /\ x.done = 0 BY DEF Frame
  <1> HIDE DEF x
  <1>3. PICK j \in 1..Len(OrderFor(m)) : OrderFor(m)[j] = s BY OrdersReach DEF Duty
  <1>4. x.done < j BY <1>2
  <1>5. Covers(x, m, g, s, H) BY <1>2, <1>3, <1>4 DEF Covers
  <1>6. Owed(m, g, s, <<x>> \o q, H) BY <1>1, <1>5, OwedOn
  <1> QED BY <1>6 DEF x

\* A member joins group g of G, that was in none of its lists or in that of g.
LEMMA JoinFine ==
    ASSUME NEW G \in [Groups -> SettingsObjects], NEW M, NEW q \in Seq(Frames), Fine(G, M, q),
           NEW g \in Groups, NEW m \in Members, NEW H, NEW N,
           GetsMembers(G, g, Append(G[g].members, m), H), ListsOK(H, N), N[m].id = g,
           \A x \in Members : x # m => N[x] = M[x],
           \A k \in 1..Len(q) : q[k].op = "set" => q[k].group \in Groups
    PROVE  Fine(H, N, <<Frame("add", g, "", m, Default)>> \o q)
  <1> DEFINE f == Frame("add", g, "", m, Default)
             L == G[g].members
  <1>1. L \in Seq(Members) BY DEF SettingsObjects
  <1>2. /\ \A h \in Groups : H[h].set = G[h].set /\ H[h].value = G[h].value
        /\ \A h \in Groups : h # g => H[h] = G[h]
        /\ H[g].members = Append(L, m)
    BY DEF GetsMembers
  <1> HIDE DEF L
  <1>3. /\ \A j \in 1..Len(L) : j \in 1..Len(H[g].members) /\ H[g].members[j] = L[j]
        /\ \A j \in 1..Len(H[g].members) : j \in 1..Len(L) \/ H[g].members[j] = m
    BY <1>1, <1>2
  <1>4. \A h \in Groups : \A x \in Members : x # m /\ (\E i \in 1..Len(H[h].members) : H[h].members[i] = x)
              => \E i \in 1..Len(G[h].members) : G[h].members[i] = x
    BY <1>2, <1>3 DEF L
  <1>5. \A k \in 1..Len(q) : q[k].op = "set" =>
          /\ q[k].group \in Groups
          /\ \A j \in 1..Len(G[q[k].group].members) :
               /\ j \in 1..Len(H[q[k].group].members)
               /\ H[q[k].group].members[j] = G[q[k].group].members[j]
    BY <1>2, <1>3 DEF L
  <1>6. f \in Frames /\ f.op = "add"
    <2>1. f.op = "add" BY DEF Frame
    <2> QED BY <2>1, FrameTypes
  <1>7. \A h \in Groups : \A s \in Settings : Duty(m, h, s, H, N) =>
          Owed(m, h, s, <<f>> \o q, H)
    <2> SUFFICES ASSUME NEW h \in Groups, NEW s \in Settings, Duty(m, h, s, H, N)
                 PROVE  Owed(m, h, s, <<f>> \o q, H)
      OBVIOUS
    <2>1. h = g BY DEF Duty, ListsOK
    <2> QED BY <2>1, JoinOwes
  <1>8. \A x \in Members : x # m => N[x].value = M[x].value /\ N[x].own = M[x].own OBVIOUS
  <1> HIDE DEF f
  <1> DEFINE p == <<f>> \o q
  <1>9. p = q \/ \E x \in Frames : x.op = "add" /\ p = <<x>> \o q BY <1>6
  <1>10. OwesAll(m, H, N, p) BY <1>7 DEF OwesAll
  <1> HIDE DEF p
  <1>11. Regroups(G, M, q, m, H, N) BY <1>2, <1>4, <1>5, <1>8 DEF Regroups
  <1>12. Fine(H, N, p) BY <1>9, <1>10, <1>11, MembershipFine
  <1> QED BY <1>12 DEF p, f

\* A member leaves group g of G that no setter is going through.
LEMMA LeaveFine ==
    ASSUME NEW G \in [Groups -> SettingsObjects], NEW M, NEW q \in Seq(Frames), Fine(G, M, q),
           NEW g \in Groups \cup {None}, NEW m \in Members, NEW H, NEW N,
           Loses(G, g, m, H), ListsOK(G, M), M[m].id = g,
           \A x \in Members : x # m => N[x] = M[x],
           \A k \in 1..Len(q) : q[k].op = "set" => q[k].group \in Groups /\ q[k].group # g
    PROVE  Fine(H, N, q)
  <1>1. /\ \A h \in Groups : H[h].set = G[h].set /\ H[h].value = G[h].value
        /\ \A h \in Groups : h # g => H[h] = G[h]
        /\ g \in Groups => \A i \in 1..Len(H[g].members) :
             H[g].members[i] # m /\ \E j \in 1..Len(G[g].members) : H[g].members[i] = G[g].members[j]
    BY DEF Loses
  <1>2. \A h \in Groups : \A x \in Members : x # m /\ (\E i \in 1..Len(H[h].members) : H[h].members[i] = x)
              => \E i \in 1..Len(G[h].members) : G[h].members[i] = x
    <2> SUFFICES ASSUME NEW h \in Groups, NEW x \in Members,
                        NEW i \in 1..Len(H[h].members), H[h].members[i] = x
                 PROVE  \E j \in 1..Len(G[h].members) : G[h].members[j] = x
      OBVIOUS
    <2>1. CASE h = g BY <1>1, <2>1
    <2>2. CASE h # g BY <1>1, <2>2
    <2> QED BY <2>1, <2>2
  <1>3. \A k \in 1..Len(q) : q[k].op = "set" =>
          /\ q[k].group \in Groups
          /\ \A j \in 1..Len(G[q[k].group].members) :
               /\ j \in 1..Len(H[q[k].group].members)
               /\ H[q[k].group].members[j] = G[q[k].group].members[j]
    BY <1>1
  <1>4. \A h \in Groups : \A s \in Settings : ~Duty(m, h, s, H, N)
    <2> SUFFICES ASSUME NEW h \in Groups, NEW i \in 1..Len(H[h].members), H[h].members[i] = m
                 PROVE  FALSE
      BY DEF Duty
    <2>1. CASE h = g BY <1>1, <2>1
    <2>2. CASE h # g
      <3>1. H[h] = G[h] BY <1>1, <2>2
      <3>2. M[G[h].members[i]].id = h BY <3>1 DEF ListsOK
      <3> QED BY <2>2, <3>1, <3>2
    <2> QED BY <2>1, <2>2
  <1>5. OwesAll(m, H, N, q) BY <1>4 DEF OwesAll
  <1>6. Regroups(G, M, q, m, H, N) BY <1>1, <1>2, <1>3 DEF Regroups
  <1> QED BY <1>5, <1>6, MembershipFine

\* No slot sets serviceSettings where a setter is passing these on.
NoService(q) == \A k \in 1..Len(q) : q[k].setting # "serviceSettings"

\* A frame of another setting adds no round of the service settings.
LEMMA NoServiceOn ==
    ASSUME NEW q \in Seq(Frames), NEW x \in Frames, NoService(q),
           x.setting # "serviceSettings"
    PROVE  NoService(<<x>> \o q)
  <1> DEFINE p == <<x>> \o q
  <1>1. /\ Len(p) = Len(q) + 1 /\ Len(q) \in Nat /\ p[1] = x
        /\ \A k \in 1..Len(q) : p[k + 1] = q[k]
        /\ \A k \in 1..(Len(q) + 1) : k = 1 \/ k - 1 \in 1..Len(q)
    BY Pushed
  <1> HIDE DEF p
  <1>2. ASSUME NEW k \in 1..Len(p) PROVE p[k].setting # "serviceSettings"
    <2>1. CASE k = 1 BY <1>1, <2>1
    <2>2. CASE k - 1 \in 1..Len(q)
      <3>1. p[(k - 1) + 1] = q[k - 1] /\ (k - 1) + 1 = k BY <1>1, <2>2
      <3> QED BY <2>2, <3>1 DEF NoService
    <2> QED BY <1>1, <1>2, <2>1, <2>2
  <1> QED BY <1>2 DEF p, NoService

\* Neither does a slot.
LEMMA NoServiceSlot ==
    ASSUME NEW q \in Seq(Frames), NoService(q)
    PROVE  NoService(Slot \o q)
  <1> DEFINE x == Slot[1]
  <1>1. x \in Frames /\ Slot = <<x>> /\ x.setting # "serviceSettings" BY FrameTypes
  <1> HIDE DEF x
  <1> QED BY <1>1, NoServiceOn

\* The next setting is copied to a configuration.
LEMMA CopyFine ==
    ASSUME Base, Fine(group, member, stack), CopyNext
    PROVE  Fine(group', member', stack')
  <1> DEFINE x == [Top EXCEPT !.done = Top.done + 1]
             t == Tail(stack)
             frames == <<x>> \o t
  <1>1. Held(stack, member, config) /\ group \in [Groups -> SettingsObjects]
    BY TypesAre DEF Base
  <1>2. Top.op = "complete" /\ member' = member BY CopyIs
  <1>3. /\ Top \in Frames /\ Top.done \in Nat /\ stack \in Seq(Frames) /\ stack # <<>>
        /\ Top = stack[1] /\ Top = Head(stack) /\ 1 \in 1..Len(stack)
        /\ FrameOK(Top, member, config)
    BY <1>1, TopIs DEF Top
  <1>4. /\ t \in Seq(Frames) /\ Len(stack) = Len(t) + 1 /\ Len(t) \in Nat
        /\ \A k \in 1..Len(t) : t[k] = stack[k + 1]
    BY <1>3, Popped
  <1>5. /\ x \in Frames /\ x.op = Top.op /\ x.setting = Top.setting /\ x.done = Top.done + 1
    BY <1>3, FrameNext DEF Frames
  <1>6. Fine(group, member, t)
    <2>1. \A y \in Members : \A g, u : ~Covers(Top, y, g, u, group) BY <1>2 DEF Covers
    <2> QED BY <1>3, <2>1, FinePopped
  <1> HIDE DEF x, t
  <1>7. Fine(group, member, frames)
    <2>1. Clear(x, group) BY <1>2, <1>3, <1>5 DEF Clear
    <2> QED BY <1>4, <1>5, <1>6, <2>1, FineOn
  <1>8. frames \in Seq(Frames) BY <1>4, <1>5, Pushed
  <1>9. Top.done = 0 => NoService(frames)
    <2> SUFFICES ASSUME Top.done = 0 PROVE NoService(frames) OBVIOUS
    <2>1. \A j \in 1..Len(stack) : 1 < j => stack[j].setting # "serviceSettings"
      BY <1>2, <1>3 DEF Fine, CompleteOK
    <2>2. \A k \in 1..Len(t) : k + 1 \in 1..Len(stack) /\ 1 < k + 1 BY <1>4
    <2>3. NoService(t) BY <1>4, <2>1, <2>2 DEF NoService
    <2>4. x.setting # "serviceSettings" BY <1>2, <1>3, <1>5 DEF FrameOK
    <2> QED BY <1>4, <1>5, <2>3, <2>4, NoServiceOn
  <1> HIDE DEF frames
  <1>10. CASE stack' = t /\ group' = group BY <1>2, <1>6, <1>10
  <1>11. CASE stack' = frames /\ group' = group BY <1>2, <1>7, <1>11
  <1>12. ASSUME NEW g \in Groups, NEW s \in Settings, NEW q, NEW v \in Values[s],
                Set(g, s, v, q), Held(q, member, config), q = frames \/ q = Slot \o frames,
                s = CopyOrder[Top.done + 1], Top.done + 1 \in 1..Len(CopyOrder)
         PROVE  Fine(group', member', stack')
    <2>1. Fine(group, member, q) BY <1>7, <1>8, <1>12, FineSlot
    <2>2. s = "serviceSettings" => NoService(q)
      <3> SUFFICES ASSUME s = "serviceSettings" PROVE NoService(q) OBVIOUS
      <3>1. Top.done + 1 = 1 BY <1>12, CopiesSettings
      <3>2. Top.done = 0 BY <1>3, <3>1
      <3> QED BY <1>8, <1>9, <1>12, <3>2, NoServiceSlot
    <2>3. Fine(group', member, stack') BY <1>1, <1>12, <2>1, <2>2, SetFine DEF NoService
    <2> QED BY <1>2, <2>3
  <1> QED BY <1>10, <1>11, <1>12, CopyIs DEF x, t, frames

\* Under the assumption about slots, a setter of serviceSettings meets no other.
LEMMA NoServiceNow ==
    ASSUME ~NestedServiceSettings, MaySetService, Held(stack, member, config)
    PROVE  NoService(stack)
  BY TopIs DEF MaySetService, NoService

\* Every step keeps the agreement.
LEMMA StepKeepsFine ==
    ASSUME ~NestedServiceSettings
    PROVE  Base /\ Fine(group, member, stack) /\ [Next]_vars => Fine(group', member', stack')
  <1> SUFFICES ASSUME Base, Fine(group, member, stack), [Next]_vars
               PROVE  Fine(group', member', stack')
    OBVIOUS
  <1>1. /\ group \in [Groups -> SettingsObjects]
        /\ member \in [Members -> MemberRecords]
        /\ config \in [Configs -> ConfigRecords]
        /\ Held(stack, member, config) /\ ListsOK(group, member)
    BY TypesAre DEF Base
  <1>2. /\ stack \in Seq(Frames) /\ stack # <<>> /\ DOMAIN stack = 1..Len(stack)
        /\ \A k \in 1..Len(stack) : FrameOK(stack[k], member, config)
    BY <1>1, TopIs DEF Held
  <1>3. \A k \in 1..Len(stack) : stack[k].op = "set" => stack[k].group \in Groups
    BY <1>2 DEF FrameOK
  <1>4. CASE UNCHANGED vars
    BY <1>4 DEF vars
  <1>5. CASE Return
    <2>1. stack' = Tail(stack) /\ Head(stack).op = "slot" /\ UNCHANGED <<group, member>>
      BY <1>5 DEF Return, Top
    <2>2. \A y \in Members : \A g, u : ~Covers(Head(stack), y, g, u, group) BY <2>1 DEF Covers
    <2>3. Fine(group, member, Tail(stack)) BY <1>2, <2>2, FinePopped
    <2> QED BY <2>1, <2>3
  <1>6. CASE ApplyNext BY <1>6, ApplyFine
  <1>7. CASE AddNext BY <1>7, AddFine
  <1>8. CASE CopyNext BY <1>8, CopyFine
  <1>9. ASSUME NEW f \in Features, ClassBegin(f) PROVE Fine(group', member', stack')
    <2>1. member' = [member EXCEPT ![f].qml = TRUE] /\ UNCHANGED <<group, stack>>
      BY <1>9 DEF ClassBegin
    <2>2. \A x \in Members : member'[x].value = member[x].value /\ member'[x].own = member[x].own
      BY <1>1, <2>1 DEF MemberRecords
    <2>3. Fine(group, member', stack) BY <2>2, FineSame
    <2> QED BY <2>1, <2>3
  <1>10. ASSUME NEW f \in Features, ComponentComplete(f) PROVE Fine(group', member', stack')
    <2> DEFINE g == member[f].id
    <2>1. /\ member' = [member EXCEPT ![f].qml = FALSE, ![f].own = {}] /\ f \in Members
          /\ ~UnderWay(g)
          /\ \/ g = None /\ UNCHANGED <<group, stack>>
             \/ g # None /\ Add(g, f)
      BY <1>10 DEF ComponentComplete, Members
    <2>2. \A x \in Members : member'[x].id = member[x].id /\ (x # f => member'[x] = member[x])
      BY <1>1, <2>1 DEF MemberRecords
    <2>3. ListsOK(group, member') BY <1>1, <2>2, ListsStay
    <2>4. CASE g = None /\ UNCHANGED <<group, stack>>
      <3>1. \A k \in 1..Len(stack) : stack[k].op = "set" =>
              stack[k].group \in Groups /\ stack[k].group # g
        BY <1>3, <2>4, ConfigurationAssumption
      <3>2. g \in Groups \cup {None} BY <2>4
      <3>3. Loses(group, g, f, group) BY <1>1, <2>4, ConfigurationAssumption DEF Loses
      <3> HIDE DEF g
      <3>4. Fine(group, member', stack)
        BY <1>1, <1>2, <2>1, <2>2, <3>1, <3>2, <3>3, LeaveFine DEF g
      <3> QED BY <2>4, <3>4
    <2>5. CASE g # None /\ Add(g, f)
      <3>1. g \in Groups BY <1>1, <2>1, <2>5 DEF MemberRecords
      <3>2. member'[f].id = g BY <2>1, <2>2
      <3>3. /\ group' = [group EXCEPT ![g].members = Append(@, f)]
            /\ stack' = <<Frame("add", g, "", f, Default)>> \o stack
        BY <2>5 DEF Add
      <3> HIDE DEF g
      <3>4. GetsMembers(group, g, Append(group[g].members, f), group') /\ ListsOK(group', member')
        <4>1. group' = [group EXCEPT ![g].members = Append(@, f)] BY <3>3
        <4>2. member'[f].id = g /\ f \in Members BY <2>1, <3>2
        <4> QED BY <1>1, <2>3, <3>1, <4>1, <4>2, Joined
      <3>5. Fine(group', member', <<Frame("add", g, "", f, Default)>> \o stack)
        BY <1>1, <1>2, <1>3, <2>1, <2>2, <3>1, <3>2, <3>4, JoinFine
      <3> QED BY <3>3, <3>5
    <2> QED BY <2>1, <2>4, <2>5
  <1>11. ASSUME NEW f \in Features, NEW g \in Groups, SetConfigurationId(f, g)
         PROVE  Fine(group', member', stack')
    <2> DEFINE old == member[f].id
               left == Removed(old, f)
    <2>1. /\ member' = [member EXCEPT ![f].id = g, ![f].own = {}] /\ f \in Members
          /\ ~UnderWay(old) /\ ~UnderWay(g)
          /\ \/ group' = left /\ stack' = stack
             \/ /\ group' = [left EXCEPT ![g].members = Append(@, f)]
                /\ stack' = <<Frame("add", g, "", f, Default)>> \o stack
      BY <1>11 DEF SetConfigurationId, Members
    <2>2. /\ member'[f].id = g /\ \A x \in Members : x # f => member'[x] = member[x]
      BY <1>1, <2>1 DEF MemberRecords
    <2>3. old \in Groups \cup {None} BY <1>1, <2>1 DEF MemberRecords
    <2>4. Loses(group, old, f, left) BY <1>1, <2>1, <2>3, RemovedIs
    <2>5. \A k \in 1..Len(stack) : stack[k].op = "set" =>
            stack[k].group \in Groups /\ stack[k].group # old
      BY <1>2, <1>3, <2>1 DEF UnderWay
    <2>6. ListsOK(left, member') BY <1>1, <2>1, <2>2, RemovedStep DEF Base
    <2> HIDE DEF left
    <2>7. Fine(left, member', stack)
      BY <1>1, <1>2, <2>1, <2>2, <2>3, <2>4, <2>5, LeaveFine
    <2>8. CASE group' = left /\ stack' = stack BY <2>7, <2>8
    <2>9. CASE /\ group' = [left EXCEPT ![g].members = Append(@, f)]
               /\ stack' = <<Frame("add", g, "", f, Default)>> \o stack
      <3>1. left \in [Groups -> SettingsObjects] BY <2>4 DEF Loses
      <3>2. GetsMembers(left, g, Append(left[g].members, f), group') /\ ListsOK(group', member')
        <4>1. group' = [left EXCEPT ![g].members = Append(@, f)] BY <2>9
        <4>2. member'[f].id = g /\ f \in Members BY <2>1, <2>2
        <4> QED BY <4>1, <4>2, <2>6, <3>1, Joined
      <3>3. \A x \in Members : x # f => member'[x] = member'[x] OBVIOUS
      <3>4. Fine(group', member', <<Frame("add", g, "", f, Default)>> \o stack)
        BY <1>2, <1>3, <2>1, <2>2, <2>7, <3>1, <3>2, <3>3, JoinFine
      <3> QED BY <2>9, <3>4
    <2> QED BY <2>1, <2>8, <2>9
  <1>12. ASSUME NEW f \in Features, NEW s \in FeatureSettings, NEW v \in Values[s],
                SetDirectly(f, s, v)
         PROVE  Fine(group', member', stack')
    <2> DEFINE D == member[f].own \cup {s}
    <2>1. /\ member' = [member EXCEPT ![f].value[s] = v, ![f].own = @ \cup {s}]
          /\ f \in Members /\ s \in Settings /\ stack' = Slot \o stack /\ group' = group
      BY <1>12 DEF SetDirectly, Members, Settings
    <2>2. D \in SUBSET Settings BY <1>1, <2>1 DEF MemberRecords
    <2>3. member' = [member EXCEPT ![f].value[s] = v, ![f].own = D]
      BY <1>1, <2>1 DEF MemberRecords
    <2> HIDE DEF D
    <2>4. HasValue(member, f, s, v, D, member') BY <1>1, <2>1, <2>2, <2>3, MemberTakes
    <2>5. \A x \in Members : \A u \in Settings :
               \/ u \in member'[x].own
               \/ member'[x].value[u] = member[x].value[u] /\ u \notin member[x].own
      BY <2>4 DEF HasValue, D
    <2>6. Fine(group, member', stack) BY <2>5, FineSame
    <2> QED BY <1>2, <2>1, <2>6, FineSlot
  <1>13. ASSUME NEW m \in Members, Destroy(m) PROVE Fine(group', member', stack')
    <2> DEFINE old == member[m].id
               left == Removed(old, m)
    <2>1. /\ member' = [member EXCEPT ![m] = NewMember]
          /\ ~UnderWay(old) /\ group' = left /\ stack' = stack
      BY <1>13 DEF Destroy
    <2>2. \A x \in Members : x # m => member'[x] = member[x] BY <1>1, <2>1
    <2>3. old \in Groups \cup {None} BY <1>1 DEF MemberRecords
    <2>4. Loses(group, old, m, left) BY <1>1, <2>3, RemovedIs
    <2>5. \A k \in 1..Len(stack) : stack[k].op = "set" =>
            stack[k].group \in Groups /\ stack[k].group # old
      BY <1>2, <1>3, <2>1 DEF UnderWay
    <2> HIDE DEF left
    <2>6. Fine(left, member', stack)
      BY <1>1, <1>2, <2>2, <2>3, <2>4, <2>5, LeaveFine
    <2> QED BY <2>1, <2>6
  <1>14. ASSUME NEW o \in ServiceObjects, AddServiceObject(o)
         PROVE  Fine(group', member', stack')
    <2> DEFINE g == GroupOf[o]
    <2>1. /\ member' = [member EXCEPT ![o].id = g] /\ o \in Members /\ g \in Groups
          /\ group' = [group EXCEPT ![g].members = Append(@, o)]
          /\ stack' = <<Frame("add", g, "", o, Default)>> \o stack
          /\ member[o].id = None
      BY <1>14, ConfigurationAssumption DEF AddServiceObject, Members, Add
    <2> HIDE DEF g
    <2>2. /\ member'[o].id = g /\ \A x \in Members : x # o => member'[x] = member[x]
      BY <1>1, <2>1 DEF MemberRecords
    <2>3. ListsOK(group, member')
      <3>1. Removed(member[o].id, o) = group BY <2>1 DEF Removed
      <3>2. ListsOK(Removed(member[o].id, o), member')
        BY <1>1, <2>1, <2>2, RemovedStep DEF Base
      <3> QED BY <3>1, <3>2
    <2>4. GetsMembers(group, g, Append(group[g].members, o), group') /\ ListsOK(group', member')
      BY <1>1, <2>1, <2>2, <2>3, Joined
    <2>5. Fine(group', member', <<Frame("add", g, "", o, Default)>> \o stack)
      BY <1>1, <1>2, <1>3, <2>1, <2>2, <2>4, JoinFine
    <2> QED BY <2>1, <2>5
  <1>15. ASSUME NEW g \in Groups, NEW s \in Settings, NEW v \in Values[s], SetOfGroup(g, s, v)
         PROVE  Fine(group', member', stack')
    <2>1. /\ Set(g, s, v, stack) /\ member' = member /\ (s = "serviceSettings" => MaySetService)
      BY <1>15 DEF SetOfGroup
    <2>2. s = "serviceSettings" => NoService(stack) BY <1>1, <2>1, NoServiceNow
    <2>3. Fine(group', member, stack') BY <1>1, <2>1, <2>2, SetFine DEF NoService
    <2> QED BY <2>1, <2>3
  <1>16. ASSUME NEW c \in Configs, NEW s \in Settings, NEW v \in Values[s],
                SetOfConfiguration(c, s, v)
         PROVE  Fine(group', member', stack')
    <2> DEFINE g == config[c].settings
               frames == IF s \in group[g].override THEN stack ELSE Slot \o stack
    <2>1. /\ member' = member /\ (s = "serviceSettings" => MaySetService)
          /\ \/ stack' = Slot \o stack /\ group' = group
             \/ g # None /\ Set(g, s, v, frames)
      BY <1>16 DEF SetOfConfiguration
    <2>2. CASE stack' = Slot \o stack /\ group' = group BY <1>2, <2>1, <2>2, FineSlot
    <2>3. CASE g # None /\ Set(g, s, v, frames)
      <3>1. g \in Groups BY <1>1, <2>3 DEF ConfigRecords
      <3> HIDE DEF g
      <3>2. frames = stack \/ frames = Slot \o stack OBVIOUS
      <3> HIDE DEF frames
      <3>3. Held(frames, member, config) BY <1>1, <3>2, SlotHeld
      <3>4. Fine(group, member, frames) BY <1>2, <3>2, FineSlot
      <3>5. s = "serviceSettings" => NoService(frames)
        BY <1>1, <1>2, <2>1, <3>2, NoServiceNow, NoServiceSlot
      <3>6. Fine(group', member, stack')
        BY <1>1, <2>3, <3>1, <3>3, <3>4, <3>5, SetFine DEF NoService
      <3> QED BY <2>1, <3>6
    <2> QED BY <2>1, <2>2, <2>3
  <1>17. ASSUME NEW c \in Configs, NEW g \in Groups, SetName(c, g)
         PROVE  Fine(group', member', stack')
    <2>1. UNCHANGED <<group, member>> /\ stack' = Slot \o stack
      BY <1>17 DEF SetName
    <2> QED BY <1>2, <2>1, FineSlot
  <1>18. ASSUME NEW c \in Configs, ConfigurationClassBegin(c) PROVE Fine(group', member', stack')
    BY <1>18 DEF ConfigurationClassBegin
  <1>19. ASSUME NEW c \in Configs, ConfigurationComplete(c) PROVE Fine(group', member', stack')
    <2> DEFINE x == Frame("complete", None, "", c, Default)
    <2>1. /\ UNCHANGED <<group, member>> /\ MaySetService
          /\ stack' = stack \/ stack' = (Slot \o <<x>>) \o stack
      BY <1>19 DEF ConfigurationComplete
    <2>2. x \in Frames /\ x.op = "complete" BY FrameTypes DEF Frame
    <2>3. NoService(stack) BY <1>1, <2>1, NoServiceNow
    <2> HIDE DEF x
    <2>4. Fine(group, member, <<x>> \o stack)
      <3>1. \A m, g, s : Owed(m, g, s, stack, group) => Owed(m, g, s, <<x>> \o stack, group)
        BY <1>2, <2>2, OwedOn
      <3>2. AgreeAll(group, member, <<x>> \o stack) BY <3>1 DEF Fine, AgreeAll
      <3>3. ServiceOK(<<x>> \o stack, group) BY <1>2, <2>2, ServiceOn DEF Fine
      <3>4. CompleteOK(<<x>> \o stack) BY <1>2, <2>2, <2>3, CompleteOn DEF Fine, NoService
      <3> QED BY <3>2, <3>3, <3>4 DEF Fine
    <2>5. <<x>> \o stack \in Seq(Frames) BY <1>2, <2>2, Pushed
    <2>6. Fine(group, member, Slot \o (<<x>> \o stack)) BY <2>4, <2>5, FineSlot
    <2>7. (Slot \o <<x>>) \o stack = Slot \o (<<x>> \o stack)
      <3>1. stack \in Seq(Frames) /\ <<x>> \in Seq(Frames) BY <1>2, <2>2
      <3>2. Slot \in Seq(Frames)
        <4> DEFINE y == Slot[1]
        <4>1. y \in Frames /\ Slot = <<y>> BY FrameTypes
        <4> HIDE DEF y
        <4> QED BY <4>1
      <3>3. \A u, w, z \in Seq(Frames) : (u \o w) \o z = u \o (w \o z)
        BY ConcatAssociative
      <3> QED BY <3>1, <3>2, <3>3, Zenon
    <2> QED BY <2>1, <2>6, <2>7
  <1>20. ASSUME NEW c \in Configs, DestroyConfiguration(c) PROVE Fine(group', member', stack')
    BY <1>20 DEF DestroyConfiguration
  <1> QED
    BY <1>4, <1>5, <1>6, <1>7, <1>8, <1>9, <1>10, <1>11, <1>12, <1>13, <1>14, <1>15, <1>16,
       <1>17, <1>18, <1>19, <1>20 DEF Next

\* There is nobody to agree with at the start.
LEMMA FineAtStart == Init => Fine(group, member, stack)
  <1> SUFFICES ASSUME Init PROVE Fine(group, member, stack) OBVIOUS
  <1>1. \A g \in Groups : group[g].members = <<>> BY DEF Init, ReadInitialSettings
  <1>2. \A g \in Groups : Len(group[g].members) = 0 BY <1>1
  <1>3. \A m, s : \A g \in Groups : ~Duty(m, g, s, group, member) BY <1>2 DEF Duty
  <1>4. AgreeAll(group, member, stack) BY <1>3 DEF AgreeAll
  <1>5. stack = Slot /\ Slot[1].op = "slot" /\ Slot = <<Slot[1]>>
    BY FrameTypes DEF Init
  <1> DEFINE x == Slot[1]
  <1>6. stack = <<x>> /\ x.op = "slot" BY <1>5
  <1> HIDE DEF x
  <1>7. Len(stack) = 1 /\ \A k \in 1..1 : stack[k] = x BY <1>6
  <1>8. ServiceOK(stack, group) /\ CompleteOK(stack)
    BY <1>6, <1>7 DEF ServiceOK, CompleteOK
  <1> QED BY <1>4, <1>8 DEF Fine

\* MembersBelong: the lists of the groups and the ids of the members agree, and
\* a group that is left exists, unless features leave in their QML creation.
THEOREM ListsAndIds == ASSUME ~AbortedCreation PROVE Spec => []MembersBelong
  <1> DEFINE Inv == Base /\ asserted = TRUE
  <1>1. Init => Inv BY BaseAtStart DEF Init
  <1>2. Inv /\ [Next]_vars => Inv'
    <2> SUFFICES ASSUME Base, asserted = TRUE, [Next]_vars PROVE Base' /\ asserted' = TRUE
      OBVIOUS
    <2>1. Base' BY StepKeepsBase
    <2>2. CASE UNCHANGED asserted BY <2>1, <2>2
    <2>3. ASSUME NEW m, CanLeave(m), asserted' = LeavesExisting(m) PROVE asserted' = TRUE
      BY <2>3 DEF CanLeave, LeavesExisting
    <2>4. UNCHANGED asserted \/ \E m : CanLeave(m) /\ asserted' = LeavesExisting(m)
      BY DEF Next, vars, Return, ApplyNext, AddNext, CopyNext, ClassBegin, ComponentComplete,
             SetConfigurationId, SetDirectly, Destroy, AddServiceObject, SetOfGroup,
             SetOfConfiguration, SetName, ConfigurationClassBegin, ConfigurationComplete,
             DestroyConfiguration
    <2> QED BY <2>1, <2>2, <2>3, <2>4
  <1>3. Inv => MembersBelong
    <2> SUFFICES ASSUME Base, asserted = TRUE PROVE MembersBelong OBVIOUS
    <2>1. TypeOK /\ ListsOK(group, member) BY DEF Base
    <2>2. \A g \in Groups : DOMAIN group[g].members = 1..Len(group[g].members)
      BY <2>1, TypesAre DEF SettingsObjects
    <2> QED BY <2>1, <2>2 DEF MembersBelong, ListsOK
  <1> QED BY <1>1, <1>2, <1>3, PTL DEF Spec

\* MembersAgree: once every call has returned, the members of a group have the
\* values that are set for it, whatever slots have called in the middle, but
\* for slots that set serviceSettings again.
THEOREM ValuesArrive == ASSUME ~NestedServiceSettings PROVE Spec => []MembersAgree
  <1> DEFINE Inv == Base /\ Fine(group, member, stack)
  <1>1. Init => Inv BY BaseAtStart, FineAtStart
  <1>2. Inv /\ [Next]_vars => Inv' BY StepKeepsBase, StepKeepsFine
  <1>3. Inv => MembersAgree
    <2> SUFFICES ASSUME Base, Fine(group, member, stack), Tail(stack) = <<>>,
                        NEW g \in Groups, NEW i \in DOMAIN group[g].members,
                        NEW s \in group[g].set, Concerns(group[g].members[i], s),
                        s \notin FileSettings, s \notin member[group[g].members[i]].own
                 PROVE  Agrees(group[g].members[i], g, s, group, member)
      BY DEF MembersAgree, AtRest, Agrees
    <2> DEFINE m == group[g].members[i]
    <2>1. Held(stack, member, config) /\ group \in [Groups -> SettingsObjects]
      BY TypesAre DEF Base
    <2>2. stack \in Seq(Frames) /\ stack # <<>> /\ stack[Len(stack)].op = "slot"
      BY <2>1 DEF Held
    <2>3. Len(stack) = 1
      <3>1. Len(stack) = Len(Tail(stack)) + 1 BY <2>2, Popped
      <3>2. Tail(stack) = <<>> /\ Len(<<>>) = 0 OBVIOUS
      <3>3. Len(Tail(stack)) = 0 BY <3>2, Zenon
      <3> QED BY <3>1, <3>3
    <2>4. stack[1].op = "slot" BY <2>2, <2>3
    <2>5. \A k \in 1..Len(stack) : stack[k].op = "slot" BY <2>3, <2>4
    <2>6. group[g].members \in Seq(Members) /\ s \in Settings
      BY <2>1 DEF SettingsObjects
    <2>7. i \in 1..Len(group[g].members) /\ m \in Members BY <2>6
    <2>8. Duty(m, g, s, group, member) BY <2>7 DEF Duty
    <2>9. Agrees(m, g, s, group, member) \/ Owed(m, g, s, stack, group)
      BY <2>6, <2>7, <2>8 DEF Fine, AgreeAll
    <2>10. ~Owed(m, g, s, stack, group) BY <2>5 DEF Owed, Covers
    <2> QED BY <2>9, <2>10
  <1> QED BY <1>1, <1>2, <1>3, PTL DEF Spec
=============================================================================
