------------------------- MODULE EventContext_proof -------------------------
(***************************************************************************)
(* Theorems about EventContext for any number of contexts and descriptors. *)
(***************************************************************************)
EXTENDS EventContext, WellFoundedInduction, FiniteSetTheorems, TLAPS

IDs == 1 .. MaxID
Masked == [Kinds -> SUBSET FDs]

Types ==
  /\ fds \subseteq FDs /\ sFDsToClose \subseteq FDs
  /\ sSet \in Masked /\ sReturned \in Masked /\ polled \in Masked /\ ready \in Masked
  /\ sCookieArray \in [FDs -> IDs \cup {None}]
  /\ sMaxFDPos \in Nat
  /\ event \in [er_handle : FDs \cup {None}, er_data : IDs \cup {None}]
  /\ evpc = "resolve" => event.er_data \in IDs
  /\ fFileDesc \in [Contexts -> FDs \cup {None}]
  /\ fUniqueID \in [Contexts -> IDs \cup {0}]
  /\ sUniqueID \in IDs
  /\ tpc \in [Contexts -> {"none", "runs", "add", "register", "watch", "poke", "waits",
                           "leaves", "remove", "pokeClose"}]

-----------------------------------------------------------------------------
(* Descriptors.                                                            *)

\* A context has its descriptor until select_removeevent has it closed.
Owns(c) == tpc[c] \notin {"none", "pokeClose"}

Descriptors ==
  /\ sFDsToClose \subseteq fds
  /\ \A c \in Contexts : Owns(c) => fFileDesc[c] \in fds \ sFDsToClose
  /\ \A c, d \in Contexts : Owns(c) /\ Owns(d) /\ fFileDesc[c] = fFileDesc[d] => c = d

\* A context has an ID when its descriptor is to be armed or may have been.
HaveIDs ==
  \A c \in Contexts : /\ tpc[c] \in {"none", "add"} => fUniqueID[c] = 0
                      /\ tpc[c] \notin {"none", "add", "runs"} => fUniqueID[c] # 0

\* A descriptor with a cookie is open and will not be closed, and the context
\* that has it has taken an ID.
Cookies ==
  /\ \A fd \in FDs : sCookieArray[fd] # None => fd \in fds \ sFDsToClose
  /\ \A c \in Contexts : Owns(c) /\ fUniqueID[c] = 0 => sCookieArray[fFileDesc[c]] = None

\* What is armed or goes to select has a cookie; what select works on may have
\* been removed since.
Armed ==
  \A k \in Kinds :
    /\ \A fd \in sSet[k] : sCookieArray[fd] # None /\ fd <= sMaxFDPos
    /\ evpc = "call" => \A fd \in sReturned[k] : sCookieArray[fd] # None
    /\ evpc = "select" => \A fd \in polled[k] : sCookieArray[fd] # None \/ fd \in sFDsToClose

\* What has been armed since the masks were copied has the pipe written to.
Missed(masks) == \E k \in Kinds : ~(sSet[k] \subseteq masks[k])
Woken == pipe \/ \E c \in Contexts : tpc[c] = "poke"
Heard ==
  /\ evpc = "call" /\ Missed(sReturned) => Woken
  /\ evpc = "select" /\ Missed(polled) => Woken

IInv == Types /\ Descriptors /\ HaveIDs /\ Cookies /\ Armed /\ Heard

-----------------------------------------------------------------------------
(* IDs, as long as they do not start again.                                *)

NotWrapped == sUniqueID # kLastID

\* An ID is of one context, and later ones are greater.
OneOwner ==
  /\ \A c \in Contexts : fUniqueID[c] <= sUniqueID
  /\ \A c, d \in Contexts : fUniqueID[c] = fUniqueID[d] /\ fUniqueID[c] # 0 => c = d
  /\ \A fd \in FDs : sCookieArray[fd] # None => sCookieArray[fd] <= sUniqueID
  /\ evpc \in {"resolve", "process"} => event.er_data \in 1 .. sUniqueID

\* What has the ID of a cookie, or of an event, has its descriptor.
IDIsForFD ==
  \A c \in Contexts :
    /\ \A fd \in FDs : sCookieArray[fd] = fUniqueID[c] => fFileDesc[c] = fd
    /\ evpc \in {"resolve", "process"} /\ event.er_data = fUniqueID[c]
         => fFileDesc[c] = event.er_handle

\* A ref has the ID of its context until UnRegister has returned for it; the
\* event thread holds the one the event is for, while it processes it.
RefsOfContexts ==
  /\ \A c \in Contexts : c \notin ended => fString[c] = fUniqueID[c]
  /\ \A c \in Contexts : tpc[c] \in {"remove", "pokeClose"} => c \in ended
  /\ \A c, d \in holds[EventThread] : c = d
  /\ evpc \notin {"process", "release"} => holds[EventThread] = {}
  /\ evpc = "process" => \A c \in holds[EventThread] : fUniqueID[c] = event.er_data

Owner == OneOwner /\ IDIsForFD /\ RefsOfContexts

-----------------------------------------------------------------------------
(* Facts about the operators.                                              *)

LEMMA ConstantsOK ==
  /\ None \notin Contexts /\ None \notin FDs /\ None \notin Nat
  /\ FDs \subseteq Nat /\ 0 \notin FDs /\ MaxID \in Nat \ {0} /\ kLastID \in Nat
BY EventContextAssumption

LEMMA LeastNatural ==
  ASSUME NEW S \in SUBSET Nat, S # {}
  PROVE  \E n \in S : \A m \in S : n <= m
<1>1. PICK n \in S : \A m \in S : <<m, n>> \notin OpToRel(<, Nat)
  BY WFMin, NatLessThanWellFounded, Zenon
<1>2. \A m \in S : ~(m < n)
  <2>1. ASSUME NEW m \in S, m < n PROVE FALSE
    <3>1. <<m, n>> \in Nat \X Nat /\ <<m, n>>[1] < <<m, n>>[2]
      BY <2>1
    <3>2. <<m, n>> \in OpToRel(<, Nat)
      BY <3>1, Zenon DEF OpToRel
    <3> QED BY <1>1, <3>2, Zenon
  <2> QED BY <2>1
<1> QED BY <1>2

\* The loop finds a descriptor that select returned.
LEMMA MinIsIn ==
  ASSUME NEW S \in SUBSET Nat, S # {}
  PROVE  Min(S) \in S
<1>1. PICK n \in S : \A m \in S : n <= m
  BY LeastNatural
<1> QED BY <1>1 DEF Min

\* The highest of some descriptors is as high as each.
LEMMA MaxIsAbove ==
  ASSUME NEW S \in SUBSET Nat, S # {}, NEW b \in Nat, \A n \in S : n <= b
  PROVE  Max(S) \in S /\ \A n \in S : n <= Max(S)
<1> DEFINE Above == {m \in Nat : \A n \in S : n <= m}
<1>1. PICK m \in Above : \A l \in Above : m <= l
  <2>1. b \in Above
    OBVIOUS
  <2> QED BY <2>1, LeastNatural
<1>2. m \in S
  <2> SUFFICES ASSUME m \notin S PROVE FALSE
    OBVIOUS
  <2>1. m \in Nat /\ \A n \in S : n \in Nat /\ n <= m /\ n # m
    BY <1>1
  <2>2. PICK n \in S : TRUE
    OBVIOUS
  <2>3. m # 0
    BY <2>1, <2>2
  <2>4. m - 1 \in Above
    BY <2>1, <2>3
  <2>5. m <= m - 1
    BY <1>1, <2>4
  <2> QED BY <2>1, <2>5
<1>3. \E x \in S : \A y \in S : x >= y
  BY <1>2
<1>4. Max(S) \in S /\ \A y \in S : Max(S) >= y
  BY <1>3 DEF Max
<1> QED BY <1>4

\* No descriptor that stays in the masks is higher than HighestFD.
LEMMA HighestIsAbove ==
  ASSUME sSet' \in Masked, NEW b \in Nat, \A k \in Kinds : \A fd \in sSet'[k] : fd <= b
  PROVE  HighestFD \in Nat /\ \A k \in Kinds : \A fd \in sSet'[k] : fd <= HighestFD
<1> DEFINE S == {0} \cup UNION {sSet'[k] : k \in Kinds}
<1>1. S \in SUBSET Nat /\ S # {} /\ \A n \in S : n <= b
  <2>1. \A k \in Kinds : sSet'[k] \subseteq Nat
    BY ConstantsOK DEF Masked
  <2>2. ASSUME NEW n \in S PROVE n \in Nat /\ n <= b
    BY <2>1
  <2> QED BY <2>2
<1>2. Max(S) \in S /\ \A n \in S : n <= Max(S)
  BY <1>1, MaxIsAbove
<1> QED BY <1>1, <1>2 DEF HighestFD

LEMMA FindableType == Types => Findable \subseteq FDs /\ (Findable # {} => Min(Findable) \in Findable)
<1> SUFFICES ASSUME Types PROVE Findable \subseteq FDs /\ (Findable # {} => Min(Findable) \in Findable)
  OBVIOUS
<1>1. Scanned \in Kinds
  BY DEF Scanned, Kinds
<1>2. Findable \subseteq FDs
  BY <1>1 DEF Findable, Types, Masked
<1> QED BY <1>2, ConstantsOK, MinIsIn

-----------------------------------------------------------------------------
(* Types.                                                                  *)

LEMMA TypesInit == Init => Types
BY ConstantsOK DEF Init, Types, Masked, NoFDs, NoEvent, IDs

LEMMA TypesStep == IInv /\ [Next]_vars => Types'
<1> SUFFICES ASSUME IInv, [Next]_vars PROVE Types'
  OBVIOUS
<1> USE DEF maskvars, scanvars, fdvars, ctxvars, Goes, EventGoes
<1>0. Types /\ 1 \in IDs /\ None \notin IDs
  BY ConstantsOK DEF IDs, IInv
<1>1. ASSUME NEW c \in Contexts, NEW fd \in FDs, Open(c, fd) PROVE Types'
  BY <1>0, <1>1 DEF Open, Types
<1>2. ASSUME NEW c \in Contexts, RequestFirst(c) PROVE Types'
  BY <1>0, <1>2 DEF RequestFirst, TakesID, Types
<1>3. ASSUME NEW c \in Contexts, AddID(c) PROVE Types'
  <2>1. sUniqueID + 1 \in IDs
    BY <1>0, <1>3, ConstantsOK DEF AddID, Types, IDs
  <2> QED BY <1>0, <1>3, <2>1 DEF AddID, TakesID, CountsUp, Types
<1>4. ASSUME NEW c \in Contexts, ModWatch(c) PROVE Types'
  <2>1. fFileDesc[c] \in FDs /\ fUniqueID[c] \in IDs
    BY <1>0, <1>4 DEF ModWatch, IInv, Types, Descriptors, HaveIDs, Owns
  <2>2. sSet' \in Masked
    BY <1>0, <1>4, <2>1 DEF ModWatch, Types, Masked
  <2> QED BY <1>0, <1>4, <2>1, <2>2, ConstantsOK DEF ModWatch, Types
<1>5. ASSUME NEW c \in Contexts, NEW k \in Kinds, Use(c, k) PROVE Types'
  <2>1. ready' \in Masked
    BY <1>0, <1>5 DEF Use, Types, Masked
  <2> QED BY <1>0, <1>5, <2>1 DEF Use, Types
<1>6. ASSUME NEW c \in Contexts, CleanupUnwatched(c) PROVE Types'
  <2>1. ready' \in Masked
    BY <1>0, <1>6 DEF CleanupUnwatched, Types, Masked
  <2> QED BY <1>0, <1>6, <2>1 DEF CleanupUnwatched, Types
<1>7. ASSUME NEW c \in Contexts, RemoveEvent(c) PROVE Types'
  <2>1. fFileDesc[c] \in FDs
    BY <1>0, <1>7 DEF RemoveEvent, IInv, Types, Descriptors, Owns
  <2>2. sSet' \in Masked /\ sReturned' \in Masked
    BY <1>0, <1>7 DEF RemoveEvent, Disarms, Types, Masked
  <2>3. sMaxFDPos' \in Nat
    <3>1. \A k \in Kinds : \A fd \in sSet'[k] : fd <= sMaxFDPos
      BY <1>0, <1>7 DEF RemoveEvent, Disarms, IInv, Armed, Types, Masked
    <3> QED BY <1>0, <1>7, <2>2, <3>1, HighestIsAbove DEF RemoveEvent, Types
  <2> QED BY <1>0, <1>7, <2>1, <2>2, <2>3 DEF RemoveEvent, ClosesLater, Types
<1>8. CASE SelectReturns \/ SelectTimesOut \/ CopyMasks \/ CallSelect
  <2>1. sReturned' \in Masked /\ polled' \in Masked
    BY <1>0, <1>8 DEF SelectReturns, SelectTimesOut, CopyMasks, CallSelect, Types, Masked, NoFDs
  <2> QED BY <1>0, <1>8, <2>1 DEF SelectReturns, SelectTimesOut, CopyMasks, CallSelect, Types
<1>9. CASE CloseRemoved
  <2>1. ready' \in Masked
    BY <1>0, <1>9 DEF CloseRemoved, Types, Masked
  <2> QED BY <1>0, <1>9, <2>1 DEF CloseRemoved, Types
<1>10. CASE Construct
  <2>1. Min(Findable) \in FDs
    BY <1>0, <1>10, FindableType DEF Construct
  <2>2. sSet' \in Masked /\ sReturned' \in Masked
    BY <1>0, <1>10, <2>1 DEF Construct, Disarms, Types, Masked
  <2> QED BY <1>0, <1>10, <2>1, <2>2 DEF Construct, Types, NoEvent
<1>11. CASE Resolve \/ Release
  BY <1>0, <1>11 DEF Resolve, Release, Types, NoEvent
<1>12. CASE \/ DrainPipe \/ NextMask \/ ProcessEvent \/ UNCHANGED vars
  BY <1>0, <1>12 DEF DrainPipe, NextMask, ProcessEvent, vars, Types
<1>13. ASSUME NEW fd \in FDs, NEW k \in Kinds, BecomesReady(fd, k) PROVE Types'
  <2>1. ready' \in Masked
    BY <1>0, <1>13 DEF BecomesReady, Types, Masked
  <2> QED BY <1>0, <1>13, <2>1 DEF BecomesReady, Types
<1>14. ASSUME NEW c \in Contexts,
              \/ Register(c) \/ RequestAgain(c) \/ Poke(c) \/ Wake(c) \/ WaitEnds(c)
              \/ CleanupUnregisters(c) \/ CleanupEnds(c)
       PROVE  Types'
  BY <1>0, <1>14 DEF Register, RequestAgain, Poke, Wake, WaitEnds, CleanupUnregisters, CleanupEnds,
                     Types
<1> QED BY <1>1, <1>2, <1>3, <1>4, <1>5, <1>6, <1>7, <1>8, <1>9, <1>10, <1>11, <1>12, <1>13, <1>14
        DEF Next, EventThreadStep, TaskStep

-----------------------------------------------------------------------------
(* Descriptors and their cookies.                                          *)

\* The steps of a task that leave its descriptor and its ID alone.
KeepsAll(c) ==
  Register(c) \/ RequestAgain(c) \/ ModWatch(c) \/ Poke(c) \/ Wake(c) \/ CleanupUnregisters(c)

LEMMA DescriptorsStep == IInv /\ [Next]_vars => Descriptors'
<1> SUFFICES ASSUME IInv, [Next]_vars PROVE Descriptors'
  OBVIOUS
<1> USE DEF maskvars, scanvars, fdvars, ctxvars, Goes, EventGoes
<1>0. Types /\ Descriptors
  BY DEF IInv
<1>1. ASSUME UNCHANGED <<fds, sFDsToClose, fFileDesc, tpc>> PROVE Descriptors'
  BY <1>0, <1>1 DEF Descriptors, Owns
<1>2. ASSUME NEW c \in Contexts, NEW fd \in FDs, Open(c, fd) PROVE Descriptors'
  <2>1. /\ fds' = fds \cup {fd} /\ fd \notin fds /\ UNCHANGED sFDsToClose
        /\ fFileDesc' = [fFileDesc EXCEPT ![c] = fd] /\ tpc' = [tpc EXCEPT ![c] = "runs"]
    BY <1>2 DEF Open
  <2>2. \A d \in Contexts \ {c} : (Owns(d)' <=> Owns(d)) /\ fFileDesc'[d] = fFileDesc[d]
    BY <1>0, <2>1 DEF Owns, Types
  <2>3. fFileDesc'[c] = fd
    BY <1>0, <2>1 DEF Types
  <2> QED BY <1>0, <2>1, <2>2, <2>3 DEF Descriptors
<1>3. ASSUME NEW c \in Contexts,
             KeepsAll(c) \/ RequestFirst(c) \/ AddID(c)
      PROVE  Descriptors'
  <2>1. UNCHANGED <<fds, sFDsToClose, fFileDesc>>
    BY <1>3 DEF KeepsAll, Register, RequestAgain, ModWatch, Poke, Wake, CleanupUnregisters,
                RequestFirst, AddID, TakesID
  <2>2. tpc' = [tpc EXCEPT ![c] = tpc'[c]] /\ tpc[c] \notin {"none", "pokeClose"}
    BY <1>0, <1>3 DEF KeepsAll, Register, RequestAgain, ModWatch, Poke, Wake, CleanupUnregisters,
                RequestFirst, AddID, Types, Unregisters
  <2>3. \A d \in Contexts : Owns(d)' => Owns(d)
    BY <1>0, <2>2 DEF Owns, Types
  <2> QED BY <1>0, <2>1, <2>3 DEF Descriptors
<1>4. ASSUME NEW c \in Contexts, CleanupUnwatched(c) PROVE Descriptors'
  <2>1. /\ fds' = fds \ {fFileDesc[c]} /\ UNCHANGED sFDsToClose
        /\ fFileDesc' = [fFileDesc EXCEPT ![c] = None] /\ tpc' = [tpc EXCEPT ![c] = "none"]
    BY <1>4 DEF CleanupUnwatched
  <2>2. /\ ~Owns(c)' /\ Owns(c)
        /\ \A d \in Contexts \ {c} : (Owns(d)' <=> Owns(d)) /\ fFileDesc'[d] = fFileDesc[d]
    BY <1>0, <1>4, <2>1 DEF Owns, Types, CleanupUnwatched
  <2> QED BY <1>0, <2>1, <2>2 DEF Descriptors
<1>5. ASSUME NEW c \in Contexts, RemoveEvent(c) PROVE Descriptors'
  <2>1. /\ sFDsToClose' = sFDsToClose \cup {fFileDesc[c]} /\ UNCHANGED <<fds, fFileDesc>>
        /\ tpc' = [tpc EXCEPT ![c] = "pokeClose"]
    BY <1>5 DEF RemoveEvent, ClosesLater
  <2>2. /\ ~Owns(c)' /\ Owns(c)
        /\ \A d \in Contexts \ {c} : Owns(d)' <=> Owns(d)
    BY <1>0, <1>5, <2>1 DEF Owns, Types, RemoveEvent
  <2> QED BY <1>0, <2>1, <2>2 DEF Descriptors
<1>6. ASSUME NEW c \in Contexts, CleanupEnds(c) PROVE Descriptors'
  <2>1. /\ UNCHANGED <<fds, sFDsToClose>>
        /\ fFileDesc' = [fFileDesc EXCEPT ![c] = None] /\ tpc' = [tpc EXCEPT ![c] = "none"]
    BY <1>6 DEF CleanupEnds
  <2>2. /\ ~Owns(c)'
        /\ \A d \in Contexts \ {c} : (Owns(d)' <=> Owns(d)) /\ fFileDesc'[d] = fFileDesc[d]
    BY <1>0, <2>1 DEF Owns, Types
  <2> QED BY <1>0, <2>1, <2>2 DEF Descriptors
<1>7. CASE CloseRemoved
  <2>1. fds' = fds \ sFDsToClose /\ sFDsToClose' = {} /\ UNCHANGED <<fFileDesc, tpc>>
    BY <1>7 DEF CloseRemoved
  <2> QED BY <1>0, <2>1 DEF Descriptors, Owns
<1>8. ASSUME \/ CopyMasks \/ CallSelect \/ SelectReturns \/ SelectTimesOut \/ DrainPipe
             \/ Construct \/ NextMask \/ Resolve \/ ProcessEvent \/ Release \/ UNCHANGED vars
             \/ \E fd \in FDs, k \in Kinds : BecomesReady(fd, k)
             \/ \E c \in Contexts : WaitEnds(c) \/ \E k \in Kinds : Use(c, k)
      PROVE  UNCHANGED <<fds, sFDsToClose, fFileDesc, tpc>>
  BY <1>8 DEF CopyMasks, CallSelect, SelectReturns, SelectTimesOut, DrainPipe, Construct, NextMask,
              Resolve, ProcessEvent, Release, vars, BecomesReady, WaitEnds, Use
<1> QED BY <1>1, <1>2, <1>3, <1>4, <1>5, <1>6, <1>7, <1>8
        DEF Next, EventThreadStep, TaskStep, KeepsAll

LEMMA HaveIDsStep == IInv /\ [Next]_vars => HaveIDs'
<1> SUFFICES ASSUME IInv, [Next]_vars PROVE HaveIDs'
  OBVIOUS
<1> USE DEF maskvars, scanvars, fdvars, ctxvars, Goes, EventGoes
<1>0. Types /\ HaveIDs
  BY DEF IInv
<1>1. ASSUME UNCHANGED <<fUniqueID, tpc>> PROVE HaveIDs'
  BY <1>0, <1>1 DEF HaveIDs
<1>2. ASSUME NEW c \in Contexts,
             \/ \E fd \in FDs : Open(c, fd)
             \/ KeepsAll(c) \/ RequestFirst(c) \/ AddID(c)
             \/ CleanupUnwatched(c) \/ RemoveEvent(c) \/ CleanupEnds(c)
      PROVE  HaveIDs'
  <2>1. /\ tpc' = [tpc EXCEPT ![c] = tpc'[c]]
        /\ \A d \in Contexts \ {c} : tpc'[d] = tpc[d] /\ fUniqueID'[d] = fUniqueID[d]
    BY <1>0, <1>2 DEF Open, KeepsAll, Register, RequestAgain, ModWatch, Poke, Wake,
         CleanupUnregisters, RequestFirst, AddID, CleanupUnwatched, RemoveEvent, CleanupEnds,
         TakesID, Types
  <2>2. CASE \/ RequestFirst(c) \/ AddID(c)
    <3>1. 1 # 0 /\ sUniqueID + 1 # 0
      BY <1>0 DEF Types, IDs
    <3>2. /\ tpc'[c] \in {"none", "add"} => fUniqueID'[c] = 0
          /\ tpc'[c] \notin {"none", "add", "runs"} => fUniqueID'[c] # 0
      BY <1>0, <2>2, <3>1 DEF RequestFirst, AddID, TakesID, fWatchEventCalled, Types
    <3> QED BY <1>0, <2>1, <3>2 DEF HaveIDs
  <2>3. CASE \/ \E fd \in FDs : Open(c, fd)
             \/ KeepsAll(c) \/ CleanupUnwatched(c) \/ RemoveEvent(c) \/ CleanupEnds(c)
    <3>1. CASE tpc[c] = "runs"
      <4>1. /\ tpc'[c] \in {"none", "add"} => fUniqueID'[c] = 0
            /\ tpc'[c] \notin {"none", "add", "runs"} => fUniqueID'[c] # 0
        BY <1>0, <2>3, <3>1 DEF Open, KeepsAll, Register, RequestAgain, ModWatch, Poke, Wake,
             CleanupUnregisters, CleanupUnwatched, RemoveEvent, CleanupEnds, fWatchEventCalled,
             Unregisters, Types
      <4> QED BY <1>0, <2>1, <4>1 DEF HaveIDs
    <3>2. CASE tpc[c] # "runs"
      <4>1. \/ tpc[c] \notin {"none", "add", "runs"} /\ UNCHANGED fUniqueID
               /\ tpc'[c] \notin {"none", "add"}
            \/ tpc'[c] = "runs"
            \/ tpc'[c] = "none" /\ fUniqueID'[c] = 0
        BY <1>0, <2>3, <3>2 DEF Open, KeepsAll, Register, RequestAgain, ModWatch, Poke, Wake,
             CleanupUnregisters, CleanupUnwatched, RemoveEvent, CleanupEnds, fWatchEventCalled,
             Unregisters, Types
      <4> QED BY <1>0, <2>1, <4>1 DEF HaveIDs
    <3> QED BY <3>1, <3>2
  <2> QED BY <1>2, <2>2, <2>3
<1>3. ASSUME \/ CopyMasks \/ CallSelect \/ SelectReturns \/ SelectTimesOut \/ DrainPipe
             \/ Construct \/ NextMask \/ Resolve \/ ProcessEvent \/ Release \/ UNCHANGED vars
             \/ CloseRemoved
             \/ \E fd \in FDs, k \in Kinds : BecomesReady(fd, k)
             \/ \E c \in Contexts : WaitEnds(c) \/ \E k \in Kinds : Use(c, k)
      PROVE  UNCHANGED <<fUniqueID, tpc>>
  BY <1>3 DEF CopyMasks, CallSelect, SelectReturns, SelectTimesOut, DrainPipe, Construct, NextMask,
              Resolve, ProcessEvent, Release, vars, BecomesReady, WaitEnds, Use, CloseRemoved
<1> QED BY <1>1, <1>2, <1>3 DEF Next, EventThreadStep, TaskStep, KeepsAll

LEMMA CookiesStep == IInv /\ [Next]_vars => Cookies'
<1> SUFFICES ASSUME IInv, [Next]_vars PROVE Cookies'
  OBVIOUS
<1> USE DEF maskvars, scanvars, fdvars, ctxvars, Goes, EventGoes
<1>0. Types /\ Descriptors /\ Cookies /\ HaveIDs /\ 0 \notin IDs
  BY DEF IInv, IDs
\* Cookies stay, and so do their descriptors.
<1>a. ASSUME UNCHANGED <<sCookieArray, fds, sFDsToClose, fFileDesc>>,
             \A d \in Contexts : /\ Owns(d)' => Owns(d)
                                 /\ fUniqueID'[d] = 0 => fUniqueID[d] = 0
      PROVE  Cookies'
  BY <1>0, <1>a DEF Cookies
<1>1. ASSUME NEW c \in Contexts, NEW fd \in FDs, Open(c, fd) PROVE Cookies'
  <2>1. /\ fds' = fds \cup {fd} /\ fd \notin fds
        /\ UNCHANGED <<sFDsToClose, sCookieArray, fUniqueID>>
        /\ fFileDesc' = [fFileDesc EXCEPT ![c] = fd] /\ tpc' = [tpc EXCEPT ![c] = "runs"]
    BY <1>1 DEF Open
  <2>2. \A d \in Contexts \ {c} : (Owns(d)' <=> Owns(d)) /\ fFileDesc'[d] = fFileDesc[d]
    BY <1>0, <2>1 DEF Owns, Types
  <2>3. fFileDesc'[c] = fd /\ sCookieArray[fd] = None
    BY <1>0, <2>1 DEF Types, Cookies
  <2> QED BY <1>0, <2>1, <2>2, <2>3 DEF Cookies, Descriptors
<1>2. ASSUME NEW c \in Contexts, RequestFirst(c) \/ AddID(c) PROVE Cookies'
  <2>1. UNCHANGED <<sCookieArray, fds, sFDsToClose, fFileDesc>>
    BY <1>2 DEF RequestFirst, AddID, TakesID
  <2>2. \A d \in Contexts : Owns(d)' => Owns(d)
    BY <1>0, <1>2 DEF RequestFirst, AddID, Owns, Types
  <2>3. \A d \in Contexts : fUniqueID'[d] = 0 => fUniqueID[d] = 0
    BY <1>0, <1>2 DEF RequestFirst, AddID, TakesID, Types, IDs
  <2> QED BY <1>a, <2>1, <2>2, <2>3
<1>3. ASSUME NEW c \in Contexts, ModWatch(c) PROVE Cookies'
  <2>1. /\ Owns(c) /\ fUniqueID[c] # 0 /\ UNCHANGED <<fds, sFDsToClose, fFileDesc, fUniqueID>>
        /\ sCookieArray' = [sCookieArray EXCEPT ![fFileDesc[c]] = fUniqueID[c]]
        /\ tpc' = [tpc EXCEPT ![c] = "poke"]
    BY <1>0, <1>3 DEF ModWatch, Owns, HaveIDs
  <2>2. \A d \in Contexts : Owns(d)' => Owns(d)
    BY <1>0, <2>1 DEF Owns, Types
  <2>3. ASSUME NEW fd \in FDs, sCookieArray'[fd] # None PROVE fd \in fds' \ sFDsToClose'
    BY <1>0, <2>1, <2>3 DEF Cookies, Descriptors, Types
  <2>4. ASSUME NEW d \in Contexts, Owns(d)', fUniqueID'[d] = 0
        PROVE  sCookieArray'[fFileDesc'[d]] = None
    <3>1. Owns(d) /\ fUniqueID[d] = 0 /\ fFileDesc[d] # fFileDesc[c]
      BY <1>0, <2>1, <2>2, <2>4 DEF Descriptors
    <3> QED BY <1>0, <2>1, <3>1 DEF Cookies, Descriptors, Types
  <2> QED BY <2>3, <2>4 DEF Cookies
<1>4. ASSUME NEW c \in Contexts, CleanupUnwatched(c) PROVE Cookies'
  <2>1. /\ Owns(c) /\ fUniqueID[c] = 0
        /\ fds' = fds \ {fFileDesc[c]} /\ UNCHANGED <<sFDsToClose, sCookieArray, fUniqueID>>
        /\ fFileDesc' = [fFileDesc EXCEPT ![c] = None] /\ tpc' = [tpc EXCEPT ![c] = "none"]
    BY <1>4 DEF CleanupUnwatched, Owns, fWatchEventCalled
  <2>2. /\ ~Owns(c)'
        /\ \A d \in Contexts \ {c} : (Owns(d)' <=> Owns(d)) /\ fFileDesc'[d] = fFileDesc[d]
    BY <1>0, <2>1 DEF Owns, Types
  <2> QED BY <1>0, <2>1, <2>2 DEF Cookies
<1>5. ASSUME NEW c \in Contexts, RemoveEvent(c) PROVE Cookies'
  <2>1. /\ Owns(c) /\ UNCHANGED <<fds, fFileDesc, fUniqueID>>
        /\ sFDsToClose' = sFDsToClose \cup {fFileDesc[c]}
        /\ sCookieArray' = [sCookieArray EXCEPT ![fFileDesc[c]] = None]
        /\ tpc' = [tpc EXCEPT ![c] = "pokeClose"]
    BY <1>5 DEF RemoveEvent, ClosesLater, Owns
  <2>2. ~Owns(c)' /\ \A d \in Contexts \ {c} : Owns(d)' <=> Owns(d)
    BY <1>0, <2>1 DEF Owns, Types
  <2>3. fFileDesc[c] \in FDs
    BY <1>0, <2>1 DEF Descriptors, Types
  <2>4. ASSUME NEW fd \in FDs, sCookieArray'[fd] # None PROVE fd \in fds' \ sFDsToClose'
    <3>1. fd # fFileDesc[c] /\ sCookieArray[fd] # None
      BY <1>0, <2>1, <2>3, <2>4 DEF Types
    <3> QED BY <1>0, <2>1, <3>1 DEF Cookies
  <2>5. ASSUME NEW d \in Contexts, Owns(d)', fUniqueID'[d] = 0
        PROVE  sCookieArray'[fFileDesc'[d]] = None
    <3>1. Owns(d) /\ fUniqueID[d] = 0 /\ fFileDesc[d] \in FDs
      BY <1>0, <2>1, <2>2, <2>5 DEF Descriptors, Types
    <3> QED BY <1>0, <2>1, <3>1 DEF Cookies, Types
  <2> QED BY <2>4, <2>5 DEF Cookies
<1>6. ASSUME NEW c \in Contexts, CleanupEnds(c) PROVE Cookies'
  <2>1. /\ UNCHANGED <<fds, sFDsToClose, sCookieArray>>
        /\ fFileDesc' = [fFileDesc EXCEPT ![c] = None] /\ tpc' = [tpc EXCEPT ![c] = "none"]
        /\ fUniqueID' = [fUniqueID EXCEPT ![c] = 0]
    BY <1>6 DEF CleanupEnds
  <2>2. /\ ~Owns(c)'
        /\ \A d \in Contexts \ {c} : /\ Owns(d)' <=> Owns(d)
                                     /\ fFileDesc'[d] = fFileDesc[d] /\ fUniqueID'[d] = fUniqueID[d]
    BY <1>0, <2>1 DEF Owns, Types
  <2> QED BY <1>0, <2>1, <2>2 DEF Cookies
<1>7. CASE CloseRemoved
  <2>1. /\ fds' = fds \ sFDsToClose /\ sFDsToClose' = {}
        /\ UNCHANGED <<fFileDesc, tpc, sCookieArray, fUniqueID>>
    BY <1>7 DEF CloseRemoved
  <2> QED BY <1>0, <2>1 DEF Cookies, Owns
<1>8. ASSUME NEW c \in Contexts, KeepsAll(c), ~ModWatch(c) PROVE Cookies'
  <2>1. UNCHANGED <<sCookieArray, fds, sFDsToClose, fFileDesc, fUniqueID>>
    BY <1>8 DEF KeepsAll, Register, RequestAgain, Poke, Wake, CleanupUnregisters
  <2>2. tpc' = [tpc EXCEPT ![c] = tpc'[c]] /\ tpc[c] \notin {"none", "pokeClose"}
    BY <1>0, <1>8 DEF KeepsAll, Register, RequestAgain, Poke, Wake, CleanupUnregisters, Types,
                      Unregisters
  <2>3. \A d \in Contexts : Owns(d)' => Owns(d)
    BY <1>0, <2>2 DEF Owns, Types
  <2> QED BY <1>a, <2>1, <2>3
<1>9. ASSUME \/ CopyMasks \/ CallSelect \/ SelectReturns \/ SelectTimesOut \/ DrainPipe
             \/ Construct \/ NextMask \/ Resolve \/ ProcessEvent \/ Release \/ UNCHANGED vars
             \/ \E fd \in FDs, k \in Kinds : BecomesReady(fd, k)
             \/ \E c \in Contexts : WaitEnds(c) \/ \E k \in Kinds : Use(c, k)
      PROVE  Cookies'
  <2>1. UNCHANGED <<sCookieArray, fds, sFDsToClose, fFileDesc, tpc, fUniqueID>>
    BY <1>9 DEF CopyMasks, CallSelect, SelectReturns, SelectTimesOut, DrainPipe, Construct, NextMask,
                Resolve, ProcessEvent, Release, vars, BecomesReady, WaitEnds, Use
  <2> QED BY <1>a, <2>1 DEF Owns
<1> QED BY <1>1, <1>2, <1>3, <1>4, <1>5, <1>6, <1>7, <1>8, <1>9
        DEF Next, EventThreadStep, TaskStep, KeepsAll

-----------------------------------------------------------------------------
(* Masks.                                                                  *)

LEMMA ArmedStep == IInv /\ [Next]_vars => Armed'
<1> SUFFICES ASSUME IInv, [Next]_vars PROVE Armed'
  OBVIOUS
<1> USE DEF maskvars, scanvars, fdvars, ctxvars, Goes, EventGoes
<1>0. Types /\ Descriptors /\ Armed /\ HaveIDs /\ Types'
  BY TypesStep DEF IInv
<1>1. ASSUME NEW c \in Contexts, ModWatch(c) PROVE Armed'
  <2>1. PICK mask \in Masks :
          sSet' = [k \in Kinds |-> IF k \in mask THEN sSet[k] \cup {fFileDesc[c]}
                                                 ELSE sSet[k] \ {fFileDesc[c]}]
    BY <1>1 DEF ModWatch
  <2>2. /\ sMaxFDPos' = IF fFileDesc[c] > sMaxFDPos THEN fFileDesc[c] ELSE sMaxFDPos
        /\ sCookieArray' = [sCookieArray EXCEPT ![fFileDesc[c]] = fUniqueID[c]]
        /\ UNCHANGED <<sFDsToClose, sReturned, polled, evpc>>
    BY <1>1 DEF ModWatch
  <2>3. fFileDesc[c] \in FDs /\ fFileDesc[c] \in Nat /\ fUniqueID[c] # None
    <3>1. fFileDesc[c] \in FDs
      BY <1>0, <1>1 DEF ModWatch, Descriptors, Owns, Types
    <3>2. IDs \cup {0} \subseteq Nat
      BY DEF IDs
    <3>3. fUniqueID[c] \in Nat
      BY <1>0, <3>2 DEF Types
    <3> QED BY <3>1, <3>3, ConstantsOK
  <2>4. \A fd \in FDs : sCookieArray[fd] # None => sCookieArray'[fd] # None
    BY <1>0, <2>2, <2>3 DEF Types
  <2>5. sCookieArray'[fFileDesc[c]] # None
    BY <1>0, <2>2, <2>3 DEF Types
  <2>6. sMaxFDPos' >= fFileDesc[c] /\ sMaxFDPos' >= sMaxFDPos /\ FDs \subseteq Nat
        /\ sMaxFDPos \in Nat /\ sMaxFDPos' \in Nat
    BY <1>0, <2>2, <2>3, ConstantsOK DEF Types
  <2>7. ASSUME NEW k \in Kinds, NEW fd \in sSet'[k]
        PROVE  sCookieArray'[fd] # None /\ fd <= sMaxFDPos'
    <3>1. fd \in FDs /\ (fd \in sSet[k] \/ fd = fFileDesc[c])
      BY <1>0, <2>1, <2>3, <2>7 DEF Types, Masked
    <3>2. fd \in sSet[k] => sCookieArray[fd] # None /\ fd <= sMaxFDPos
      BY <1>0 DEF Armed
    <3>3. fd \in Nat /\ fFileDesc[c] \in Nat
      BY <2>3, <2>6, <3>1
    <3>4. fd <= sMaxFDPos'
      BY <2>6, <3>1, <3>2, <3>3
    <3>5. sCookieArray'[fd] # None
      BY <2>4, <2>5, <3>1, <3>2
    <3> QED BY <3>4, <3>5
  <2>8. ASSUME NEW k \in Kinds PROVE sReturned[k] \subseteq FDs /\ polled[k] \subseteq FDs
    BY <1>0 DEF Types, Masked
  <2> QED BY <1>0, <2>2, <2>4, <2>7, <2>8 DEF Armed
<1>2. ASSUME NEW c \in Contexts, RemoveEvent(c) PROVE Armed'
  <2> DEFINE gone == fFileDesc[c]
  <2>1. /\ sSet' = [k \in Kinds |-> sSet[k] \ {gone}]
        /\ sReturned' = [k \in Kinds |-> sReturned[k] \ {gone}]
        /\ sCookieArray' = [sCookieArray EXCEPT ![gone] = None]
        /\ sMaxFDPos' = IF gone = sMaxFDPos THEN HighestFD ELSE sMaxFDPos
        /\ sFDsToClose' = sFDsToClose \cup {gone}
        /\ UNCHANGED <<polled, evpc>>
    BY <1>2 DEF RemoveEvent, Disarms, ClosesLater
  <2>2. gone \in FDs
    BY <1>0, <1>2 DEF RemoveEvent, Descriptors, Owns, Types
  <2>3. \A fd \in FDs : fd # gone /\ sCookieArray[fd] # None => sCookieArray'[fd] # None
    BY <1>0, <2>1, <2>2 DEF Types
  <2>4. \A k \in Kinds : \A fd \in sSet'[k] : fd <= sMaxFDPos /\ sCookieArray'[fd] # None
    BY <1>0, <2>1, <2>3 DEF Armed, Types, Masked
  <2>5. \A k \in Kinds : \A fd \in sSet'[k] : fd <= sMaxFDPos'
    BY <1>0, <2>1, <2>4, HighestIsAbove DEF Types
  <2>6. evpc' = "call" => \A k \in Kinds : \A fd \in sReturned'[k] : sCookieArray'[fd] # None
    BY <1>0, <2>1, <2>3 DEF Armed, Types, Masked
  <2>7. evpc' = "select" => \A k \in Kinds : \A fd \in polled'[k] :
                              sCookieArray'[fd] # None \/ fd \in sFDsToClose'
    BY <1>0, <2>1, <2>3 DEF Armed, Types, Masked
  <2> QED BY <2>4, <2>5, <2>6, <2>7 DEF Armed
<1>3. CASE CopyMasks \/ CallSelect
  BY <1>0, <1>3 DEF CopyMasks, CallSelect, Armed
<1>4. CASE SelectReturns \/ SelectTimesOut
  <2>1. UNCHANGED <<sSet, sCookieArray, sMaxFDPos>> /\ evpc' \notin {"call", "select"}
    BY <1>4 DEF SelectReturns, SelectTimesOut
  <2> QED BY <1>0, <2>1 DEF Armed
<1>5. CASE Construct
  <2>1. /\ sSet' = [k \in Kinds |-> sSet[k] \ {Min(Findable)}] /\ evpc' \notin {"call", "select"}
        /\ UNCHANGED <<sCookieArray, sMaxFDPos>>
    BY <1>5 DEF Construct, Disarms
  <2> QED BY <1>0, <2>1 DEF Armed
<1>6. CASE CloseRemoved \/ DrainPipe \/ NextMask \/ Resolve \/ ProcessEvent \/ Release
  <2>1. UNCHANGED <<sSet, sCookieArray, sMaxFDPos>> /\ evpc' \notin {"call", "select"}
    BY <1>6 DEF CloseRemoved, DrainPipe, NextMask, Resolve, ProcessEvent, Release
  <2> QED BY <1>0, <2>1 DEF Armed
<1>7. ASSUME \/ UNCHANGED vars \/ \E fd \in FDs, k \in Kinds : BecomesReady(fd, k)
             \/ \E c \in Contexts :
                  \/ \E fd \in FDs : Open(c, fd)
                  \/ RequestFirst(c) \/ AddID(c) \/ Register(c) \/ RequestAgain(c) \/ Poke(c)
                  \/ Wake(c) \/ CleanupUnregisters(c) \/ WaitEnds(c) \/ CleanupUnwatched(c)
                  \/ CleanupEnds(c) \/ \E k \in Kinds : Use(c, k)
      PROVE  Armed'
  <2>1. UNCHANGED <<sSet, sCookieArray, sMaxFDPos, sReturned, polled, sFDsToClose, evpc>>
    BY <1>7 DEF vars, BecomesReady, Open, RequestFirst, AddID, Register, RequestAgain, Poke, Wake,
                CleanupUnregisters, WaitEnds, CleanupUnwatched, CleanupEnds, Use
  <2> QED BY <1>0, <2>1 DEF Armed
<1> QED BY <1>1, <1>2, <1>3, <1>4, <1>5, <1>6, <1>7 DEF Next, EventThreadStep, TaskStep

LEMMA HeardStep == IInv /\ [Next]_vars => Heard'
<1> SUFFICES ASSUME IInv, [Next]_vars PROVE Heard'
  OBVIOUS
<1> USE DEF maskvars, scanvars, fdvars, ctxvars, Goes, EventGoes
<1>0. Types /\ Heard
  BY DEF IInv
<1>1. ASSUME NEW c \in Contexts, ModWatch(c) PROVE Heard'
  <2>1. tpc'[c] = "poke"
    BY <1>0, <1>1 DEF ModWatch, Types
  <2> QED BY <2>1 DEF Heard, Woken
<1>2. ASSUME NEW c \in Contexts, Poke(c) \/ CleanupEnds(c) PROVE Heard'
  <2>1. pipe' = TRUE
    BY <1>2 DEF Poke, CleanupEnds, WritesPipe
  <2> QED BY <2>1 DEF Heard, Woken
<1>3. ASSUME NEW c \in Contexts, RemoveEvent(c) PROVE Heard'
  <2>1. /\ sSet' = [k \in Kinds |-> sSet[k] \ {fFileDesc[c]}]
        /\ sReturned' = [k \in Kinds |-> sReturned[k] \ {fFileDesc[c]}]
        /\ UNCHANGED <<polled, evpc, pipe>>
        /\ tpc' = [tpc EXCEPT ![c] = "pokeClose"] /\ tpc[c] = "remove"
    BY <1>3 DEF RemoveEvent, Disarms
  <2>2. Woken => Woken'
    BY <1>0, <2>1 DEF Woken, Types
  <2>3. (Missed(sReturned)' => Missed(sReturned)) /\ (Missed(polled)' => Missed(polled))
    BY <2>1 DEF Missed
  <2> QED BY <1>0, <2>1, <2>2, <2>3 DEF Heard
<1>4. CASE CopyMasks \/ CallSelect
  <2>1. /\ UNCHANGED <<sSet, pipe, tpc>>
        /\ \/ evpc' = "call" /\ sReturned' = sSet
           \/ evpc = "call" /\ evpc' = "select" /\ polled' = sReturned
    BY <1>4 DEF CopyMasks, CallSelect
  <2> QED BY <1>0, <2>1 DEF Heard, Missed, Woken
<1>5. CASE \/ SelectReturns \/ SelectTimesOut \/ CloseRemoved \/ DrainPipe \/ Construct
           \/ NextMask \/ Resolve \/ ProcessEvent \/ Release
  <2>1. evpc' \notin {"call", "select"}
    BY <1>5 DEF SelectReturns, SelectTimesOut, CloseRemoved, DrainPipe, Construct, NextMask, Resolve,
                ProcessEvent, Release
  <2> QED BY <2>1 DEF Heard
<1>6. ASSUME \/ UNCHANGED vars \/ \E fd \in FDs, k \in Kinds : BecomesReady(fd, k)
             \/ \E c \in Contexts : WaitEnds(c) \/ \E k \in Kinds : Use(c, k)
      PROVE  Heard'
  <2>1. UNCHANGED <<sSet, sReturned, polled, pipe, evpc, tpc>>
    BY <1>6 DEF vars, BecomesReady, WaitEnds, Use
  <2> QED BY <1>0, <2>1 DEF Heard, Missed, Woken
<1>7. ASSUME NEW c \in Contexts,
             \/ \E fd \in FDs : Open(c, fd)
             \/ RequestFirst(c) \/ AddID(c) \/ Register(c) \/ RequestAgain(c)
             \/ Wake(c) \/ CleanupUnregisters(c) \/ CleanupUnwatched(c)
      PROVE  Heard'
  <2>1. UNCHANGED <<sSet, sReturned, polled, pipe, evpc>>
    BY <1>7 DEF Open, RequestFirst, AddID, Register, RequestAgain, Wake, CleanupUnregisters,
                CleanupUnwatched
  <2>2. tpc' = [tpc EXCEPT ![c] = tpc'[c]] /\ tpc[c] # "poke"
    BY <1>0, <1>7 DEF Open, RequestFirst, AddID, Register, RequestAgain, Wake, CleanupUnregisters,
                CleanupUnwatched, Types, Unregisters
  <2>3. Woken => Woken'
    BY <1>0, <2>1, <2>2 DEF Woken, Types
  <2> QED BY <1>0, <2>1, <2>3 DEF Heard, Missed
<1> QED BY <1>1, <1>2, <1>3, <1>4, <1>5, <1>6, <1>7 DEF Next, EventThreadStep, TaskStep

LEMMA IInvInit == Init => IInv
<1>1. Init => Types
  BY TypesInit
<1> QED BY <1>1 DEF Init, IInv, Descriptors, HaveIDs, Cookies, Armed, Heard, Owns, NoFDs

LEMMA Inductive == Spec => []IInv
<1>1. IInv /\ [Next]_vars => IInv'
  BY TypesStep, DescriptorsStep, HaveIDsStep, CookiesStep, ArmedStep, HeardStep DEF IInv
<1> QED BY IInvInit, <1>1, PTL DEF Spec

\* Whatever tasks open, arm and clean up meanwhile, select is given no descriptor
\* that has been closed, and none is closed while select works on it.
THEOREM SelectGetsOpenOnly == Spec => []OnlyOpenIsPolled
<1>1. IInv => OnlyOpenIsPolled
  <2> SUFFICES ASSUME IInv PROVE OnlyOpenIsPolled
    OBVIOUS
  <2>1. Types /\ Descriptors /\ Cookies /\ Armed
    BY DEF IInv
  <2>2. \A k \in Kinds : sReturned[k] \subseteq FDs /\ polled[k] \subseteq FDs
    BY <2>1 DEF Types, Masked
  <2> QED BY <2>1, <2>2 DEF OnlyOpenIsPolled, Descriptors, Cookies, Armed
<1> QED BY <1>1, Inductive, PTL

\* A socket armed behind select's back has the pipe written to, and is not above
\* the number the loops stop at.
THEOREM SelectHears == Spec => []SelectIsNotDeaf
<1>1. IInv => SelectIsNotDeaf
  BY DEF IInv, Heard, Missed, Woken, Armed, SelectIsNotDeaf
<1> QED BY <1>1, Inductive, PTL

-----------------------------------------------------------------------------
(* The table of contexts.                                                  *)

RefProof == INSTANCE OSRefTable_proof
  WITH Threads <- Contexts \cup {EventThread}, Refs <- Contexts, Keys <- 1 .. MaxID

LEMMA TableAssumption == RefProof!RefTableAssumption
<1>1. IsFiniteSet(Contexts \cup {EventThread})
  BY EventContextAssumption, FS_AddElement
<1>2. None \notin Contexts \cup 1 .. MaxID
  BY ConstantsOK
<1> QED BY <1>1, <1>2 DEF RefProof!RefTableAssumption, RefProof!IsFiniteSet, IsFiniteSet

\* Tasks and the event thread do with the table only what it offers.
LEMMA TableSteps == IInv /\ [Next]_vars => [RefProof!Next]_(RefProof!vars)
<1> SUFFICES ASSUME IInv, [Next]_vars PROVE [RefProof!Next]_(RefProof!vars)
  OBVIOUS
<1> DEFINE RefStep == RefProof!Next \/ UNCHANGED RefProof!vars
<1>0. Types /\ 1 \in 1 .. MaxID
  BY ConstantsOK DEF IInv
<1>1. ASSUME UNCHANGED refvars PROVE UNCHANGED RefProof!vars
  BY <1>1 DEF refvars, RefProof!vars
<1>2. ASSUME NEW c \in Contexts, NEW id \in 1 .. MaxID, RefTable!Set(c, id) PROVE RefProof!Next
  <2>1. RefProof!Set(c, id)
    BY <1>2 DEF RefTable!Set, RefProof!Set
  <2> QED BY <2>1 DEF RefProof!Next
<1>3. ASSUME NEW c \in Contexts, RequestFirst(c) PROVE RefStep
  BY <1>0, <1>1, <1>2, <1>3 DEF RequestFirst, TakesID
<1>4. ASSUME NEW c \in Contexts, AddID(c) PROVE RefStep
  <2>1. sUniqueID + 1 \in 1 .. MaxID
    BY <1>0, <1>4, ConstantsOK DEF AddID, Types, IDs
  <2> QED BY <1>2, <1>4, <2>1 DEF AddID, TakesID
<1>5. ASSUME NEW c \in Contexts, Register(c) PROVE RefStep
  <2>1. RefProof!Register(c)
    BY <1>5 DEF Register, RefTable!Register, RefTable!IsUnregistered, RefTable!Map,
                RefProof!Register, RefProof!IsUnregistered, RefProof!Map
  <2> QED BY <2>1 DEF RefProof!Next
<1>6. ASSUME NEW c \in Contexts, CleanupUnregisters(c) PROVE RefStep
  <2>1. RefTable!UnRegister(c, c) \/ RefTable!Leave(c, c) \/ RefTable!SleepAgain(c, c)
    BY <1>6 DEF CleanupUnregisters, Unregisters
  <2>2. RefProof!UnRegister(c, c) \/ RefProof!Leave(c, c) \/ RefProof!SleepAgain(c, c)
    BY <2>1 DEF RefTable!UnRegister, RefTable!Leave, RefTable!SleepAgain, RefTable!MayLeave,
                RefTable!InUse, RefTable!Removed, RefTable!Without, RefTable!Sleeps,
                RefProof!UnRegister, RefProof!Leave, RefProof!SleepAgain, RefProof!MayLeave,
                RefProof!InUse, RefProof!Removed, RefProof!Without, RefProof!Sleeps
  <2> QED BY <2>2 DEF RefProof!Next
<1>7. ASSUME NEW c \in Contexts, WaitEnds(c) PROVE RefStep
  <2>1. RefProof!WaitEnds(c, c)
    BY <1>7 DEF WaitEnds, RefTable!WaitEnds, RefProof!WaitEnds
  <2> QED BY <2>1 DEF RefProof!Next
<1>8. CASE Resolve
  <2>1. CASE RefTable!Resolve(EventThread, event.er_data)
    <3>1. event.er_data \in 1 .. MaxID
      BY <1>0, <1>8 DEF Resolve, EventGoes, Types, IDs
    <3>2. RefProof!Resolve(EventThread, event.er_data)
      BY <2>1 DEF RefTable!Resolve, RefTable!Map, RefTable!Take, RefTable!OneMore,
                  RefProof!Resolve, RefProof!Map, RefProof!Take, RefProof!OneMore
    <3> QED BY <3>1, <3>2 DEF RefProof!Next
  <2> QED BY <1>1, <1>8, <2>1 DEF Resolve
<1>9. CASE Release
  <2>1. PICK c \in Contexts : RefTable!Release(EventThread, c)
    BY <1>9 DEF Release
  <2>2. RefProof!Release(EventThread, c)
    BY <2>1 DEF RefTable!Release, RefTable!WakesOne, RefProof!Release, RefProof!WakesOne
  <2> QED BY <2>2 DEF RefProof!Next
<1>10. ASSUME \/ CopyMasks \/ CallSelect \/ SelectReturns \/ SelectTimesOut \/ DrainPipe
              \/ CloseRemoved \/ Construct \/ NextMask \/ ProcessEvent \/ UNCHANGED vars
              \/ \E fd \in FDs, k \in Kinds : BecomesReady(fd, k)
              \/ \E c \in Contexts :
                   \/ \E fd \in FDs : Open(c, fd)
                   \/ RequestAgain(c) \/ ModWatch(c) \/ Poke(c) \/ Wake(c)
                   \/ CleanupUnwatched(c) \/ RemoveEvent(c) \/ CleanupEnds(c)
                   \/ \E k \in Kinds : Use(c, k)
       PROVE  UNCHANGED refvars
  BY <1>10 DEF CopyMasks, CallSelect, SelectReturns, SelectTimesOut, DrainPipe, CloseRemoved,
               Construct, NextMask, ProcessEvent, vars, BecomesReady, Open, RequestAgain, ModWatch,
               Poke, Wake, CleanupUnwatched, RemoveEvent, CleanupEnds, Use
<1> QED BY <1>1, <1>3, <1>4, <1>5, <1>6, <1>7, <1>8, <1>9, <1>10
        DEF Next, EventThreadStep, TaskStep

LEMMA TableStarts == Init => RefProof!Init
BY DEF Init, RefTable!Init, RefProof!Init

\* The sockets and the event thread keep to the table's specification ...
THEOREM UsesTheTable == Spec => RefProof!Spec
BY TableStarts, TableSteps, Inductive, PTL DEF Spec, RefProof!Spec

\* ... so that no context is cleaned up while the event thread holds it, and the
\* table finds none that has been.
LEMMA TableIsSafe ==
  Spec => [](RefProof!TypeOK /\ RefProof!HeldIsSafe /\ RefProof!FoundIsLive)
BY UsesTheTable, TableAssumption, RefProof!Typed, RefProof!ResolvedIsSafe,
   RefProof!OnlyLiveIsFound, PTL

\* No cleanup sleeps on in UnRegister when the event thread has let go.
THEOREM NoCleanupSleepsOn == Spec => []RefProof!NoLostWakeup
BY UsesTheTable, TableAssumption, RefProof!NoWakeupIsLost, PTL

-----------------------------------------------------------------------------
(* IDs and owners.                                                         *)

TableInv == RefProof!TypeOK /\ RefProof!HeldIsSafe /\ RefProof!FoundIsLive

LEMMA IDNumbers == IDs \cup {0} \subseteq Nat /\ 0 \notin IDs /\ None \notin IDs \cup {0}
<1>1. IDs \cup {0} \subseteq Nat /\ 0 \notin IDs
  BY DEF IDs
<1> QED BY <1>1, ConstantsOK

LEMMA OneOwnerStep ==
  ASSUME IInv, OneOwner, NotWrapped, [Next]_vars
  PROVE  OneOwner'
<1> USE DEF maskvars, scanvars, fdvars, ctxvars, Goes, EventGoes
<1>0. Types /\ sUniqueID \in Nat
  BY IDNumbers DEF IInv, Types
<1>1. ASSUME UNCHANGED <<fUniqueID, sUniqueID, sCookieArray>>,
             evpc' \in {"resolve", "process"}
                => evpc \in {"resolve", "process"} /\ event' = event
      PROVE  OneOwner'
  BY <1>1 DEF OneOwner
<1>2. ASSUME NEW c \in Contexts, RequestFirst(c) PROVE OneOwner'
  <2>1. UNCHANGED <<fUniqueID, sUniqueID, sCookieArray, evpc, event>>
    BY <1>2 DEF RequestFirst, NotWrapped
  <2> QED BY <1>1, <2>1
<1>3. ASSUME NEW c \in Contexts, AddID(c) PROVE OneOwner'
  <2>1. /\ sUniqueID' = sUniqueID + 1
        /\ fUniqueID' = [fUniqueID EXCEPT ![c] = sUniqueID + 1]
        /\ UNCHANGED <<sCookieArray, evpc, event>>
    BY <1>3 DEF AddID, CountsUp, TakesID
  <2>2. \A d \in Contexts : fUniqueID[d] \in Nat /\ fUniqueID[d] <= sUniqueID
    BY <1>0, IDNumbers DEF OneOwner, Types
  <2>3. fUniqueID'[c] = sUniqueID + 1 /\ \A d \in Contexts \ {c} : fUniqueID'[d] = fUniqueID[d]
    BY <1>0, <2>1 DEF Types
  <2>4. \A d \in Contexts : fUniqueID'[d] <= sUniqueID'
    BY <1>0, <2>1, <2>2, <2>3
  <2>5. \A d, e \in Contexts : fUniqueID'[d] = fUniqueID'[e] /\ fUniqueID'[d] # 0 => d = e
    BY <1>0, <2>2, <2>3 DEF OneOwner
  <2>6. \A fd \in FDs : sCookieArray'[fd] # None => sCookieArray'[fd] <= sUniqueID'
    <3>1. ASSUME NEW fd \in FDs, sCookieArray[fd] # None
          PROVE  sCookieArray[fd] \in Nat /\ sCookieArray[fd] <= sUniqueID
      BY <1>0, <3>1, IDNumbers DEF OneOwner, Types
    <3> QED BY <1>0, <2>1, <3>1
  <2>7. evpc' \in {"resolve", "process"} => event'.er_data \in 1 .. sUniqueID'
    BY <1>0, <2>1 DEF OneOwner
  <2> QED BY <2>4, <2>5, <2>6, <2>7 DEF OneOwner
<1>4. ASSUME NEW c \in Contexts, ModWatch(c) PROVE OneOwner'
  <2>1. /\ sCookieArray' = [sCookieArray EXCEPT ![fFileDesc[c]] = fUniqueID[c]]
        /\ UNCHANGED <<fUniqueID, sUniqueID, evpc, event>>
    BY <1>4 DEF ModWatch
  <2>2. \A fd \in FDs : sCookieArray'[fd] # None => sCookieArray'[fd] <= sUniqueID'
    BY <1>0, <2>1 DEF OneOwner, Types
  <2> QED BY <2>1, <2>2 DEF OneOwner
<1>5. ASSUME NEW c \in Contexts, RemoveEvent(c) PROVE OneOwner'
  <2>1. /\ sCookieArray' = [sCookieArray EXCEPT ![fFileDesc[c]] = None]
        /\ UNCHANGED <<fUniqueID, sUniqueID, evpc, event>>
    BY <1>5 DEF RemoveEvent
  <2>2. \A fd \in FDs : sCookieArray'[fd] # None => sCookieArray'[fd] <= sUniqueID'
    BY <1>0, <2>1 DEF OneOwner, Types
  <2> QED BY <2>1, <2>2 DEF OneOwner
<1>6. ASSUME NEW c \in Contexts, CleanupEnds(c) PROVE OneOwner'
  <2>1. /\ fUniqueID' = [fUniqueID EXCEPT ![c] = 0]
        /\ UNCHANGED <<sUniqueID, sCookieArray, evpc, event>>
    BY <1>6 DEF CleanupEnds
  <2>2. \A d \in Contexts : fUniqueID'[d] = IF d = c THEN 0 ELSE fUniqueID[d]
    BY <1>0, <2>1 DEF Types
  <2> QED BY <1>0, <2>1, <2>2 DEF OneOwner
<1>7. CASE Construct
  <2> DEFINE fd == Min(Findable)
  <2>1. /\ UNCHANGED <<fUniqueID, sUniqueID, sCookieArray>>
        /\ evpc' = IF sCookieArray[fd] = None THEN "scan" ELSE "resolve"
        /\ sCookieArray[fd] # None => event'.er_data = sCookieArray[fd]
    BY <1>7 DEF Construct
  <2>2. fd \in FDs
    BY <1>0, <1>7, FindableType DEF Construct
  <2> HIDE DEF fd
  <2>3. sCookieArray[fd] # None => sCookieArray[fd] \in 1 .. sUniqueID
    <3>1. sCookieArray[fd] # None => sCookieArray[fd] \in IDs /\ sCookieArray[fd] <= sUniqueID
      BY <1>0, <2>2 DEF OneOwner, Types
    <3> QED BY <1>0, <3>1 DEF IDs, Types
  <2> QED BY <2>1, <2>3 DEF OneOwner
<1>8. ASSUME \/ CopyMasks \/ CallSelect \/ SelectReturns \/ SelectTimesOut \/ DrainPipe
             \/ CloseRemoved \/ NextMask \/ ProcessEvent \/ Resolve \/ Release
      PROVE  /\ UNCHANGED <<fUniqueID, sUniqueID, sCookieArray>>
             /\ evpc' \in {"resolve", "process"}
                  => evpc \in {"resolve", "process"} /\ event' = event
  BY <1>8 DEF CopyMasks, CallSelect, SelectReturns, SelectTimesOut, DrainPipe, CloseRemoved,
              NextMask, ProcessEvent, Resolve, Release
<1>9. ASSUME \/ UNCHANGED vars \/ \E fd \in FDs, k \in Kinds : BecomesReady(fd, k)
             \/ \E c \in Contexts :
                  \/ \E fd \in FDs : Open(c, fd)
                  \/ Register(c) \/ RequestAgain(c) \/ Poke(c) \/ Wake(c)
                  \/ CleanupUnregisters(c) \/ WaitEnds(c) \/ CleanupUnwatched(c)
                  \/ \E k \in Kinds : Use(c, k)
      PROVE  UNCHANGED <<fUniqueID, sUniqueID, sCookieArray, evpc, event>>
  BY <1>9 DEF vars, BecomesReady, Open, Register, RequestAgain, Poke, Wake, CleanupUnregisters,
              WaitEnds, CleanupUnwatched, Use
<1> QED BY <1>1, <1>2, <1>3, <1>4, <1>5, <1>6, <1>7, <1>8, <1>9 DEF Next, EventThreadStep, TaskStep

LEMMA IDIsForFDStep ==
  ASSUME IInv, OneOwner, IDIsForFD, NotWrapped, [Next]_vars
  PROVE  IDIsForFD'
<1> USE DEF maskvars, scanvars, fdvars, ctxvars, Goes, EventGoes
<1>0. Types /\ HaveIDs /\ sUniqueID \in Nat
  BY IDNumbers DEF IInv, Types
<1>1. ASSUME UNCHANGED <<fUniqueID, fFileDesc, sCookieArray>>,
             evpc' \in {"resolve", "process"}
                => evpc \in {"resolve", "process"} /\ event' = event
      PROVE  IDIsForFD'
  BY <1>1 DEF IDIsForFD
\* A context without an ID is not asked about.
<1>2. ASSUME NEW c \in Contexts, fUniqueID'[c] = 0,
             \A d \in Contexts \ {c} : fUniqueID'[d] = fUniqueID[d] /\ fFileDesc'[d] = fFileDesc[d],
             UNCHANGED <<sCookieArray, evpc, event>>
      PROVE  IDIsForFD'
  <2>1. \A fd \in FDs : sCookieArray[fd] # 0
    BY <1>0, IDNumbers DEF Types
  <2>2. evpc \in {"resolve", "process"} => event.er_data # 0
    BY <1>0 DEF OneOwner
  <2> QED BY <1>2, <2>1, <2>2 DEF IDIsForFD
<1>3. ASSUME NEW c \in Contexts, NEW fd \in FDs, Open(c, fd) PROVE IDIsForFD'
  BY <1>0, <1>2, <1>3 DEF Open, Types, HaveIDs
<1>4. ASSUME NEW c \in Contexts, CleanupUnwatched(c) PROVE IDIsForFD'
  BY <1>0, <1>2, <1>4 DEF CleanupUnwatched, fWatchEventCalled, Types
<1>5. ASSUME NEW c \in Contexts, CleanupEnds(c) PROVE IDIsForFD'
  BY <1>0, <1>2, <1>5 DEF CleanupEnds, Types
<1>6. ASSUME NEW c \in Contexts, AddID(c) PROVE IDIsForFD'
  <2>1. /\ fUniqueID' = [fUniqueID EXCEPT ![c] = sUniqueID + 1]
        /\ UNCHANGED <<fFileDesc, sCookieArray, evpc, event>>
    BY <1>6 DEF AddID, TakesID
  <2>2. \A d \in Contexts : fUniqueID'[d] = IF d = c THEN sUniqueID + 1 ELSE fUniqueID[d]
    BY <1>0, <2>1 DEF Types
  <2>3. ASSUME NEW fd \in FDs PROVE sCookieArray[fd] # sUniqueID + 1
    <3>1. sCookieArray[fd] # None => sCookieArray[fd] \in Nat /\ sCookieArray[fd] <= sUniqueID
      BY <1>0, IDNumbers DEF OneOwner, Types
    <3>2. sUniqueID + 1 # None
      BY <1>0, ConstantsOK
    <3> QED BY <1>0, <3>1, <3>2
  <2>4. evpc \in {"resolve", "process"} => event.er_data # sUniqueID + 1
    BY <1>0 DEF OneOwner
  <2> QED BY <2>1, <2>2, <2>3, <2>4 DEF IDIsForFD
<1>7. ASSUME NEW c \in Contexts, ModWatch(c) PROVE IDIsForFD'
  <2>1. /\ sCookieArray' = [sCookieArray EXCEPT ![fFileDesc[c]] = fUniqueID[c]]
        /\ UNCHANGED <<fUniqueID, fFileDesc, evpc, event>> /\ fUniqueID[c] # 0
    BY <1>0, <1>7 DEF ModWatch, HaveIDs
  <2>2. ASSUME NEW d \in Contexts, NEW fd \in FDs, sCookieArray'[fd] = fUniqueID[d]
        PROVE  fFileDesc[d] = fd
    <3>1. sCookieArray'[fd] = IF fd = fFileDesc[c] THEN fUniqueID[c] ELSE sCookieArray[fd]
      BY <1>0, <2>1 DEF Types
    <3>2. CASE fd = fFileDesc[c]
      <4>1. d = c
        BY <2>1, <2>2, <3>1, <3>2 DEF OneOwner
      <4> QED BY <3>2, <4>1
    <3>3. CASE fd # fFileDesc[c]
      BY <2>2, <3>1, <3>3 DEF IDIsForFD
    <3> QED BY <3>2, <3>3
  <2> QED BY <2>1, <2>2 DEF IDIsForFD
<1>8. ASSUME NEW c \in Contexts, RemoveEvent(c) PROVE IDIsForFD'
  <2>1. /\ sCookieArray' = [sCookieArray EXCEPT ![fFileDesc[c]] = None]
        /\ UNCHANGED <<fUniqueID, fFileDesc, evpc, event>>
    BY <1>8 DEF RemoveEvent
  <2>2. \A fd \in FDs : sCookieArray'[fd] \in {None, sCookieArray[fd]}
    BY <1>0, <2>1 DEF Types
  <2>3. \A d \in Contexts : fUniqueID[d] # None
    BY <1>0, IDNumbers DEF Types
  <2> QED BY <2>1, <2>2, <2>3 DEF IDIsForFD
<1>9. CASE Construct
  <2> DEFINE found == Min(Findable)
  <2>1. /\ UNCHANGED <<fUniqueID, fFileDesc, sCookieArray>>
        /\ evpc' = IF sCookieArray[found] = None THEN "scan" ELSE "resolve"
        /\ sCookieArray[found] # None
             => event' = [er_handle |-> found, er_data |-> sCookieArray[found]]
    BY <1>9 DEF Construct
  <2>2. found \in FDs
    BY <1>0, <1>9, FindableType DEF Construct
  <2> HIDE DEF found
  <2> QED BY <2>1, <2>2 DEF IDIsForFD
<1>10. ASSUME \/ CopyMasks \/ CallSelect \/ SelectReturns \/ SelectTimesOut \/ DrainPipe
              \/ CloseRemoved \/ NextMask \/ ProcessEvent \/ Resolve \/ Release
       PROVE  /\ UNCHANGED <<fUniqueID, fFileDesc, sCookieArray>>
              /\ evpc' \in {"resolve", "process"}
                   => evpc \in {"resolve", "process"} /\ event' = event
  BY <1>10 DEF CopyMasks, CallSelect, SelectReturns, SelectTimesOut, DrainPipe, CloseRemoved,
              NextMask, ProcessEvent, Resolve, Release
<1>11. ASSUME \/ UNCHANGED vars \/ \E fd \in FDs, k \in Kinds : BecomesReady(fd, k)
              \/ \E c \in Contexts :
                   \/ RequestFirst(c)
                   \/ Register(c) \/ RequestAgain(c) \/ Poke(c) \/ Wake(c)
                   \/ CleanupUnregisters(c) \/ WaitEnds(c)
                   \/ \E k \in Kinds : Use(c, k)
       PROVE  UNCHANGED <<fUniqueID, fFileDesc, sCookieArray, evpc, event>>
  BY <1>11 DEF vars, BecomesReady, RequestFirst, NotWrapped, Register, RequestAgain, Poke, Wake,
               CleanupUnregisters, WaitEnds, Use
<1> QED BY <1>1, <1>3, <1>4, <1>5, <1>6, <1>7, <1>8, <1>9, <1>10, <1>11
        DEF Next, EventThreadStep, TaskStep

LEMMA RefsOfContextsStep ==
  ASSUME IInv, TableInv, OneOwner, RefsOfContexts, NotWrapped, [Next]_vars
  PROVE  RefsOfContexts'
<1> USE DEF maskvars, scanvars, fdvars, ctxvars, refvars, Goes, EventGoes
<1>0. /\ Types /\ HaveIDs
      /\ fString \in [Contexts -> 1 .. MaxID \cup {None}]
      /\ holds \in [Contexts \cup {EventThread} -> SUBSET Contexts]
      /\ leaving \in [Contexts \cup {EventThread} -> Contexts \cup {None}]
      /\ ended \subseteq Contexts
  BY DEF IInv, TableInv, RefProof!TypeOK
<1>1. holds[EventThread] \subseteq Contexts \ ended
  BY <1>0 DEF TableInv, RefProof!HeldIsSafe
\* The table is left alone, and so are the IDs of what is in use.
<1>2. ASSUME UNCHANGED <<fString, holds, ended>>,
             \A c \in Contexts : /\ c \notin ended => fUniqueID'[c] = fUniqueID[c]
                                 /\ tpc'[c] \in {"remove", "pokeClose"}
                                      => tpc[c] \in {"remove", "pokeClose"},
             evpc' \notin {"process", "release"} => evpc \notin {"process", "release"},
             evpc' = "process" => evpc = "process" /\ event' = event
      PROVE  RefsOfContexts'
  BY <1>0, <1>1, <1>2 DEF RefsOfContexts
<1>3. ASSUME NEW c \in Contexts,
             \/ \E fd \in FDs : Open(c, fd)
             \/ RequestFirst(c) \/ RequestAgain(c) \/ ModWatch(c) \/ Poke(c) \/ Wake(c)
             \/ CleanupUnwatched(c) \/ RemoveEvent(c) \/ \E k \in Kinds : Use(c, k)
      PROVE  RefsOfContexts'
  <2>1. UNCHANGED <<fString, holds, ended, fUniqueID, evpc, event>>
    BY <1>3 DEF Open, RequestFirst, NotWrapped, RequestAgain, ModWatch, Poke, Wake, CleanupUnwatched,
                RemoveEvent, Use
  <2>2. \A d \in Contexts : tpc'[d] \in {"remove", "pokeClose"} => tpc[d] \in {"remove", "pokeClose"}
    BY <1>0, <1>3 DEF Open, RequestFirst, NotWrapped, RequestAgain, ModWatch, Poke, Wake,
                CleanupUnwatched, RemoveEvent, Use, Types
  <2> QED BY <1>2, <2>1, <2>2
<1>4. ASSUME NEW c \in Contexts, AddID(c) PROVE RefsOfContexts'
  <2>1. /\ c \in ended /\ ended' = ended \ {c}
        /\ fString' = [fString EXCEPT ![c] = sUniqueID + 1]
        /\ fUniqueID' = [fUniqueID EXCEPT ![c] = sUniqueID + 1]
        /\ tpc[c] = "add" /\ tpc' = [tpc EXCEPT ![c] = "register"]
        /\ UNCHANGED <<holds, evpc, event>>
    BY <1>4 DEF AddID, TakesID, RefTable!Set
  <2>2. \A d \in Contexts : d \notin ended' => fString'[d] = fUniqueID'[d]
    BY <1>0, <2>1 DEF RefsOfContexts, Types
  <2>3. \A d \in Contexts : tpc'[d] \in {"remove", "pokeClose"} => d \in ended'
    BY <1>0, <2>1 DEF RefsOfContexts, Types
  <2>4. \A d \in holds[EventThread] : fUniqueID'[d] = fUniqueID[d]
    BY <1>0, <1>1, <2>1 DEF Types
  <2> QED BY <2>1, <2>2, <2>3, <2>4 DEF RefsOfContexts
<1>5. ASSUME NEW c \in Contexts, Register(c) \/ WaitEnds(c) PROVE RefsOfContexts'
  <2>1. UNCHANGED <<fString, holds, ended, fUniqueID, evpc, event>>
    BY <1>5 DEF Register, WaitEnds, RefTable!Register, RefTable!WaitEnds
  <2>2. \A d \in Contexts : tpc'[d] \in {"remove", "pokeClose"} => tpc[d] \in {"remove", "pokeClose"}
    BY <1>0, <1>5 DEF Register, WaitEnds, Types
  <2> QED BY <1>2, <2>1, <2>2
<1>6. ASSUME NEW c \in Contexts, CleanupUnregisters(c) PROVE RefsOfContexts'
  <2>1. /\ UNCHANGED <<fString, holds, fUniqueID, evpc, event>>
        /\ \/ ended' = ended \cup {c}
           \/ ended' = ended /\ leaving' = [leaving EXCEPT ![c] = c]
    BY <1>6 DEF CleanupUnregisters, Unregisters, RefTable!UnRegister, RefTable!Leave,
                RefTable!SleepAgain, RefTable!Removed, RefTable!Sleeps
  <2>2. tpc' = [tpc EXCEPT ![c] = IF leaving'[c] = None THEN "remove" ELSE "leaves"]
    BY <1>6 DEF CleanupUnregisters
  <2>3. c \in ended' \/ tpc'[c] = "leaves"
    <3>1. ended' = ended /\ leaving' = [leaving EXCEPT ![c] = c] => leaving'[c] # None
      BY <1>0, ConstantsOK
    <3> QED BY <1>0, <2>1, <2>2, <3>1 DEF Types
  <2>4. \A d \in Contexts : tpc'[d] \in {"remove", "pokeClose"} => d \in ended'
    BY <1>0, <2>1, <2>2, <2>3 DEF RefsOfContexts, Types
  <2> QED BY <2>1, <2>4 DEF RefsOfContexts
<1>7. ASSUME NEW c \in Contexts, CleanupEnds(c) PROVE RefsOfContexts'
  <2>1. /\ c \in ended /\ UNCHANGED <<fString, holds, ended, evpc, event>>
        /\ fUniqueID' = [fUniqueID EXCEPT ![c] = 0] /\ tpc' = [tpc EXCEPT ![c] = "none"]
    BY <1>7 DEF CleanupEnds, RefsOfContexts
  <2> QED BY <1>0, <1>2, <2>1 DEF Types
<1>8. CASE Resolve
  <2>1. CASE /\ evpc = "resolve" /\ evpc' = "process"
             /\ RefTable!Resolve(EventThread, event.er_data) /\ UNCHANGED event
    <3>1. PICK r \in RefTable!Map(event.er_data) :
            holds' = [holds EXCEPT ![EventThread] = @ \cup {r}]
      BY <2>1 DEF RefTable!Resolve, RefTable!Take
    <3>2. r \in Contexts /\ r \notin ended /\ fString[r] = event.er_data
      BY <1>0 DEF RefTable!Map, TableInv, RefProof!FoundIsLive, RefProof!TypeOK
    <3>3. UNCHANGED <<fString, ended, fUniqueID, tpc>>
      BY <1>8, <2>1 DEF Resolve, RefTable!Resolve
    <3>4. holds'[EventThread] = {r}
      BY <1>0, <2>1, <3>1 DEF RefsOfContexts
    <3>5. fUniqueID'[r] = event'.er_data
      BY <2>1, <3>2, <3>3 DEF RefsOfContexts
    <3> QED BY <2>1, <3>3, <3>4, <3>5 DEF RefsOfContexts
  <2>2. CASE evpc = "resolve" /\ evpc' = "scan" /\ UNCHANGED refvars
    BY <1>2, <1>8, <2>2 DEF Resolve
  <2> QED BY <1>8, <2>1, <2>2 DEF Resolve
<1>9. CASE Release
  <2>1. PICK c \in Contexts : RefTable!Release(EventThread, c)
    BY <1>9 DEF Release
  <2>2. /\ c \in holds[EventThread] /\ holds' = [holds EXCEPT ![EventThread] = @ \ {c}]
        /\ UNCHANGED <<fString, ended, fUniqueID, tpc>> /\ evpc' = "scan"
    BY <1>9, <2>1 DEF Release, RefTable!Release
  <2>3. holds'[EventThread] = {}
    BY <1>0, <2>2 DEF RefsOfContexts
  <2> QED BY <2>2, <2>3 DEF RefsOfContexts
<1>10. CASE ProcessEvent
  <2>1. UNCHANGED <<fString, holds, ended, fUniqueID, tpc>> /\ evpc' = "release"
    BY <1>10 DEF ProcessEvent
  <2> QED BY <2>1 DEF RefsOfContexts
<1>11. ASSUME \/ CopyMasks \/ CallSelect \/ SelectReturns \/ SelectTimesOut \/ DrainPipe
              \/ CloseRemoved \/ NextMask \/ Construct \/ UNCHANGED vars
              \/ \E fd \in FDs, k \in Kinds : BecomesReady(fd, k)
       PROVE  RefsOfContexts'
  <2>1. /\ UNCHANGED <<fString, holds, ended, fUniqueID, tpc>>
        /\ evpc' \notin {"process", "release"} => evpc \notin {"process", "release"}
        /\ evpc' = "process" => evpc = "process" /\ event' = event
    BY <1>11 DEF CopyMasks, CallSelect, SelectReturns, SelectTimesOut, DrainPipe, CloseRemoved,
                 NextMask, Construct, vars, BecomesReady
  <2> QED BY <1>2, <2>1
<1> QED BY <1>3, <1>4, <1>5, <1>6, <1>7, <1>8, <1>9, <1>10, <1>11
        DEF Next, EventThreadStep, TaskStep

LEMMA OwnerInit == Init => Owner
<1> SUFFICES ASSUME Init PROVE Owner
  OBVIOUS
<1>1. OneOwner /\ IDIsForFD
  BY ConstantsOK DEF Init, OneOwner, IDIsForFD
<1>2. RefsOfContexts
  BY DEF Init, RefTable!Init, RefsOfContexts
<1> QED BY <1>1, <1>2 DEF Owner

\* As long as the IDs have not started again, an event signals the task of the
\* context that owns the socket, however sockets are closed and their numbers
\* given to others between select and ProcessEvent.
THEOREM EventIsForOwner == Spec /\ []NotWrapped => []EventReachesOwner
<1>1. IInv /\ TableInv /\ Owner /\ NotWrapped /\ [Next]_vars => Owner'
  BY OneOwnerStep, IDIsForFDStep, RefsOfContextsStep DEF Owner
<1>2. IInv /\ TableInv /\ Owner => EventReachesOwner
  <2> SUFFICES ASSUME IInv, TableInv, Owner, evpc = "process", NEW c \in holds[EventThread]
               PROVE  fFileDesc[c] = event.er_handle
    BY DEF EventReachesOwner
  <2>1. c \in Contexts
    BY DEF TableInv, RefProof!TypeOK
  <2> QED BY <2>1 DEF Owner, RefsOfContexts, IDIsForFD
<1>3. Spec => []TableInv
  BY TableIsSafe DEF TableInv
<1> QED BY OwnerInit, Inductive, <1>1, <1>2, <1>3, PTL DEF Spec
=============================================================================
