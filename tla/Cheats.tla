------------------------------- MODULE Cheats -------------------------------
(***************************************************************************)
(* Cheats put their byte where a game reads it and give the game's own back *)
(* when they are turned off: cheats2.cpp. A cheat of a group is its code,   *)
(* the byte it saved and whether its condition was met; text and files are  *)
(* left out.                                                                *)
(***************************************************************************)
EXTENDS Naturals, Sequences, SequencesExt

CONSTANTS
    Addresses, Bytes,
    CodeLists,     \* the codes a user enters for a group
    MaxGroups

\* Codes have an address, the byte to put there and, when conditional, the byte
\* that must be there.
ASSUME CheatsAssumption ==
    /\ CodeLists \subseteq Seq([address : Addresses, byte : Bytes,
                               conditional : BOOLEAN, cond_byte : Bytes])
    /\ MaxGroups \in Nat

VARIABLES
    mem,        \* memory, as S9xGetByteFree reads it
    group,      \* Cheat.group
    on,         \* Cheat.enabled
    own,        \* what the game last put in memory
    alike,      \* addresses where it put the byte of a cheat in effect there
    shared,     \* addresses where two cheats were in effect
    frameEnd    \* history: has a frame just ended?

cheatVars == <<mem, group, on, own, alike, shared, frameEnd>>

-----------------------------------------------------------------------------
(* One cheat: what becomes of memory m and of the cheat c.                   *)

After(m, c) == [mem |-> m, cheat |-> c]

Put(m, c, b) == [m EXCEPT ![c.address] = b]

\* Mutant: the byte is saved and the cheat's not put there.
UpdateCheatSavesOnly(m, c) ==
    LET byte == m[c.address]
    IN  IF ~c.enabled \/ byte = c.byte THEN After(m, c)
        ELSE After(m, [c EXCEPT !.saved_byte = byte,
                                !.cond_true = c.conditional /\ byte = c.cond_byte])

S9xUpdateCheatInMemory(m, c) ==
    LET byte == m[c.address]
        met == c.conditional /\ byte = c.cond_byte
    IN  IF ~c.enabled THEN After(m, c)
        ELSE IF byte # c.byte /\ c.conditional /\ ~met THEN
            After(m, [c EXCEPT !.saved_byte = byte, !.cond_true = FALSE])
        ELSE IF byte # c.byte \/ met THEN
            After(Put(m, c, c.byte),
                  [c EXCEPT !.saved_byte = byte, !.cond_true = met \/ @])
        ELSE After(m, c)

DisableCheatStale(m, c) ==
    IF ~c.enabled THEN After(m, c)
    ELSE IF ~on \/ (c.conditional /\ ~c.cond_true) THEN After(m, [c EXCEPT !.enabled = FALSE])
    ELSE After(Put(m, c, c.saved_byte), [c EXCEPT !.enabled = FALSE, !.cond_true = FALSE])

S9xDisableCheat(m, c) ==
    LET u == S9xUpdateCheatInMemory(m, c)
        off == [u.cheat EXCEPT !.enabled = FALSE]
    IN  IF ~c.enabled THEN After(m, c)
        ELSE IF ~on THEN After(m, [c EXCEPT !.enabled = FALSE])
        ELSE IF c.conditional /\ ~off.cond_true THEN After(u.mem, off)
        ELSE After(Put(u.mem, c, off.saved_byte), [off EXCEPT !.cond_true = FALSE])

\* active is the value of Cheat.enabled when it is called.
S9xEnableCheat(m, c, active) ==
    LET byte == m[c.address]
        enabled == [c EXCEPT !.enabled = TRUE]
    IN  IF c.enabled THEN After(m, c)
        ELSE IF ~active \/ (c.conditional /\ byte # c.cond_byte) THEN After(m, enabled)
        ELSE After(Put(m, c, c.byte),
                   [enabled EXCEPT !.saved_byte = byte, !.cond_true = c.conditional \/ @])

EnableNow(m, c) == S9xEnableCheat(m, c, on)

EnableOn(m, c) == S9xEnableCheat(m, c, TRUE)

-----------------------------------------------------------------------------
(* Groups, their cheats taken in order.                                      *)

\* after[i] is the memory after i of them.
Each(Op(_, _), m, cheats) ==
    LET after[i \in 0..Len(cheats)] ==
          IF i = 0 THEN m ELSE Op(after[i - 1], cheats[i]).mem
    IN  [mem |-> after[Len(cheats)],
         cheats |-> [i \in DOMAIN cheats |-> Op(after[i - 1], cheats[i]).cheat]]

\* The groups gs from memory m on, those that Which picks, with their own flag
\* left as Flag makes it.
EachGroup(Op(_, _), Which(_), Flag(_), m, gs) ==
    LET after[i \in 0..Len(gs)] ==
          IF i = 0 THEN m
          ELSE IF Which(gs[i]) THEN Each(Op, after[i - 1], gs[i].cheat).mem
          ELSE after[i - 1]
    IN  [mem |-> after[Len(gs)],
         group |-> [i \in DOMAIN gs |->
                      IF Which(gs[i])
                      THEN [enabled |-> Flag(gs[i]),
                            cheat |-> Each(Op, after[i - 1], gs[i].cheat).cheats]
                      ELSE gs[i]]]

All(g) == TRUE
IsOn(g) == g.enabled
Same(g) == g.enabled
Off(g) == FALSE

Disabled(m, gs) == EachGroup(S9xDisableCheat, All, Off, m, gs)

\* S9xTextToCheat sets neither saved_byte nor cond_true (which only a conditional
\* cheat reads).
Created(codes) ==
    {[i \in DOMAIN codes |->
        [address |-> codes[i].address, byte |-> codes[i].byte,
         conditional |-> codes[i].conditional, cond_byte |-> codes[i].cond_byte,
         saved_byte |-> s[i], cond_true |-> t[i], enabled |-> FALSE]] :
     s \in [DOMAIN codes -> Bytes],
     t \in {f \in [DOMAIN codes -> BOOLEAN] :
              \A i \in DOMAIN codes : f[i] => codes[i].conditional}}

\* The cheats that act on memory, by group and place.
InEffect(gs, active) ==
    {p \in UNION {{i} \X DOMAIN gs[i].cheat : i \in DOMAIN gs} :
        active /\ gs[p[1]].cheat[p[2]].enabled}

At(gs, p) == gs[p[1]].cheat[p[2]]

Alike(gs, active) ==
    {At(gs, p).address : p \in {q \in InEffect(gs, active) :
                                   own'[At(gs, q).address] = At(gs, q).byte}}

Shared(gs, active) ==
    {At(gs, p).address : p \in {q \in InEffect(gs, active) :
        \E r \in InEffect(gs, active) \ {q} : At(gs, r).address = At(gs, q).address}}

\* What is known of the addresses after a step, written being those the game
\* wrote to.
Observe(written) ==
    /\ alike' = (alike \ written) \cup Alike(group', on')
    /\ shared' = (shared \ written) \cup Shared(group', on')

-----------------------------------------------------------------------------
(* The game and its frames. *)

GameWrites(a, b) ==
    /\ mem' = [mem EXCEPT ![a] = b]
    /\ own' = [own EXCEPT ![a] = b]
    /\ UNCHANGED <<group, on>>
    /\ Observe({a})

\* The end of a frame (S9xEndScreenRefresh).
S9xUpdateCheatsInMemory ==
    /\ on /\ frameEnd' = TRUE
    /\ LET r == EachGroup(S9xUpdateCheatInMemory, All, Same, mem, group)
       IN  mem' = r.mem /\ group' = r.group
    /\ UNCHANGED <<on, own>>
    /\ Observe({})

-----------------------------------------------------------------------------
(* What the user does. *)

S9xAddCheatGroup(codes) ==
    /\ Len(group) < MaxGroups
    /\ \E c \in Created(codes) : group' = Append(group, [enabled |-> FALSE, cheat |-> c])
    /\ UNCHANGED <<mem, on, own>>
    /\ Observe({})

S9xEnableCheatGroup(n) ==
    /\ LET r == Each(EnableNow, mem, group[n].cheat)
       IN  /\ mem' = r.mem
           /\ group' = [group EXCEPT ![n] = [enabled |-> TRUE, cheat |-> r.cheats]]
    /\ UNCHANGED <<on, own>>
    /\ Observe({})

S9xDisableCheatGroup(n) ==
    /\ LET r == Each(S9xDisableCheat, mem, group[n].cheat)
       IN  /\ mem' = r.mem
           /\ group' = [group EXCEPT ![n] = [enabled |-> FALSE, cheat |-> r.cheats]]
    /\ UNCHANGED <<on, own>>
    /\ Observe({})

S9xDeleteCheatGroup(n) ==
    /\ mem' = Each(S9xDisableCheat, mem, group[n].cheat).mem
    /\ group' = RemoveAt(group, n)
    /\ UNCHANGED <<on, own>>
    /\ Observe({})

S9xDeleteCheats ==
    /\ mem' = Disabled(mem, group).mem
    /\ group' = <<>>
    /\ UNCHANGED <<on, own>>
    /\ Observe({})

S9xModifyCheatGroup(n, codes) ==
    /\ \E c \in Created(codes) :
          LET off == Each(S9xDisableCheat, mem, group[n].cheat).mem
              r == Each(EnableNow, off, c)
          IN  IF group[n].enabled
              THEN mem' = r.mem /\ group' = [group EXCEPT ![n].cheat = r.cheats]
              ELSE mem' = off /\ group' = [group EXCEPT ![n].cheat = c]
    /\ UNCHANGED <<on, own>>
    /\ Observe({})

\* The groups keep their flags, and are turned on by them again.
S9xCheatsDisable ==
    /\ on /\ on' = FALSE
    /\ LET r == EachGroup(S9xDisableCheat, IsOn, Same, mem, group)
       IN  mem' = r.mem /\ group' = r.group
    /\ UNCHANGED own
    /\ Observe({})

S9xCheatsEnable ==
    /\ ~on /\ on' = TRUE
    /\ LET r == EachGroup(EnableOn, IsOn, Same, mem, group)
       IN  mem' = r.mem /\ group' = r.group
    /\ UNCHANGED own
    /\ Observe({})

\* LoadROMInt: the new game is in memory when the cheats of the last one are
\* turned off, and its file adds its own.
LoadROM(new, codes) ==
    /\ own' = new
    /\ \E c \in Created(codes), e \in BOOLEAN :
          LET off == Disabled(new, group).mem
              r == Each(EnableNow, off, c)
          IN  IF e THEN mem' = r.mem /\ group' = <<[enabled |-> TRUE, cheat |-> r.cheats]>>
              ELSE mem' = off /\ group' = <<[enabled |-> FALSE, cheat |-> c]>>
    /\ UNCHANGED on
    /\ alike' = Alike(group, on) \cup Alike(group', on)
    /\ shared' = Shared(group, on) \cup Shared(group', on)

-----------------------------------------------------------------------------
CheatsInit ==
    /\ mem \in [Addresses -> Bytes] /\ own = mem
    /\ group = <<>> /\ on = TRUE
    /\ alike = {} /\ shared = {} /\ frameEnd = FALSE

GameOrUser ==
    \/ \E a \in Addresses, b \in Bytes : GameWrites(a, b)
    \/ \E l \in CodeLists : S9xAddCheatGroup(l)
    \/ \E n \in DOMAIN group :
          \/ S9xEnableCheatGroup(n)
          \/ S9xDisableCheatGroup(n)
          \/ S9xDeleteCheatGroup(n)
          \/ \E l \in CodeLists : S9xModifyCheatGroup(n, l)
    \/ S9xDeleteCheats \/ S9xCheatsDisable \/ S9xCheatsEnable
    \/ \E new \in [Addresses -> Bytes], l \in CodeLists : LoadROM(new, l)

CheatsNext ==
    \/ S9xUpdateCheatsInMemory
    \/ GameOrUser /\ frameEnd' = FALSE

CheatsSpec == CheatsInit /\ [][CheatsNext]_cheatVars

-----------------------------------------------------------------------------
(* Properties. *)

Free(a) == \A p \in InEffect(group, on) : At(group, p).address # a

\* Where no cheat is in effect the game finds what it last put there, through
\* any sequence of cheats turned on and off, one by one or all at once, changed
\* and deleted, games loaded and frames ended between; unless two cheats were in
\* effect there, or the game put there the byte of the cheat itself, which
\* cannot be told from the cheat's (S9xDisableCheat, saved_byte).
Restored ==
    \A a \in Addresses \ (alike \cup shared) : Free(a) => mem[a] = own[a]

\* The same of two cheats at one address.
EachRestored ==
    \A a \in Addresses \ alike : Free(a) => mem[a] = own[a]

\* At the end of a frame, whatever the game wrote in it, an unconditional cheat in
\* effect has its byte in memory, and a conditional one exactly when the game's byte
\* is the one it asks for (S9xUpdateCheatInMemory, cond_true).
Applied ==
    frameEnd => \A p \in InEffect(group, on) :
        LET c == At(group, p)
        IN  c.address \notin alike \cup shared =>
              mem[c.address] = IF c.conditional /\ own[c.address] # c.cond_byte
                               THEN own[c.address] ELSE c.byte
=============================================================================
