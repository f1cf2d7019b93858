-------------------------- MODULE PpobWalletProofs --------------------------
(***************************************************************************)
(* The wallet keeps its promises for any number of wallets, sessions,      *)
(* amounts and limits.                                                     *)
(***************************************************************************)
EXTENDS PpobWallet, SequenceTheorems, TLAPS

\* The closing balance of a journal of moves is an integer.
LEMMA ClosingType ==
  ASSUME NEW b \in Int, NEW j \in Seq(Move)
  PROVE  Sub!Closing(b, j) \in Int
<1>1. CASE Len(j) = 0
  BY <1>1 DEF Sub!Closing
<1>2. CASE Len(j) # 0
  <2>1. j[Len(j)] \in Move
    BY <1>2, ElementOfSeq, LenProperties
  <2> QED BY <1>2, <2>1 DEF Sub!Closing, Move
<1> QED BY <1>1, <1>2

\* A move chained onto the end of a chained journal keeps it chained.
LEMMA ChainAppend ==
  ASSUME NEW b \in Int, NEW j \in Seq(Move), NEW amount \in Int,
         Sub!Chained(b, j)
  PROVE  LET e == [amount |-> amount, after |-> Sub!Closing(b, j) + amount]
         IN  /\ Sub!Closing(b, j) \in Int
             /\ Sub!Chained(b, Append(j, e))
             /\ Sub!Closing(b, Append(j, e)) = Sub!Closing(b, j) + amount
<1> DEFINE e == [amount |-> amount, after |-> Sub!Closing(b, j) + amount]
           k == Append(j, e)
<1>1. Sub!Closing(b, j) \in Int
  BY ClosingType
<1>2. e \in Move
  BY <1>1 DEF Move
<1>3. /\ k \in Seq(Move)
      /\ Len(k) = Len(j) + 1
      /\ k[Len(j) + 1] = e
      /\ \A i \in 1..Len(j) : k[i] = j[i]
  BY <1>2, AppendProperties
<1>4. Sub!Closing(b, k) = Sub!Closing(b, j) + amount
  BY <1>1, <1>3 DEF Sub!Closing
<1>5. ASSUME NEW i \in 1..Len(k)
      PROVE  k[i].after = Sub!Before(b, k, i) + k[i].amount
  <2>1. CASE i \in 1..Len(j)
    BY <2>1, <1>3 DEF Sub!Chained, Sub!Before
  <2>2. CASE i = Len(j) + 1
    BY <2>2, <1>1, <1>3 DEF Sub!Before, Sub!Closing
  <2> QED BY <1>3, <2>1, <2>2
<1> QED
  BY <1>1, <1>4, <1>5 DEF Sub!Chained

\* Two journals, the second opened at the closing balance of the first, chain.
LEMMA ChainConcat ==
  ASSUME NEW b \in Int, NEW j \in Seq(Move), NEW d \in Seq(Move),
         Sub!Chained(b, j), Sub!Chained(Sub!Closing(b, j), d)
  PROVE  /\ Sub!Chained(b, j \o d)
         /\ Sub!Closing(b, j \o d) = Sub!Closing(Sub!Closing(b, j), d)
         /\ Sub!Extends(j \o d, j)
<1> DEFINE k == j \o d
<1>1. /\ k \in Seq(Move)
      /\ Len(k) = Len(j) + Len(d)
      /\ \A i \in 1..Len(k) : k[i] = IF i <= Len(j) THEN j[i] ELSE d[i - Len(j)]
  BY ConcatProperties
<1>2. Sub!Closing(b, k) = Sub!Closing(Sub!Closing(b, j), d)
  BY <1>1 DEF Sub!Closing
<1>3. ASSUME NEW i \in 1..Len(k)
      PROVE  k[i].after = Sub!Before(b, k, i) + k[i].amount
  <2>1. CASE i <= Len(j)
    BY <2>1, <1>1 DEF Sub!Chained, Sub!Before
  <2>2. CASE i = Len(j) + 1
    BY <2>2, <1>1 DEF Sub!Chained, Sub!Before, Sub!Closing
  <2>3. CASE i > Len(j) + 1
    <3>1. /\ k[i] = d[i - Len(j)] /\ k[i - 1] = d[i - 1 - Len(j)]
          /\ i - Len(j) \in 1..Len(d) /\ i - Len(j) # 1
      BY <2>3, <1>1
    <3>2. d[i - Len(j)].after = d[i - Len(j) - 1].after + d[i - Len(j)].amount
      BY <3>1 DEF Sub!Chained, Sub!Before
    <3> QED BY <2>3, <3>1, <3>2 DEF Sub!Before
  <2> QED BY <2>1, <2>2, <2>3
<1>4. Sub!Extends(k, j)
  BY <1>1 DEF Sub!Extends
<1> QED
  BY <1>2, <1>3, <1>4 DEF Sub!Chained
-----------------------------------------------------------------------------
\* What the three primitives have in common: one move of x, under the lock.
LEMMA PostStep ==
  ASSUME IInv, NEW s \in open, NEW w \in Wallet, NEW x \in Int,
         view[s][w].state = "active",
         Lock(s, w),
         x < 0 => view[s][w].balance + x >= -view[s][w].limit,
         PostMove(s, w, x),
         UNCHANGED <<wallet, moves, open, missed>>
  PROVE  IInv'
<1> USE DEF IInv
<1> DEFINE r == view[s][w]
           e == [amount |-> x, after |-> r.balance + x]
<1>0. /\ s \in Session
      /\ r \in WalletRow
      /\ draft[s][w] \in Seq(Move)
      /\ e \in Move
  BY DEF TypeOK, WalletRow, Move
<1>1. /\ view' = [view EXCEPT ![s][w].balance = r.balance + x]
      /\ draft' = [draft EXCEPT ![s][w] = Append(@, e)]
      /\ holder' = [holder EXCEPT ![w] = s]
      /\ holder[w] \in {s, NoSession}
      /\ w \notin missed[s]
  BY DEF PostMove, Lock
<1>2. /\ view'[s][w] = [r EXCEPT !.balance = r.balance + x]
      /\ draft'[s][w] = Append(draft[s][w], e)
      /\ \A z \in Session, v \in Wallet : z # s \/ v # w =>
           view'[z][v] = view[z][v] /\ draft'[z][v] = draft[z][v]
      /\ \A v \in Wallet : v # w => holder'[v] = holder[v]
      /\ holder'[w] = s
  BY <1>0, <1>1 DEF TypeOK
<1>3. TypeOK'
  <2>1. Append(draft[s][w], e) \in Seq(Move)
    BY <1>0, AppendProperties
  <2>2. [r EXCEPT !.balance = r.balance + x] \in WalletRow
    BY <1>0 DEF WalletRow
  <2>3. view' \in [Session -> [Wallet -> WalletRow]]
    BY <1>1, <2>2 DEF TypeOK, WalletRow
  <2>4. draft' \in [Session -> [Wallet -> Seq(Move)]]
    BY <1>1, <2>1 DEF TypeOK
  <2> QED BY <1>0, <1>1, <2>3, <2>4 DEF TypeOK
<1>4. BalanceIsJournal'
  BY DEF BalanceIsJournal
<1>5. HolderIsOpen'
  BY <1>2 DEF HolderIsOpen
<1>6. /\ Sub!Chained(wallet[w].balance, draft[s][w])
      /\ r.balance = Sub!Closing(wallet[w].balance, draft[s][w])
      /\ r.limit = wallet[w].limit
      /\ r.state = wallet[w].state
  <2>1. CASE holder[w] = s
    BY <2>1 DEF HeldIsFresh
  <2>2. CASE holder[w] # s
    <3>1. draft[s][w] = << >> /\ r = wallet[w]
      BY <2>2, <1>0, <1>1 DEF UnheldIsClean, UnheldIsSnapshot
    <3> QED BY <3>1 DEF Sub!Chained, Sub!Closing
  <2> QED BY <2>1, <2>2
<1>7. HeldIsFresh'
  <2> SUFFICES ASSUME NEW z \in open, NEW v \in Wallet, holder'[v] = z
               PROVE  /\ v \notin missed[z]
                      /\ Sub!Chained(wallet[v].balance, draft'[z][v])
                      /\ view'[z][v].balance = Sub!Closing(wallet[v].balance, draft'[z][v])
                      /\ view'[z][v].limit = wallet[v].limit
                      /\ view'[z][v].state = wallet[v].state
    BY DEF HeldIsFresh
  <2>1. CASE z = s /\ v = w
    <3>1. wallet[w].balance \in Int
      BY DEF TypeOK, WalletRow
    <3>2. /\ Sub!Chained(wallet[w].balance, Append(draft[s][w], e))
          /\ Sub!Closing(wallet[w].balance, Append(draft[s][w], e)) = r.balance + x
      BY <3>1, <1>0, <1>6, ChainAppend
    <3> QED BY <2>1, <3>2, <1>0, <1>1, <1>2, <1>6 DEF WalletRow
  <2>2. CASE v # w
    BY <2>2, <1>2 DEF HeldIsFresh, TypeOK
  <2>3. CASE v = w /\ z # s
    BY <2>3, <1>2
  <2> QED BY <2>1, <2>2, <2>3
<1>8. \A z \in Session, v \in Wallet : holder'[v] # z =>
        /\ holder[v] # z
        /\ view'[z][v] = view[z][v]
        /\ draft'[z][v] = draft[z][v]
  BY <1>0, <1>1, <1>2, SessionAssumption
<1>9. UnheldIsSnapshot' /\ UnheldIsClean'
  BY <1>8 DEF UnheldIsSnapshot, UnheldIsClean, TypeOK
<1>10. DraftAllowed'
  <2> SUFFICES ASSUME NEW z \in open, NEW v \in Wallet, draft'[z][v] # << >>
               PROVE  /\ view'[z][v].state = "active"
                      /\ \A i \in 1..Len(draft'[z][v]) :
                           draft'[z][v][i].amount < 0
                             => draft'[z][v][i].after >= -view'[z][v].limit
    BY DEF DraftAllowed
  <2>1. CASE z = s /\ v = w
    <3>1. view'[s][w].state = "active" /\ view'[s][w].limit = r.limit
      BY <1>0, <1>2 DEF WalletRow
    <3> SUFFICES ASSUME NEW i \in 1..Len(draft'[s][w]), draft'[s][w][i].amount < 0
                 PROVE  draft'[s][w][i].after >= -r.limit
      BY <2>1, <3>1
    <3>2. /\ Len(draft'[s][w]) = Len(draft[s][w]) + 1
          /\ draft'[s][w][Len(draft[s][w]) + 1] = e
          /\ \A n \in 1..Len(draft[s][w]) : draft'[s][w][n] = draft[s][w][n]
      BY <1>0, <1>2, AppendProperties
    <3>3. CASE i = Len(draft[s][w]) + 1
      BY <3>2, <3>3
    <3>4. CASE i \in 1..Len(draft[s][w])
      <4>1. draft[s][w] # << >>
        BY <3>4, <1>0
      <4> QED BY <3>2, <3>4, <4>1 DEF DraftAllowed
    <3> QED BY <3>2, <3>3, <3>4, <1>0
  <2>2. CASE z # s \/ v # w
    BY <2>2, <1>2 DEF DraftAllowed, TypeOK
  <2> QED BY <2>1, <2>2
<1> QED
  BY <1>3, <1>4, <1>5, <1>7, <1>9, <1>10

\* Ending a transaction, either way: the session's locks, view and drafts go.
LEMMA ReleaseStep ==
  ASSUME TypeOK, HolderIsOpen, UnheldIsClean, NEW s \in open, Release(s),
         view' = [view EXCEPT ![s] = [w \in Wallet |-> NewWallet]]
  PROVE  /\ HolderIsOpen' /\ UnheldIsClean'
         /\ holder' \in [Wallet -> Session \cup {NoSession}]
         /\ open' \in SUBSET Session
         /\ view' \in [Session -> [Wallet -> WalletRow]]
         /\ draft' \in [Session -> [Wallet -> Seq(Move)]]
         /\ \A z \in open' : z # s /\ z \in open /\ view'[z] = view[z] /\ draft'[z] = draft[z]
         /\ \A z \in open', w \in Wallet : (holder'[w] = z) <=> (holder[w] = z)
<1>1. NewWallet \in WalletRow
  BY LimitAssumption DEF NewWallet, WalletRow
<1>2. << >> \in Seq(Move)
  OBVIOUS
<1>3. s \in Session
  BY DEF TypeOK
<1>4. /\ view' \in [Session -> [Wallet -> WalletRow]]
      /\ draft' \in [Session -> [Wallet -> Seq(Move)]]
  BY <1>1, <1>2 DEF TypeOK, Release
<1>5. /\ holder' \in [Wallet -> Session \cup {NoSession}]
      /\ open' \in SUBSET Session
      /\ \A z \in open' : z # s /\ z \in open /\ view'[z] = view[z] /\ draft'[z] = draft[z]
  BY DEF TypeOK, Release
<1>6. \A z \in open', w \in Wallet : (holder'[w] = z) <=> (holder[w] = z)
  BY <1>5, SessionAssumption DEF TypeOK, Release
<1>7. HolderIsOpen'
  BY DEF HolderIsOpen, Release, TypeOK
<1>8. UnheldIsClean'
  <2> SUFFICES ASSUME NEW z \in Session, NEW w \in Wallet, holder'[w] # z
               PROVE  draft'[z][w] = << >>
    BY DEF UnheldIsClean
  <2>1. CASE z = s
    BY <2>1 DEF Release, TypeOK
  <2>2. CASE z # s
    <3>1. holder[w] # z
      BY <2>2 DEF Release
    <3>2. draft'[z] = draft[z]
      BY <2>2 DEF Release, TypeOK
    <3> QED BY <3>1, <3>2 DEF UnheldIsClean
  <2> QED BY <2>1, <2>2
<1> QED BY <1>4, <1>5, <1>6, <1>7, <1>8

\* What a commit does to each row's journal.
LEMMA CommitPosts ==
  ASSUME IInv, NEW s \in open, Commit(s), NEW w \in Wallet
  PROVE  /\ Sub!Chained(0, moves'[w])
         /\ wallet'[w].balance = Sub!Closing(0, moves'[w])
         /\ Sub!Extends(moves'[w], moves[w])
         /\ moves'[w] = moves[w] \o draft[s][w]
         /\ wallet'[w] \in WalletRow
         /\ moves'[w] \in Seq(Move)
         /\ holder[w] # s => wallet'[w] = wallet[w] /\ draft[s][w] = << >>
<1> USE DEF IInv
<1>1. /\ s \in Session
      /\ moves[w] \in Seq(Move) /\ draft[s][w] \in Seq(Move)
      /\ wallet[w] \in WalletRow /\ view[s][w] \in WalletRow
  BY DEF TypeOK
<1>2. /\ moves'[w] = moves[w] \o draft[s][w]
      /\ wallet'[w] = IF holder[w] = s
                        THEN [wallet[w] EXCEPT !.balance = view[s][w].balance]
                        ELSE wallet[w]
  BY DEF Commit
<1>3. moves'[w] \in Seq(Move)
  BY <1>1, <1>2, ConcatProperties
<1>4. Sub!Chained(0, moves[w]) /\ wallet[w].balance = Sub!Closing(0, moves[w])
  BY DEF BalanceIsJournal
<1>5. CASE holder[w] = s
  <2>1. /\ Sub!Chained(Sub!Closing(0, moves[w]), draft[s][w])
        /\ view[s][w].balance = Sub!Closing(Sub!Closing(0, moves[w]), draft[s][w])
    BY <1>4, <1>5 DEF HeldIsFresh
  <2>2. wallet'[w] \in WalletRow /\ wallet'[w].balance = view[s][w].balance
    BY <1>1, <1>2, <1>5 DEF WalletRow
  <2>3. /\ Sub!Chained(0, moves[w] \o draft[s][w])
        /\ Sub!Closing(0, moves[w] \o draft[s][w])
             = Sub!Closing(Sub!Closing(0, moves[w]), draft[s][w])
        /\ Sub!Extends(moves[w] \o draft[s][w], moves[w])
    BY <1>1, <1>4, <2>1, ChainConcat
  <2> QED BY <1>2, <1>3, <1>5, <2>1, <2>2, <2>3
<1>6. CASE holder[w] # s
  <2>1. draft[s][w] = << >>
    BY <1>1, <1>6 DEF UnheldIsClean
  <2>2. moves'[w] = moves[w]
    BY <1>1, <1>2, <2>1, ConcatEmptySeq
  <2>3. Sub!Extends(moves[w], moves[w])
    BY <1>1 DEF Sub!Extends
  <2> QED BY <1>1, <1>2, <1>4, <1>6, <2>1, <2>2, <2>3
<1> QED BY <1>5, <1>6

\* A fresh database satisfies the inductive invariant.
LEMMA InitIInv == Init => IInv
<1> SUFFICES ASSUME Init PROVE IInv
  OBVIOUS
<1>1. NewWallet \in WalletRow
  BY LimitAssumption DEF NewWallet, WalletRow
<1>2. TypeOK
  BY <1>1 DEF Init, TypeOK
<1>3. BalanceIsJournal
  <2>1. \A w \in Wallet : wallet[w].balance = 0 /\ moves[w] = << >>
    BY DEF Init, NewWallet
  <2>2. Sub!Chained(0, << >>) /\ Sub!Closing(0, << >>) = 0
    BY DEF Sub!Chained, Sub!Closing
  <2> QED BY <2>1, <2>2 DEF BalanceIsJournal
<1>4. HolderIsOpen /\ HeldIsFresh /\ UnheldIsSnapshot /\ UnheldIsClean /\ DraftAllowed
  BY DEF Init, HolderIsOpen, HeldIsFresh, UnheldIsSnapshot, UnheldIsClean, DraftAllowed
<1> QED BY <1>2, <1>3, <1>4 DEF IInv

\* Every step of every session, and every edit of the form, preserves it.
LEMMA NextIInv == IInv /\ [Next]_vars => IInv'
<1> SUFFICES ASSUME IInv, [Next]_vars PROVE IInv'
  OBVIOUS
<1> USE DEF IInv
<1>1. ASSUME NEW s \in Session, Begin(s) PROVE IInv'
  <2>1. /\ open' = open \cup {s} /\ s \notin open
        /\ view' = [view EXCEPT ![s] = wallet]
        /\ missed' = [missed EXCEPT ![s] = {}]
        /\ UNCHANGED <<wallet, moves, holder, draft>>
    BY <1>1 DEF Begin
  <2>2. \A w \in Wallet : holder[w] # s
    BY <2>1, SessionAssumption DEF HolderIsOpen
  <2>3. TypeOK'
    BY <2>1 DEF TypeOK
  <2>4. BalanceIsJournal' /\ HolderIsOpen' /\ UnheldIsClean'
    BY <2>1 DEF BalanceIsJournal, HolderIsOpen, UnheldIsClean
  <2>5. /\ view'[s] = wallet /\ missed'[s] = {}
        /\ \A z \in open : z # s /\ view'[z] = view[z] /\ missed'[z] = missed[z]
    BY <2>1 DEF TypeOK
  <2>6. HeldIsFresh'
    BY <2>1, <2>2, <2>5 DEF HeldIsFresh
  <2>7. UnheldIsSnapshot'
    BY <2>1, <2>5 DEF UnheldIsSnapshot
  <2>8. \A w \in Wallet : draft'[s][w] = << >>
    BY <2>1, <2>2 DEF UnheldIsClean
  <2>9. DraftAllowed'
    BY <2>1, <2>5, <2>8 DEF DraftAllowed
  <2> QED BY <2>3, <2>4, <2>6, <2>7, <2>9
<1>2. ASSUME NEW s \in Session, Commit(s) PROVE IInv'
  <2>1. /\ s \in open /\ Release(s)
        /\ view' = [view EXCEPT ![s] = [w \in Wallet |-> NewWallet]]
        /\ missed' = [z \in Session |-> IF z = s THEN {} ELSE missed[z] \cup Held(s)]
        /\ moves' = [w \in Wallet |-> moves[w] \o draft[s][w]]
    BY <1>2 DEF Commit
  <2>2. /\ HolderIsOpen' /\ UnheldIsClean'
        /\ holder' \in [Wallet -> Session \cup {NoSession}]
        /\ open' \in SUBSET Session
        /\ view' \in [Session -> [Wallet -> WalletRow]]
        /\ draft' \in [Session -> [Wallet -> Seq(Move)]]
        /\ \A z \in open' : z # s /\ z \in open /\ view'[z] = view[z] /\ draft'[z] = draft[z]
        /\ \A z \in open', w \in Wallet : (holder'[w] = z) <=> (holder[w] = z)
    BY <2>1, ReleaseStep
  <2>3. \A w \in Wallet :
          /\ Sub!Chained(0, moves'[w])
          /\ wallet'[w].balance = Sub!Closing(0, moves'[w])
          /\ wallet'[w] \in WalletRow
          /\ moves'[w] \in Seq(Move)
          /\ holder[w] # s => wallet'[w] = wallet[w]
    BY <1>2, <2>1, CommitPosts
  <2>4. TypeOK'
    <3>1. wallet' \in [Wallet -> WalletRow]
      BY <1>2, <2>3 DEF Commit
    <3>2. moves' \in [Wallet -> Seq(Move)]
      BY <2>1, <2>3
    <3>3. missed' \in [Session -> SUBSET Wallet]
      BY <2>1 DEF Held, TypeOK
    <3> QED BY <2>2, <3>1, <3>2, <3>3 DEF TypeOK
  <2>5. BalanceIsJournal'
    BY <2>3 DEF BalanceIsJournal
  <2>6. \A z \in open', w \in Wallet : holder[w] = z =>
          wallet'[w] = wallet[w] /\ w \notin Held(s)
    BY <2>2, <2>3 DEF Held
  <2>7. \A z \in open' : missed'[z] = missed[z] \cup Held(s)
    BY <2>1, <2>2 DEF TypeOK
  <2>10. \A w \in Wallet : w \notin Held(s) => wallet'[w] = wallet[w]
    BY <2>3 DEF Held
  <2>8. HeldIsFresh'
    <3> SUFFICES ASSUME NEW z \in open', NEW w \in Wallet, holder'[w] = z
                 PROVE /\ w \notin missed'[z]
                       /\ Sub!Chained(wallet'[w].balance, draft'[z][w])
                       /\ view'[z][w].balance = Sub!Closing(wallet'[w].balance, draft'[z][w])
                       /\ view'[z][w].limit = wallet'[w].limit
                       /\ view'[z][w].state = wallet'[w].state
      BY DEF HeldIsFresh
    <3>1. z \in open /\ holder[w] = z /\ view'[z] = view[z] /\ draft'[z] = draft[z]
      BY <2>2
    <3> QED BY <3>1, <2>6, <2>7 DEF HeldIsFresh
  <2>9. UnheldIsSnapshot'
    <3> SUFFICES ASSUME NEW z \in open', NEW w \in Wallet,
                        holder'[w] # z, w \notin missed'[z]
                 PROVE  view'[z][w] = wallet'[w]
      BY DEF UnheldIsSnapshot
    <3>1. z \in open /\ holder[w] # z /\ view'[z] = view[z]
      BY <2>2
    <3> QED BY <3>1, <2>10, <2>7 DEF UnheldIsSnapshot
  <2>11. DraftAllowed'
    <3> SUFFICES ASSUME NEW z \in open', NEW w \in Wallet, draft'[z][w] # << >>
                 PROVE  /\ view'[z][w].state = "active"
                        /\ \A i \in 1..Len(draft'[z][w]) :
                             draft'[z][w][i].amount < 0
                               => draft'[z][w][i].after >= -view'[z][w].limit
      BY DEF DraftAllowed
    <3>1. z \in open /\ view'[z] = view[z] /\ draft'[z] = draft[z]
      BY <2>2
    <3> QED BY <3>1 DEF DraftAllowed
  <2> QED BY <2>2, <2>4, <2>5, <2>8, <2>9, <2>11
<1>3. ASSUME NEW s \in Session, Rollback(s) PROVE IInv'
  <2>1. /\ s \in open /\ Release(s)
        /\ view' = [view EXCEPT ![s] = [w \in Wallet |-> NewWallet]]
        /\ missed' = [missed EXCEPT ![s] = {}]
        /\ UNCHANGED <<wallet, moves>>
    BY <1>3 DEF Rollback
  <2>2. /\ HolderIsOpen' /\ UnheldIsClean'
        /\ holder' \in [Wallet -> Session \cup {NoSession}]
        /\ open' \in SUBSET Session
        /\ view' \in [Session -> [Wallet -> WalletRow]]
        /\ draft' \in [Session -> [Wallet -> Seq(Move)]]
        /\ \A z \in open' : z # s /\ z \in open /\ view'[z] = view[z] /\ draft'[z] = draft[z]
        /\ \A z \in open', w \in Wallet : (holder'[w] = z) <=> (holder[w] = z)
    BY <2>1, ReleaseStep
  <2>3. \A z \in open' : missed'[z] = missed[z]
    BY <2>1, <2>2 DEF TypeOK
  <2>4. TypeOK'
    BY <2>1, <2>2 DEF TypeOK
  <2>5. BalanceIsJournal'
    BY <2>1 DEF BalanceIsJournal
  <2>6. HeldIsFresh'
    <3> SUFFICES ASSUME NEW z \in open', NEW w \in Wallet, holder'[w] = z
                 PROVE /\ w \notin missed'[z]
                       /\ Sub!Chained(wallet'[w].balance, draft'[z][w])
                       /\ view'[z][w].balance = Sub!Closing(wallet'[w].balance, draft'[z][w])
                       /\ view'[z][w].limit = wallet'[w].limit
                       /\ view'[z][w].state = wallet'[w].state
      BY DEF HeldIsFresh
    <3>1. z \in open /\ holder[w] = z /\ view'[z] = view[z] /\ draft'[z] = draft[z]
      BY <2>2
    <3> QED BY <3>1, <2>1, <2>3 DEF HeldIsFresh
  <2>7. UnheldIsSnapshot'
    <3> SUFFICES ASSUME NEW z \in open', NEW w \in Wallet,
                        holder'[w] # z, w \notin missed'[z]
                 PROVE  view'[z][w] = wallet'[w]
      BY DEF UnheldIsSnapshot
    <3>1. z \in open /\ holder[w] # z /\ view'[z] = view[z]
      BY <2>2
    <3> QED BY <3>1, <2>1, <2>3 DEF UnheldIsSnapshot
  <2>8. DraftAllowed'
    <3> SUFFICES ASSUME NEW z \in open', NEW w \in Wallet, draft'[z][w] # << >>
                 PROVE  /\ view'[z][w].state = "active"
                        /\ \A i \in 1..Len(draft'[z][w]) :
                             draft'[z][w][i].amount < 0
                               => draft'[z][w][i].after >= -view'[z][w].limit
      BY DEF DraftAllowed
    <3>1. z \in open /\ view'[z] = view[z] /\ draft'[z] = draft[z]
      BY <2>2
    <3> QED BY <3>1 DEF DraftAllowed
  <2> QED BY <2>2, <2>4, <2>5, <2>6, <2>7, <2>8
<1>4. ASSUME NEW s \in Session, NEW w \in Wallet, NEW amount \in Amount,
             AtomicDebit(s, w, amount)
      PROVE  IInv'
  <2>1. /\ s \in open
        /\ view[s][w].state = "active"
        /\ Lock(s, w)
        /\ amount <= view[s][w].balance + view[s][w].limit
        /\ PostMove(s, w, -amount)
        /\ UNCHANGED <<wallet, moves, open, missed>>
    BY <1>4 DEF AtomicDebit
  <2>2. /\ amount \in Int /\ -amount \in Int
        /\ view[s][w].balance \in Int /\ view[s][w].limit \in Int
    <3>1. amount \in Nat
      BY AmountAssumption
    <3>2. view[s][w] \in WalletRow
      BY DEF TypeOK
    <3>3. view[s][w].balance \in Int /\ view[s][w].limit \in Nat
      BY <3>2, LimitAssumption DEF WalletRow
    <3> QED BY <3>1, <3>3
  <2>3. view[s][w].balance + (-amount) >= -view[s][w].limit
    BY <2>1, <2>2
  <2> QED BY <2>1, <2>2, <2>3, PostStep
<1>5. ASSUME NEW s \in Session, NEW w \in Wallet, NEW amount \in Nat,
             AtomicCredit(s, w, amount)
      PROVE  IInv'
  <2>1. /\ s \in open
        /\ view[s][w].state = "active"
        /\ Lock(s, w)
        /\ PostMove(s, w, amount)
        /\ UNCHANGED <<wallet, moves, open, missed>>
    BY <1>5 DEF AtomicCredit
  <2>2. amount \in Int /\ ~(amount < 0)
    OBVIOUS
  <2> QED BY <2>1, <2>2, PostStep
<1>6. ASSUME NEW s \in Session, NEW w \in Wallet, NEW amount \in Amount,
             AtomicCreditWithTax(s, w, amount)
      PROVE  IInv'
  <2>1. amount \in Nat
    BY AmountAssumption
  <2>2. (IF TaxRate = 0 THEN amount ELSE Dpp(amount)) \in Nat
    BY <2>1, TaxAssumption DEF Dpp
  <2> QED BY <1>5, <1>6, <2>2 DEF AtomicCreditWithTax
<1>7. ASSUME NEW w \in Wallet, NEW limit \in Limit, NEW state \in {"active", "frozen"},
             EditWallet(w, limit, state)
      PROVE  IInv'
  <2>1. /\ holder[w] = NoSession
        /\ wallet' = [wallet EXCEPT ![w] = [@ EXCEPT !.limit = limit, !.state = state]]
        /\ missed' = [s \in Session |-> IF s \in open THEN missed[s] \cup {w} ELSE missed[s]]
        /\ UNCHANGED <<moves, holder, open, view, draft>>
    BY <1>7 DEF EditWallet, TypeOK, WalletRow
  <2>2. /\ wallet'[w] \in WalletRow
        /\ wallet'[w].balance = wallet[w].balance
        /\ \A v \in Wallet : v # w => wallet'[v] = wallet[v]
    BY <2>1 DEF TypeOK, WalletRow
  <2>3. TypeOK'
    BY <2>1, <2>2 DEF TypeOK
  <2>4. BalanceIsJournal'
    BY <2>1, <2>2 DEF BalanceIsJournal
  <2>5. \A s \in open, v \in Wallet :
          /\ holder[v] = s => v # w
          /\ v \notin missed'[s] <=> (v \notin missed[s] /\ v # w)
    BY <2>1, SessionAssumption DEF TypeOK
  <2>6. HolderIsOpen' /\ UnheldIsClean' /\ DraftAllowed'
    BY <2>1 DEF HolderIsOpen, UnheldIsClean, DraftAllowed
  <2>7. HeldIsFresh'
    <3> SUFFICES ASSUME NEW z \in open, NEW v \in Wallet, holder[v] = z
                 PROVE  /\ v \notin missed'[z]
                        /\ Sub!Chained(wallet'[v].balance, draft[z][v])
                        /\ view[z][v].balance = Sub!Closing(wallet'[v].balance, draft[z][v])
                        /\ view[z][v].limit = wallet'[v].limit
                        /\ view[z][v].state = wallet'[v].state
      BY <2>1 DEF HeldIsFresh
    <3>1. wallet'[v] = wallet[v] /\ v \notin missed'[z]
      BY <2>2, <2>5 DEF HeldIsFresh
    <3> QED BY <3>1 DEF HeldIsFresh
  <2>8. UnheldIsSnapshot'
    BY <2>1, <2>2, <2>5 DEF UnheldIsSnapshot
  <2> QED BY <2>3, <2>4, <2>6, <2>7, <2>8
<1>8. CASE UNCHANGED vars
  BY <1>8 DEF vars, TypeOK, BalanceIsJournal, HolderIsOpen, HeldIsFresh,
              UnheldIsSnapshot, UnheldIsClean, DraftAllowed
<1>9. Amount \subseteq Nat
  BY AmountAssumption
<1> QED
  BY <1>1, <1>2, <1>3, <1>4, <1>5, <1>6, <1>7, <1>8, <1>9 DEF Next

\* The invariant holds in every reachable state.
THEOREM SpecIInv == Spec => []IInv
BY InitIInv, NextIInv, PTL DEF Spec

-----------------------------------------------------------------------------
\* Only a commit adds moves, and it adds the session's drafts to rows it holds.
LEMMA MovesOnlyByCommit ==
  ASSUME IInv, [Next]_vars, NEW w \in Wallet, moves'[w] # moves[w]
  PROVE  \E s \in open : /\ Commit(s)
                         /\ holder[w] = s
                         /\ draft[s][w] # << >>
                         /\ moves'[w] = moves[w] \o draft[s][w]
<1>1. moves' # moves
  OBVIOUS
<1>2. PICK s \in Session : Commit(s)
  <2>1. CASE UNCHANGED vars
    BY <1>1, <2>1 DEF vars
  <2>2. CASE Next
    BY <1>1, <2>2 DEF Next, Begin, Rollback, AtomicDebit, AtomicCredit,
                      AtomicCreditWithTax, EditWallet
  <2> QED BY <2>1, <2>2
<1>3. s \in open
  BY <1>2 DEF Commit
<1>4. moves'[w] = moves[w] \o draft[s][w]
  BY <1>2 DEF Commit
<1>5. moves[w] \in Seq(Move) /\ draft[s][w] \in Seq(Move)
  BY DEF IInv, TypeOK
<1>6. draft[s][w] # << >>
  BY <1>4, <1>5, ConcatEmptySeq
<1>7. holder[w] = s
  BY <1>6 DEF IInv, UnheldIsClean
<1> QED BY <1>2, <1>3, <1>4, <1>6, <1>7

\* Every wallet, session, view and draft has its type in every reachable state.
THEOREM TypeCorrect == Spec => []TypeOK
<1>1. IInv => TypeOK
  BY DEF IInv
<1> QED BY <1>1, SpecIInv, PTL

\* No update is ever lost: the stored balance is the closing balance of the moves.
THEOREM NoLostUpdate == Spec => []BalanceIsJournal
<1>1. IInv => BalanceIsJournal
  BY DEF IInv
<1> QED BY <1>1, SpecIInv, PTL

\* No committed debit takes a wallet below minus the credit limit in force.
THEOREM DebitsAreCovered == Spec => DebitCovered
<1>1. ASSUME IInv, [Next]_vars
      PROVE  \A w \in Wallet : \A i \in (Len(moves[w]) + 1)..Len(moves'[w]) :
               moves'[w][i].amount < 0 => moves'[w][i].after >= -wallet[w].limit
  <2> SUFFICES ASSUME NEW w \in Wallet, NEW i \in (Len(moves[w]) + 1)..Len(moves'[w]),
                      moves'[w][i].amount < 0
               PROVE  moves'[w][i].after >= -wallet[w].limit
    OBVIOUS
  <2>1. moves[w] \in Seq(Move)
    BY <1>1 DEF IInv, TypeOK
  <2>2. moves'[w] # moves[w]
    BY <2>1
  <2>3. PICK s \in open : /\ holder[w] = s
                          /\ draft[s][w] # << >>
                          /\ moves'[w] = moves[w] \o draft[s][w]
    BY <1>1, <2>2, MovesOnlyByCommit
  <2>4. draft[s][w] \in Seq(Move)
    BY <1>1 DEF IInv, TypeOK
  <2> DEFINE n == i - Len(moves[w])
  <2>5. n \in 1..Len(draft[s][w]) /\ moves'[w][i] = draft[s][w][n]
    <3> DEFINE j == moves[w]
               d == draft[s][w]
    <3>1. /\ Len(j \o d) = Len(j) + Len(d)
          /\ \A k \in 1..(Len(j) + Len(d)) :
               (j \o d)[k] = IF k <= Len(j) THEN j[k] ELSE d[k - Len(j)]
      BY <2>1, <2>4, ConcatProperties
    <3>2. Len(j) \in Nat /\ Len(d) \in Nat
      BY <2>1, <2>4, LenProperties
    <3>3. i \in (Len(j) + 1)..(Len(j) + Len(d))
      BY <2>3, <3>1
    <3>4. /\ i \in 1..(Len(j) + Len(d))
          /\ ~(i <= Len(j))
          /\ n \in 1..Len(d)
      <4>1. \A a, b \in Nat : \A k \in (a + 1)..(a + b) :
              k \in 1..(a + b) /\ ~(k <= a) /\ k - a \in 1..b
        OBVIOUS
      <4> QED BY <3>2, <3>3, <4>1
    <3>5. (j \o d)[i] = d[n]
      BY <3>1, <3>4
    <3> QED BY <2>3, <3>4, <3>5
  <2>6. draft[s][w][n].after >= -view[s][w].limit
    BY <1>1, <2>3, <2>5 DEF IInv, DraftAllowed
  <2>7. view[s][w].limit = wallet[w].limit
    BY <1>1, <2>3 DEF IInv, HeldIsFresh
  <2> QED BY <2>5, <2>6, <2>7
<1> QED BY <1>1, SpecIInv, PTL DEF Spec, DebitCovered

\* Once a freeze has committed, no move reaches the wallet until it is active again.
THEOREM FreezeStopsMoves == Spec => FrozenIsStill
<1>1. ASSUME IInv, [Next]_vars
      PROVE  \A w \in Wallet : moves'[w] # moves[w] => wallet[w].state = "active"
  <2> SUFFICES ASSUME NEW w \in Wallet, moves'[w] # moves[w]
               PROVE  wallet[w].state = "active"
    OBVIOUS
  <2>1. PICK s \in open : holder[w] = s /\ draft[s][w] # << >>
    BY <1>1, MovesOnlyByCommit
  <2> QED BY <1>1, <2>1 DEF IInv, DraftAllowed, HeldIsFresh
<1> QED BY <1>1, SpecIInv, PTL DEF Spec, FrozenIsStill

-----------------------------------------------------------------------------
\* A step of the wallet posts to the abstract ledger, or leaves it alone.
LEMMA StepPosts ==
  ASSUME IInv, [Next]_vars
  PROVE  [Sub!Post]_(Sub!ledgerVars)
<1>1. IInv'
  BY NextIInv
<1>2. ASSUME NEW w \in Wallet PROVE Sub!Extends(moves'[w], moves[w])
  <2>1. moves[w] \in Seq(Move)
    BY DEF IInv, TypeOK
  <2>2. CASE moves'[w] = moves[w]
    BY <2>1, <2>2 DEF Sub!Extends
  <2>3. CASE moves'[w] # moves[w]
    BY <2>3, MovesOnlyByCommit, CommitPosts
  <2> QED BY <2>2, <2>3
<1>3. \A w \in Wallet : /\ Sub!Chained(0, moves'[w])
                        /\ wallet'[w].balance = Sub!Closing(0, moves'[w])
  BY <1>1 DEF IInv, BalanceIsJournal
<1>4. Sub!Post
  BY <1>2, <1>3 DEF Sub!Post
<1> QED BY <1>4

\* The row-locked primitives implement the abstract sub-ledger.
THEOREM WalletImplementsLedger == Spec => ImplementsLedger
<1>1. Init => Sub!LedgerInit
  BY DEF Init, Sub!LedgerInit, NewWallet
<1>2. IInv /\ [Next]_vars => [Sub!Post]_(Sub!ledgerVars)
  BY StepPosts
<1> QED BY <1>1, <1>2, SpecIInv, PTL DEF Spec, ImplementsLedger, Sub!LedgerSpec
=============================================================================
