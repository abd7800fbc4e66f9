-------------------------- MODULE LinearInstallsProofs --------------------------
(***************************************************************************)
(* For any number of servers, callbacks, losses and token pairs, any       *)
(* lifetime and any margin of two units or more: no server spends what     *)
(* another has spent, a refresh replaces only the row it has traded, and a *)
(* token that is handed out in time works.                                 *)
(***************************************************************************)
EXTENDS LinearInstalls, TLAPS

USE LinearAssumption DEF LinearAssumption, linear, client, callback

(* What a call holds where it stands.                                      *)
ShapeInv ==
    /\ \A c \in Clients :
          /\ pc[c] \in {"begin", "ask", "commit", "last"} => seen[c] # None
          /\ pc[c] = "commit" => fresh[c] # None /\ seen[c].refresh # None
    /\ \A i \in Installers : ipc[i] # "idle" => code[i] # None

(* Who asks or commits has the lock, and the row it read is the row.       *)
LockInv ==
    /\ \A c \in Clients : pc[c] \in {"ask", "commit"} => lock = c
    /\ lock # None => row # None /\ seen[lock] = row

(* Refresh tokens in use, by number.                                       *)
Spent(c) == pc[c] = "commit"

Good(k) == k \in live \cup {None}

(* A stored refresh token is good, or its answer was lost, or the holder of *)
(* the lock has just traded it; those of a callback and of an answer are   *)
(* good, and nobody else has them.                                         *)
StoredInv ==
    /\ row # None => row.refresh \in 1 .. issued \cup {None}
    /\ row # None /\ (\A c \in Clients : ~Spent(c)) => Good(row.refresh) \/ row.refresh \in lost

AnswerInv ==
    \A c \in Clients : Spent(c) =>
        /\ fresh[c].access \in 1 .. issued
        /\ Good(fresh[c].refresh)
        /\ fresh[c].refresh = None => Good(seen[c].refresh)

CodeGood ==
    \A i \in Installers : code[i] # None => code[i].access \in 1 .. issued /\ Good(code[i].refresh)

CodeOwn ==
    \A i \in Installers : code[i] # None /\ code[i].refresh # None =>
        /\ row # None => code[i].refresh # row.refresh
        /\ \A c \in Clients : Spent(c) => code[i].refresh # fresh[c].refresh
        /\ \A j \in Installers : j # i /\ code[j] # None => code[i].refresh # code[j].refresh

TokenInv == StoredInv /\ AnswerInv /\ CodeGood /\ CodeOwn

(* Which token an access token was traded for.                             *)
FromInv ==
    /\ \A c \in Clients : Spent(c) =>
          fresh[c].access \in 1 .. issued /\ from[fresh[c].access] = seen[c].refresh
    /\ \A i \in Installers : code[i] # None =>
          code[i].access \in 1 .. issued /\ from[code[i].access] = None

(* A call sees at most one unit go by, and what is stored is at most one   *)
(* later than the end of the token.                                        *)
Ends(r, t, late) ==
    /\ r.access \in 1 .. issued
    /\ r.expires # None => t <= ends[r.access] + late
    /\ r.expires = None => ends[r.access] = Never

CallTime ==
    \A c \in Clients :
        /\ pc[c] # "idle" => now[c] <= clock /\ clock <= now[c] + 1
        /\ pc[c] = "commit" => Ends(fresh[c], now[c] + Life, 0)

CodeTime ==
    \A i \in Installers :
        /\ ipc[i] = "fetch" => inow[i] <= clock /\ clock <= inow[i] + 1 /\ Ends(code[i], inow[i] + Life, 0)
        /\ ipc[i] = "upsert" => Ends(code[i], inow[i] + Life, 1)

RowTime == row # None => Ends(row, row.expires, 1)

TimeInv == CallTime /\ CodeTime /\ RowTime

(* What a new pair of tokens leaves as it is.                              *)
Granted(for, answer) ==
    /\ issued' = issued + 1 /\ issued + 1 \in Tokens
    /\ answer \in Rows /\ answer # None
    /\ answer.access = issued + 1 /\ answer.refresh \in {issued + 1, None}
    /\ answer.expires \in {Life, None}
    /\ live' \subseteq 1 .. issued' /\ live \ {for} \subseteq live'
    /\ answer.refresh # None => answer.refresh \in live'
    /\ answer.refresh = None => live' = live
    /\ ends' \in [Tokens -> Times] /\ from' \in [Tokens -> Tokens \cup {None}]
    /\ \A k \in 1 .. issued : k \in Tokens /\ ends'[k] = ends[k] /\ from'[k] = from[k]
    /\ ends'[issued + 1] = IF answer.expires = None THEN Never ELSE clock + Life
    /\ from'[issued + 1] = for

LEMMA GrantFacts ==
    ASSUME TypeOK, NEW for \in Tokens \cup {None}, NEW answer \in Answers, Grant(for, answer)
    PROVE  Granted(for, answer)
<1>1. issued' = issued + 1 /\ issued + 1 \in Tokens
  BY DEF Grant, TypeOK, Tokens
<1>2. /\ answer.access = issued + 1 /\ answer.refresh \in {issued + 1, None}
      /\ answer.expires \in {Life, None}
  BY DEF Answers
<1>3. answer \in Rows
  BY <1>1 DEF Answers, Rows, Times, Never
<1>4. answer # None
  BY <1>3
<1>5. live' = IF answer.refresh = None THEN live ELSE (live \ {for}) \cup {issued + 1}
  BY DEF Grant
<1>6. ASSUME NEW k \in live' PROVE k \in 1 .. issued'
  <2>1. k \in live \/ k = issued + 1
    BY <1>5
  <2>2. issued \in Nat /\ live \subseteq 1 .. issued
    BY DEF TypeOK
  <2>3. CASE k \in live
    BY <1>1, <2>2, <2>3
  <2>4. CASE k = issued + 1
    BY <1>1, <2>2, <2>4
  <2>5. QED
    BY <2>1, <2>3, <2>4
<1>7. ends' \in [Tokens -> Times] /\ from' \in [Tokens -> Tokens \cup {None}]
  <2>1. (IF answer.expires = None THEN Never ELSE clock + Life) \in Times
    BY DEF TypeOK, Times, Never
  <2>2. QED
    BY <2>1 DEF Grant, TypeOK
<1>8. \A k \in 1 .. issued : k \in Tokens /\ ends'[k] = ends[k] /\ from'[k] = from[k]
  BY <1>1 DEF Grant, TypeOK, Tokens
<1>9. /\ ends'[issued + 1] = IF answer.expires = None THEN Never ELSE clock + Life
      /\ from'[issued + 1] = for
  BY <1>1 DEF Grant, TypeOK
<1>10. live \ {for} \subseteq live' /\ (answer.refresh = None => live' = live)
  BY <1>5
<1>11. answer.refresh # None => answer.refresh \in live'
  BY <1>2, <1>5
<1>12. QED
  BY <1>1, <1>2, <1>3, <1>4, <1>6, <1>7, <1>8, <1>9, <1>10, <1>11 DEF Granted

(* A row with another expiry.                                              *)
LEMMA RowFields ==
    ASSUME NEW r \in Rows, NEW e
    PROVE  /\ [r EXCEPT !.expires = e].access = r.access
           /\ [r EXCEPT !.expires = e].refresh = r.refresh
           /\ [r EXCEPT !.expires = e].expires = e
  BY DEF Rows

LEMMA TypeStep == TypeOK /\ ShapeInv /\ [Next]_vars => (TypeOK /\ ShapeInv)'
<1> SUFFICES ASSUME TypeOK /\ ShapeInv, [Next]_vars PROVE (TypeOK /\ ShapeInv)'
  OBVIOUS
<1>1. ASSUME Tick PROVE (TypeOK /\ ShapeInv)'
  BY <1>1 DEF Tick, TypeOK, ShapeInv, Rows, Tokens, Times, Never
<1>2. ASSUME Delete PROVE (TypeOK /\ ShapeInv)'
  BY <1>2 DEF Delete, TypeOK, ShapeInv, Rows, Tokens, Times, Never
<1>3. ASSUME NEW c \in Clients, Call(c) PROVE (TypeOK /\ ShapeInv)'
  BY <1>3 DEF Call, Goto, TypeOK, ShapeInv, Rows, Tokens, Times, Never
<1>4. ASSUME NEW c \in Clients, Read(c) PROVE (TypeOK /\ ShapeInv)'
  <2>1. clock' \in 0 .. MaxTime /\ issued' \in 0 .. MaxGrants
    BY <1>4 DEF Read, Return, Due, Goto, TypeOK, ShapeInv
  <2>2. ends' \in [Tokens -> Times] /\ from' \in [Tokens -> Tokens \cup {None}]
    BY <1>4 DEF Read, Return, Due, Goto, TypeOK, ShapeInv, Tokens, Times, Never, Rows
  <2>3. live' \subseteq 1 .. issued' /\ refused' \subseteq Tokens /\ lost' \subseteq Tokens
    BY <1>4 DEF Read, Return, Due, Goto, TypeOK, ShapeInv, Rows, Tokens
  <2>4. row' \in Rows \cup {None}
    BY <1>4 DEF Read, Return, Due, Goto, TypeOK, ShapeInv, Rows, Times, Never
  <2>5. lock' \in Clients \cup {None} /\ (lock' # None => pc'[lock'] \in {"ask", "commit", "last"})
    BY <1>4 DEF Read, Return, Due, Goto, TypeOK, ShapeInv
  <2>6. pc' \in [Clients -> {"idle", "read", "begin", "ask", "commit", "last"}]
    BY <1>4 DEF Read, Return, Due, Goto, TypeOK, ShapeInv
  <2>7. now' \in [Clients -> 0 .. MaxTime]
    BY <1>4 DEF Read, Return, Due, Goto, TypeOK, ShapeInv
  <2>8. seen' \in [Clients -> Rows \cup {None}]
    BY <1>4 DEF Read, Return, Due, Goto, TypeOK, ShapeInv
  <2>9. fresh' \in [Clients -> Rows \cup {None}]
    BY <1>4 DEF Read, Return, Due, Goto, TypeOK, ShapeInv, Rows, Tokens, Times, Never
  <2>10. out' \in [Clients -> Tokens \cup {None}]
    BY <1>4 DEF Read, Return, Due, Goto, TypeOK, ShapeInv, Rows
  <2>11. ipc' \in [Installers -> {"idle", "fetch", "upsert"}]
    BY <1>4 DEF Read, Return, Due, Goto, TypeOK, ShapeInv
  <2>12. inow' \in [Installers -> 0 .. MaxTime]
    BY <1>4 DEF Read, Return, Due, Goto, TypeOK, ShapeInv
  <2>13. code' \in [Installers -> Rows \cup {None}]
    BY <1>4 DEF Read, Return, Due, Goto, TypeOK, ShapeInv, Rows, Tokens, Times, Never
  <2>14. ShapeInv'
    BY <1>4 DEF Read, Return, Due, Goto, TypeOK, ShapeInv
  <2>15. QED
    BY <2>1, <2>2, <2>3, <2>4, <2>5, <2>6, <2>7, <2>8, <2>9, <2>10, <2>11, <2>12, <2>13, <2>14 DEF TypeOK
<1>5. ASSUME NEW c \in Clients, Begin(c) PROVE (TypeOK /\ ShapeInv)'
  <2>1. clock' \in 0 .. MaxTime /\ issued' \in 0 .. MaxGrants
    BY <1>5 DEF Begin, Return, Due, Goto, TypeOK, ShapeInv
  <2>2. ends' \in [Tokens -> Times] /\ from' \in [Tokens -> Tokens \cup {None}]
    BY <1>5 DEF Begin, Return, Due, Goto, TypeOK, ShapeInv, Tokens, Times, Never, Rows
  <2>3. live' \subseteq 1 .. issued' /\ refused' \subseteq Tokens /\ lost' \subseteq Tokens
    BY <1>5 DEF Begin, Return, Due, Goto, TypeOK, ShapeInv, Rows, Tokens
  <2>4. row' \in Rows \cup {None}
    BY <1>5 DEF Begin, Return, Due, Goto, TypeOK, ShapeInv, Rows, Times, Never
  <2>5. lock' \in Clients \cup {None} /\ (lock' # None => pc'[lock'] \in {"ask", "commit", "last"})
    BY <1>5 DEF Begin, Return, Due, Goto, TypeOK, ShapeInv
  <2>6. pc' \in [Clients -> {"idle", "read", "begin", "ask", "commit", "last"}]
    BY <1>5 DEF Begin, Return, Due, Goto, TypeOK, ShapeInv
  <2>7. now' \in [Clients -> 0 .. MaxTime]
    BY <1>5 DEF Begin, Return, Due, Goto, TypeOK, ShapeInv
  <2>8. seen' \in [Clients -> Rows \cup {None}]
    BY <1>5 DEF Begin, Return, Due, Goto, TypeOK, ShapeInv
  <2>9. fresh' \in [Clients -> Rows \cup {None}]
    BY <1>5 DEF Begin, Return, Due, Goto, TypeOK, ShapeInv, Rows, Tokens, Times, Never
  <2>10. out' \in [Clients -> Tokens \cup {None}]
    BY <1>5 DEF Begin, Return, Due, Goto, TypeOK, ShapeInv, Rows
  <2>11. ipc' \in [Installers -> {"idle", "fetch", "upsert"}]
    BY <1>5 DEF Begin, Return, Due, Goto, TypeOK, ShapeInv
  <2>12. inow' \in [Installers -> 0 .. MaxTime]
    BY <1>5 DEF Begin, Return, Due, Goto, TypeOK, ShapeInv
  <2>13. code' \in [Installers -> Rows \cup {None}]
    BY <1>5 DEF Begin, Return, Due, Goto, TypeOK, ShapeInv, Rows, Tokens, Times, Never
  <2>14. ShapeInv'
    BY <1>5 DEF Begin, Return, Due, Goto, TypeOK, ShapeInv
  <2>15. QED
    BY <2>1, <2>2, <2>3, <2>4, <2>5, <2>6, <2>7, <2>8, <2>9, <2>10, <2>11, <2>12, <2>13, <2>14 DEF TypeOK
<1>6. ASSUME NEW c \in Clients, Busy(c) PROVE (TypeOK /\ ShapeInv)'
  <2>1. clock' \in 0 .. MaxTime /\ issued' \in 0 .. MaxGrants
    BY <1>6 DEF Busy, Return, Goto, TypeOK, ShapeInv
  <2>2. ends' \in [Tokens -> Times] /\ from' \in [Tokens -> Tokens \cup {None}]
    BY <1>6 DEF Busy, Return, Goto, TypeOK, ShapeInv, Tokens, Times, Never, Rows
  <2>3. live' \subseteq 1 .. issued' /\ refused' \subseteq Tokens /\ lost' \subseteq Tokens
    BY <1>6 DEF Busy, Return, Goto, TypeOK, ShapeInv, Rows, Tokens
  <2>4. row' \in Rows \cup {None}
    BY <1>6 DEF Busy, Return, Goto, TypeOK, ShapeInv, Rows, Times, Never
  <2>5. lock' \in Clients \cup {None} /\ (lock' # None => pc'[lock'] \in {"ask", "commit", "last"})
    BY <1>6 DEF Busy, Return, Goto, TypeOK, ShapeInv
  <2>6. pc' \in [Clients -> {"idle", "read", "begin", "ask", "commit", "last"}]
    BY <1>6 DEF Busy, Return, Goto, TypeOK, ShapeInv
  <2>7. now' \in [Clients -> 0 .. MaxTime]
    BY <1>6 DEF Busy, Return, Goto, TypeOK, ShapeInv
  <2>8. seen' \in [Clients -> Rows \cup {None}]
    BY <1>6 DEF Busy, Return, Goto, TypeOK, ShapeInv
  <2>9. fresh' \in [Clients -> Rows \cup {None}]
    BY <1>6 DEF Busy, Return, Goto, TypeOK, ShapeInv, Rows, Tokens, Times, Never
  <2>10. out' \in [Clients -> Tokens \cup {None}]
    BY <1>6 DEF Busy, Return, Goto, TypeOK, ShapeInv, Rows
  <2>11. ipc' \in [Installers -> {"idle", "fetch", "upsert"}]
    BY <1>6 DEF Busy, Return, Goto, TypeOK, ShapeInv
  <2>12. inow' \in [Installers -> 0 .. MaxTime]
    BY <1>6 DEF Busy, Return, Goto, TypeOK, ShapeInv
  <2>13. code' \in [Installers -> Rows \cup {None}]
    BY <1>6 DEF Busy, Return, Goto, TypeOK, ShapeInv, Rows, Tokens, Times, Never
  <2>14. ShapeInv'
    BY <1>6 DEF Busy, Return, Goto, TypeOK, ShapeInv
  <2>15. QED
    BY <2>1, <2>2, <2>3, <2>4, <2>5, <2>6, <2>7, <2>8, <2>9, <2>10, <2>11, <2>12, <2>13, <2>14 DEF TypeOK
<1>7. ASSUME NEW c \in Clients, Refreshed(c) PROVE (TypeOK /\ ShapeInv)'
  <2>1. PICK answer \in Answers : fresh' = [fresh EXCEPT ![c] = answer] /\ Granted(seen[c].refresh, answer)
    BY <1>7, GrantFacts DEF Refreshed, TypeOK, ShapeInv, Rows
  <2>2. clock' \in 0 .. MaxTime /\ issued' \in 0 .. MaxGrants
    BY <1>7, <2>1 DEF Refreshed, Goto, TypeOK, ShapeInv, Granted, Tokens
  <2>3. ends' \in [Tokens -> Times] /\ from' \in [Tokens -> Tokens \cup {None}]
    BY <1>7, <2>1 DEF Refreshed, Goto, TypeOK, ShapeInv, Tokens, Granted
  <2>4. live' \subseteq 1 .. issued' /\ refused' \subseteq Tokens /\ lost' \subseteq Tokens
    BY <1>7, <2>1 DEF Refreshed, Goto, TypeOK, ShapeInv, Tokens, Granted
  <2>5. row' \in Rows \cup {None}
    BY <1>7, <2>1 DEF Refreshed, Goto, TypeOK, ShapeInv, Granted
  <2>6. lock' \in Clients \cup {None} /\ (lock' # None => pc'[lock'] \in {"ask", "commit", "last"})
    BY <1>7, <2>1 DEF Refreshed, Goto, TypeOK, ShapeInv, Granted
  <2>7. pc' \in [Clients -> {"idle", "read", "begin", "ask", "commit", "last"}]
    BY <1>7, <2>1 DEF Refreshed, Goto, TypeOK, ShapeInv, Granted
  <2>8. now' \in [Clients -> 0 .. MaxTime]
    BY <1>7, <2>1 DEF Refreshed, Goto, TypeOK, ShapeInv, Granted
  <2>9. seen' \in [Clients -> Rows \cup {None}]
    BY <1>7, <2>1 DEF Refreshed, Goto, TypeOK, ShapeInv, Granted
  <2>10. fresh' \in [Clients -> Rows \cup {None}]
    BY <1>7, <2>1 DEF Refreshed, Goto, TypeOK, ShapeInv, Tokens, Granted
  <2>11. out' \in [Clients -> Tokens \cup {None}]
    BY <1>7, <2>1 DEF Refreshed, Goto, TypeOK, ShapeInv, Granted
  <2>12. ipc' \in [Installers -> {"idle", "fetch", "upsert"}]
    BY <1>7, <2>1 DEF Refreshed, Goto, TypeOK, ShapeInv, Granted
  <2>13. inow' \in [Installers -> 0 .. MaxTime]
    BY <1>7, <2>1 DEF Refreshed, Goto, TypeOK, ShapeInv, Granted
  <2>14. code' \in [Installers -> Rows \cup {None}]
    BY <1>7, <2>1 DEF Refreshed, Goto, TypeOK, ShapeInv, Tokens, Granted
  <2>15. ShapeInv'
    BY <1>7, <2>1 DEF Refreshed, Goto, TypeOK, ShapeInv, Granted
  <2>16. QED
    BY <2>2, <2>3, <2>4, <2>5, <2>6, <2>7, <2>8, <2>9, <2>10, <2>11, <2>12, <2>13, <2>14, <2>15 DEF TypeOK
<1>8. ASSUME NEW c \in Clients, AnswerLost(c) PROVE (TypeOK /\ ShapeInv)'
  <2>1. PICK answer \in Answers : TRUE /\ Granted(seen[c].refresh, answer)
    BY <1>8, GrantFacts DEF AnswerLost, TypeOK, ShapeInv, Rows
  <2>2. clock' \in 0 .. MaxTime /\ issued' \in 0 .. MaxGrants
    BY <1>8, <2>1 DEF AnswerLost, Goto, TypeOK, ShapeInv, Granted, Tokens
  <2>3. ends' \in [Tokens -> Times] /\ from' \in [Tokens -> Tokens \cup {None}]
    BY <1>8, <2>1 DEF AnswerLost, Goto, TypeOK, ShapeInv, Tokens, Granted
  <2>4. live' \subseteq 1 .. issued' /\ refused' \subseteq Tokens /\ lost' \subseteq Tokens
    BY <1>8, <2>1 DEF AnswerLost, Goto, TypeOK, ShapeInv, Tokens, Granted
  <2>5. row' \in Rows \cup {None}
    BY <1>8, <2>1 DEF AnswerLost, Goto, TypeOK, ShapeInv, Granted
  <2>6. lock' \in Clients \cup {None} /\ (lock' # None => pc'[lock'] \in {"ask", "commit", "last"})
    BY <1>8, <2>1 DEF AnswerLost, Goto, TypeOK, ShapeInv, Granted
  <2>7. pc' \in [Clients -> {"idle", "read", "begin", "ask", "commit", "last"}]
    BY <1>8, <2>1 DEF AnswerLost, Goto, TypeOK, ShapeInv, Granted
  <2>8. now' \in [Clients -> 0 .. MaxTime]
    BY <1>8, <2>1 DEF AnswerLost, Goto, TypeOK, ShapeInv, Granted
  <2>9. seen' \in [Clients -> Rows \cup {None}]
    BY <1>8, <2>1 DEF AnswerLost, Goto, TypeOK, ShapeInv, Granted
  <2>10. fresh' \in [Clients -> Rows \cup {None}]
    BY <1>8, <2>1 DEF AnswerLost, Goto, TypeOK, ShapeInv, Tokens, Granted
  <2>11. out' \in [Clients -> Tokens \cup {None}]
    BY <1>8, <2>1 DEF AnswerLost, Goto, TypeOK, ShapeInv, Granted
  <2>12. ipc' \in [Installers -> {"idle", "fetch", "upsert"}]
    BY <1>8, <2>1 DEF AnswerLost, Goto, TypeOK, ShapeInv, Granted
  <2>13. inow' \in [Installers -> 0 .. MaxTime]
    BY <1>8, <2>1 DEF AnswerLost, Goto, TypeOK, ShapeInv, Granted
  <2>14. code' \in [Installers -> Rows \cup {None}]
    BY <1>8, <2>1 DEF AnswerLost, Goto, TypeOK, ShapeInv, Tokens, Granted
  <2>15. ShapeInv'
    BY <1>8, <2>1 DEF AnswerLost, Goto, TypeOK, ShapeInv, Granted
  <2>16. QED
    BY <2>2, <2>3, <2>4, <2>5, <2>6, <2>7, <2>8, <2>9, <2>10, <2>11, <2>12, <2>13, <2>14, <2>15 DEF TypeOK
<1>9. ASSUME NEW c \in Clients, RefreshFails(c) PROVE (TypeOK /\ ShapeInv)'
  <2>1. clock' \in 0 .. MaxTime /\ issued' \in 0 .. MaxGrants
    BY <1>9 DEF RefreshFails, Goto, TypeOK, ShapeInv
  <2>2. ends' \in [Tokens -> Times] /\ from' \in [Tokens -> Tokens \cup {None}]
    BY <1>9 DEF RefreshFails, Goto, TypeOK, ShapeInv, Tokens, Times, Never, Rows
  <2>3. live' \subseteq 1 .. issued' /\ refused' \subseteq Tokens /\ lost' \subseteq Tokens
    BY <1>9 DEF RefreshFails, Goto, TypeOK, ShapeInv, Rows, Tokens
  <2>4. row' \in Rows \cup {None}
    BY <1>9 DEF RefreshFails, Goto, TypeOK, ShapeInv, Rows, Times, Never
  <2>5. lock' \in Clients \cup {None} /\ (lock' # None => pc'[lock'] \in {"ask", "commit", "last"})
    BY <1>9 DEF RefreshFails, Goto, TypeOK, ShapeInv
  <2>6. pc' \in [Clients -> {"idle", "read", "begin", "ask", "commit", "last"}]
    BY <1>9 DEF RefreshFails, Goto, TypeOK, ShapeInv
  <2>7. now' \in [Clients -> 0 .. MaxTime]
    BY <1>9 DEF RefreshFails, Goto, TypeOK, ShapeInv
  <2>8. seen' \in [Clients -> Rows \cup {None}]
    BY <1>9 DEF RefreshFails, Goto, TypeOK, ShapeInv
  <2>9. fresh' \in [Clients -> Rows \cup {None}]
    BY <1>9 DEF RefreshFails, Goto, TypeOK, ShapeInv, Rows, Tokens, Times, Never
  <2>10. out' \in [Clients -> Tokens \cup {None}]
    BY <1>9 DEF RefreshFails, Goto, TypeOK, ShapeInv, Rows
  <2>11. ipc' \in [Installers -> {"idle", "fetch", "upsert"}]
    BY <1>9 DEF RefreshFails, Goto, TypeOK, ShapeInv
  <2>12. inow' \in [Installers -> 0 .. MaxTime]
    BY <1>9 DEF RefreshFails, Goto, TypeOK, ShapeInv
  <2>13. code' \in [Installers -> Rows \cup {None}]
    BY <1>9 DEF RefreshFails, Goto, TypeOK, ShapeInv, Rows, Tokens, Times, Never
  <2>14. ShapeInv'
    BY <1>9 DEF RefreshFails, Goto, TypeOK, ShapeInv
  <2>15. QED
    BY <2>1, <2>2, <2>3, <2>4, <2>5, <2>6, <2>7, <2>8, <2>9, <2>10, <2>11, <2>12, <2>13, <2>14 DEF TypeOK
<1>10. ASSUME NEW c \in Clients, LastResort(c) PROVE (TypeOK /\ ShapeInv)'
  <2>1. clock' \in 0 .. MaxTime /\ issued' \in 0 .. MaxGrants
    BY <1>10 DEF LastResort, Return, Unlock, Goto, TypeOK, ShapeInv
  <2>2. ends' \in [Tokens -> Times] /\ from' \in [Tokens -> Tokens \cup {None}]
    BY <1>10 DEF LastResort, Return, Unlock, Goto, TypeOK, ShapeInv, Tokens, Times, Never, Rows
  <2>3. live' \subseteq 1 .. issued' /\ refused' \subseteq Tokens /\ lost' \subseteq Tokens
    BY <1>10 DEF LastResort, Return, Unlock, Goto, TypeOK, ShapeInv, Rows, Tokens
  <2>4. row' \in Rows \cup {None}
    BY <1>10 DEF LastResort, Return, Unlock, Goto, TypeOK, ShapeInv, Rows, Times, Never
  <2>5. lock' \in Clients \cup {None} /\ (lock' # None => pc'[lock'] \in {"ask", "commit", "last"})
    BY <1>10 DEF LastResort, Return, Unlock, Goto, TypeOK, ShapeInv
  <2>6. pc' \in [Clients -> {"idle", "read", "begin", "ask", "commit", "last"}]
    BY <1>10 DEF LastResort, Return, Unlock, Goto, TypeOK, ShapeInv
  <2>7. now' \in [Clients -> 0 .. MaxTime]
    BY <1>10 DEF LastResort, Return, Unlock, Goto, TypeOK, ShapeInv
  <2>8. seen' \in [Clients -> Rows \cup {None}]
    BY <1>10 DEF LastResort, Return, Unlock, Goto, TypeOK, ShapeInv
  <2>9. fresh' \in [Clients -> Rows \cup {None}]
    BY <1>10 DEF LastResort, Return, Unlock, Goto, TypeOK, ShapeInv, Rows, Tokens, Times, Never
  <2>10. out' \in [Clients -> Tokens \cup {None}]
    BY <1>10 DEF LastResort, Return, Unlock, Goto, TypeOK, ShapeInv, Rows
  <2>11. ipc' \in [Installers -> {"idle", "fetch", "upsert"}]
    BY <1>10 DEF LastResort, Return, Unlock, Goto, TypeOK, ShapeInv
  <2>12. inow' \in [Installers -> 0 .. MaxTime]
    BY <1>10 DEF LastResort, Return, Unlock, Goto, TypeOK, ShapeInv
  <2>13. code' \in [Installers -> Rows \cup {None}]
    BY <1>10 DEF LastResort, Return, Unlock, Goto, TypeOK, ShapeInv, Rows, Tokens, Times, Never
  <2>14. ShapeInv'
    BY <1>10 DEF LastResort, Return, Unlock, Goto, TypeOK, ShapeInv
  <2>15. QED
    BY <2>1, <2>2, <2>3, <2>4, <2>5, <2>6, <2>7, <2>8, <2>9, <2>10, <2>11, <2>12, <2>13, <2>14 DEF TypeOK
<1>11. ASSUME NEW c \in Clients, Commit(c) PROVE (TypeOK /\ ShapeInv)'
  <2>1. clock' \in 0 .. MaxTime /\ issued' \in 0 .. MaxGrants
    BY <1>11 DEF Commit, Return, Unlock, Goto, TypeOK, ShapeInv
  <2>2. ends' \in [Tokens -> Times] /\ from' \in [Tokens -> Tokens \cup {None}]
    BY <1>11 DEF Commit, Return, Unlock, Goto, TypeOK, ShapeInv, Tokens, Times, Never, Rows
  <2>3. live' \subseteq 1 .. issued' /\ refused' \subseteq Tokens /\ lost' \subseteq Tokens
    BY <1>11 DEF Commit, Return, Unlock, Goto, TypeOK, ShapeInv, Rows, Tokens
  <2>4. row' \in Rows \cup {None}
    BY <1>11 DEF Commit, Return, Unlock, Goto, TypeOK, ShapeInv, Rows, Times, Never
  <2>5. lock' \in Clients \cup {None} /\ (lock' # None => pc'[lock'] \in {"ask", "commit", "last"})
    BY <1>11 DEF Commit, Return, Unlock, Goto, TypeOK, ShapeInv
  <2>6. pc' \in [Clients -> {"idle", "read", "begin", "ask", "commit", "last"}]
    BY <1>11 DEF Commit, Return, Unlock, Goto, TypeOK, ShapeInv
  <2>7. now' \in [Clients -> 0 .. MaxTime]
    BY <1>11 DEF Commit, Return, Unlock, Goto, TypeOK, ShapeInv
  <2>8. seen' \in [Clients -> Rows \cup {None}]
    BY <1>11 DEF Commit, Return, Unlock, Goto, TypeOK, ShapeInv
  <2>9. fresh' \in [Clients -> Rows \cup {None}]
    BY <1>11 DEF Commit, Return, Unlock, Goto, TypeOK, ShapeInv, Rows, Tokens, Times, Never
  <2>10. out' \in [Clients -> Tokens \cup {None}]
    BY <1>11 DEF Commit, Return, Unlock, Goto, TypeOK, ShapeInv, Rows
  <2>11. ipc' \in [Installers -> {"idle", "fetch", "upsert"}]
    BY <1>11 DEF Commit, Return, Unlock, Goto, TypeOK, ShapeInv
  <2>12. inow' \in [Installers -> 0 .. MaxTime]
    BY <1>11 DEF Commit, Return, Unlock, Goto, TypeOK, ShapeInv
  <2>13. code' \in [Installers -> Rows \cup {None}]
    BY <1>11 DEF Commit, Return, Unlock, Goto, TypeOK, ShapeInv, Rows, Tokens, Times, Never
  <2>14. ShapeInv'
    BY <1>11 DEF Commit, Return, Unlock, Goto, TypeOK, ShapeInv
  <2>15. QED
    BY <2>1, <2>2, <2>3, <2>4, <2>5, <2>6, <2>7, <2>8, <2>9, <2>10, <2>11, <2>12, <2>13, <2>14 DEF TypeOK
<1>12. ASSUME NEW c \in Clients, Die(c) PROVE (TypeOK /\ ShapeInv)'
  <2>1. clock' \in 0 .. MaxTime /\ issued' \in 0 .. MaxGrants
    BY <1>12 DEF Die, Return, Unlock, Goto, TypeOK, ShapeInv
  <2>2. ends' \in [Tokens -> Times] /\ from' \in [Tokens -> Tokens \cup {None}]
    BY <1>12 DEF Die, Return, Unlock, Goto, TypeOK, ShapeInv, Tokens, Times, Never, Rows
  <2>3. live' \subseteq 1 .. issued' /\ refused' \subseteq Tokens /\ lost' \subseteq Tokens
    BY <1>12 DEF Die, Return, Unlock, Goto, TypeOK, ShapeInv, Rows, Tokens
  <2>4. row' \in Rows \cup {None}
    BY <1>12 DEF Die, Return, Unlock, Goto, TypeOK, ShapeInv, Rows, Times, Never
  <2>5. lock' \in Clients \cup {None} /\ (lock' # None => pc'[lock'] \in {"ask", "commit", "last"})
    BY <1>12 DEF Die, Return, Unlock, Goto, TypeOK, ShapeInv
  <2>6. pc' \in [Clients -> {"idle", "read", "begin", "ask", "commit", "last"}]
    BY <1>12 DEF Die, Return, Unlock, Goto, TypeOK, ShapeInv
  <2>7. now' \in [Clients -> 0 .. MaxTime]
    BY <1>12 DEF Die, Return, Unlock, Goto, TypeOK, ShapeInv
  <2>8. seen' \in [Clients -> Rows \cup {None}]
    BY <1>12 DEF Die, Return, Unlock, Goto, TypeOK, ShapeInv
  <2>9. fresh' \in [Clients -> Rows \cup {None}]
    BY <1>12 DEF Die, Return, Unlock, Goto, TypeOK, ShapeInv, Rows, Tokens, Times, Never
  <2>10. out' \in [Clients -> Tokens \cup {None}]
    BY <1>12 DEF Die, Return, Unlock, Goto, TypeOK, ShapeInv, Rows
  <2>11. ipc' \in [Installers -> {"idle", "fetch", "upsert"}]
    BY <1>12 DEF Die, Return, Unlock, Goto, TypeOK, ShapeInv
  <2>12. inow' \in [Installers -> 0 .. MaxTime]
    BY <1>12 DEF Die, Return, Unlock, Goto, TypeOK, ShapeInv
  <2>13. code' \in [Installers -> Rows \cup {None}]
    BY <1>12 DEF Die, Return, Unlock, Goto, TypeOK, ShapeInv, Rows, Tokens, Times, Never
  <2>14. ShapeInv'
    BY <1>12 DEF Die, Return, Unlock, Goto, TypeOK, ShapeInv
  <2>15. QED
    BY <2>1, <2>2, <2>3, <2>4, <2>5, <2>6, <2>7, <2>8, <2>9, <2>10, <2>11, <2>12, <2>13, <2>14 DEF TypeOK
<1>13. ASSUME NEW i \in Installers, ExchangeCode(i) PROVE (TypeOK /\ ShapeInv)'
  <2>1. PICK answer \in Answers : code' = [code EXCEPT ![i] = answer] /\ Granted(None, answer)
    BY <1>13, GrantFacts DEF ExchangeCode, TypeOK, ShapeInv, Rows
  <2>2. clock' \in 0 .. MaxTime /\ issued' \in 0 .. MaxGrants
    BY <1>13, <2>1 DEF ExchangeCode, InstallerTo, TypeOK, ShapeInv, Granted, Tokens
  <2>3. ends' \in [Tokens -> Times] /\ from' \in [Tokens -> Tokens \cup {None}]
    BY <1>13, <2>1 DEF ExchangeCode, InstallerTo, TypeOK, ShapeInv, Tokens, Granted
  <2>4. live' \subseteq 1 .. issued' /\ refused' \subseteq Tokens /\ lost' \subseteq Tokens
    BY <1>13, <2>1 DEF ExchangeCode, InstallerTo, TypeOK, ShapeInv, Tokens, Granted
  <2>5. row' \in Rows \cup {None}
    BY <1>13, <2>1 DEF ExchangeCode, InstallerTo, TypeOK, ShapeInv, Granted
  <2>6. lock' \in Clients \cup {None} /\ (lock' # None => pc'[lock'] \in {"ask", "commit", "last"})
    BY <1>13, <2>1 DEF ExchangeCode, InstallerTo, TypeOK, ShapeInv, Granted
  <2>7. pc' \in [Clients -> {"idle", "read", "begin", "ask", "commit", "last"}]
    BY <1>13, <2>1 DEF ExchangeCode, InstallerTo, TypeOK, ShapeInv, Granted
  <2>8. now' \in [Clients -> 0 .. MaxTime]
    BY <1>13, <2>1 DEF ExchangeCode, InstallerTo, TypeOK, ShapeInv, Granted
  <2>9. seen' \in [Clients -> Rows \cup {None}]
    BY <1>13, <2>1 DEF ExchangeCode, InstallerTo, TypeOK, ShapeInv, Granted
  <2>10. fresh' \in [Clients -> Rows \cup {None}]
    BY <1>13, <2>1 DEF ExchangeCode, InstallerTo, TypeOK, ShapeInv, Tokens, Granted
  <2>11. out' \in [Clients -> Tokens \cup {None}]
    BY <1>13, <2>1 DEF ExchangeCode, InstallerTo, TypeOK, ShapeInv, Granted
  <2>12. ipc' \in [Installers -> {"idle", "fetch", "upsert"}]
    BY <1>13, <2>1 DEF ExchangeCode, InstallerTo, TypeOK, ShapeInv, Granted
  <2>13. inow' \in [Installers -> 0 .. MaxTime]
    BY <1>13, <2>1 DEF ExchangeCode, InstallerTo, TypeOK, ShapeInv, Granted
  <2>14. code' \in [Installers -> Rows \cup {None}]
    BY <1>13, <2>1 DEF ExchangeCode, InstallerTo, TypeOK, ShapeInv, Tokens, Granted
  <2>15. ShapeInv'
    BY <1>13, <2>1 DEF ExchangeCode, InstallerTo, TypeOK, ShapeInv, Granted
  <2>16. QED
    BY <2>2, <2>3, <2>4, <2>5, <2>6, <2>7, <2>8, <2>9, <2>10, <2>11, <2>12, <2>13, <2>14, <2>15 DEF TypeOK
<1>14. ASSUME NEW i \in Installers, FetchWorkspace(i) PROVE (TypeOK /\ ShapeInv)'
  <2>1. clock' \in 0 .. MaxTime /\ issued' \in 0 .. MaxGrants
    BY <1>14 DEF FetchWorkspace, InstallerTo, TypeOK, ShapeInv
  <2>2. ends' \in [Tokens -> Times] /\ from' \in [Tokens -> Tokens \cup {None}]
    BY <1>14 DEF FetchWorkspace, InstallerTo, TypeOK, ShapeInv, Tokens, Times, Never, Rows
  <2>3. live' \subseteq 1 .. issued' /\ refused' \subseteq Tokens /\ lost' \subseteq Tokens
    BY <1>14 DEF FetchWorkspace, InstallerTo, TypeOK, ShapeInv, Rows, Tokens
  <2>4. row' \in Rows \cup {None}
    BY <1>14 DEF FetchWorkspace, InstallerTo, TypeOK, ShapeInv, Rows, Times, Never
  <2>5. lock' \in Clients \cup {None} /\ (lock' # None => pc'[lock'] \in {"ask", "commit", "last"})
    BY <1>14 DEF FetchWorkspace, InstallerTo, TypeOK, ShapeInv
  <2>6. pc' \in [Clients -> {"idle", "read", "begin", "ask", "commit", "last"}]
    BY <1>14 DEF FetchWorkspace, InstallerTo, TypeOK, ShapeInv
  <2>7. now' \in [Clients -> 0 .. MaxTime]
    BY <1>14 DEF FetchWorkspace, InstallerTo, TypeOK, ShapeInv
  <2>8. seen' \in [Clients -> Rows \cup {None}]
    BY <1>14 DEF FetchWorkspace, InstallerTo, TypeOK, ShapeInv
  <2>9. fresh' \in [Clients -> Rows \cup {None}]
    BY <1>14 DEF FetchWorkspace, InstallerTo, TypeOK, ShapeInv, Rows, Tokens, Times, Never
  <2>10. out' \in [Clients -> Tokens \cup {None}]
    BY <1>14 DEF FetchWorkspace, InstallerTo, TypeOK, ShapeInv, Rows
  <2>11. ipc' \in [Installers -> {"idle", "fetch", "upsert"}]
    BY <1>14 DEF FetchWorkspace, InstallerTo, TypeOK, ShapeInv
  <2>12. inow' \in [Installers -> 0 .. MaxTime]
    BY <1>14 DEF FetchWorkspace, InstallerTo, TypeOK, ShapeInv
  <2>13. code' \in [Installers -> Rows \cup {None}]
    BY <1>14 DEF FetchWorkspace, InstallerTo, TypeOK, ShapeInv, Rows, Tokens, Times, Never
  <2>14. ShapeInv'
    BY <1>14 DEF FetchWorkspace, InstallerTo, TypeOK, ShapeInv
  <2>15. QED
    BY <2>1, <2>2, <2>3, <2>4, <2>5, <2>6, <2>7, <2>8, <2>9, <2>10, <2>11, <2>12, <2>13, <2>14 DEF TypeOK
<1>15. ASSUME NEW i \in Installers, Upsert(i) PROVE (TypeOK /\ ShapeInv)'
  <2>1. clock' \in 0 .. MaxTime /\ issued' \in 0 .. MaxGrants
    BY <1>15 DEF Upsert, InstallerTo, TypeOK, ShapeInv
  <2>2. ends' \in [Tokens -> Times] /\ from' \in [Tokens -> Tokens \cup {None}]
    BY <1>15 DEF Upsert, InstallerTo, TypeOK, ShapeInv, Tokens, Times, Never, Rows
  <2>3. live' \subseteq 1 .. issued' /\ refused' \subseteq Tokens /\ lost' \subseteq Tokens
    BY <1>15 DEF Upsert, InstallerTo, TypeOK, ShapeInv, Rows, Tokens
  <2>4. row' \in Rows \cup {None}
    BY <1>15 DEF Upsert, InstallerTo, TypeOK, ShapeInv, Rows, Times, Never
  <2>5. lock' \in Clients \cup {None} /\ (lock' # None => pc'[lock'] \in {"ask", "commit", "last"})
    BY <1>15 DEF Upsert, InstallerTo, TypeOK, ShapeInv
  <2>6. pc' \in [Clients -> {"idle", "read", "begin", "ask", "commit", "last"}]
    BY <1>15 DEF Upsert, InstallerTo, TypeOK, ShapeInv
  <2>7. now' \in [Clients -> 0 .. MaxTime]
    BY <1>15 DEF Upsert, InstallerTo, TypeOK, ShapeInv
  <2>8. seen' \in [Clients -> Rows \cup {None}]
    BY <1>15 DEF Upsert, InstallerTo, TypeOK, ShapeInv
  <2>9. fresh' \in [Clients -> Rows \cup {None}]
    BY <1>15 DEF Upsert, InstallerTo, TypeOK, ShapeInv, Rows, Tokens, Times, Never
  <2>10. out' \in [Clients -> Tokens \cup {None}]
    BY <1>15 DEF Upsert, InstallerTo, TypeOK, ShapeInv, Rows
  <2>11. ipc' \in [Installers -> {"idle", "fetch", "upsert"}]
    BY <1>15 DEF Upsert, InstallerTo, TypeOK, ShapeInv
  <2>12. inow' \in [Installers -> 0 .. MaxTime]
    BY <1>15 DEF Upsert, InstallerTo, TypeOK, ShapeInv
  <2>13. code' \in [Installers -> Rows \cup {None}]
    BY <1>15 DEF Upsert, InstallerTo, TypeOK, ShapeInv, Rows, Tokens, Times, Never
  <2>14. ShapeInv'
    BY <1>15 DEF Upsert, InstallerTo, TypeOK, ShapeInv
  <2>15. QED
    BY <2>1, <2>2, <2>3, <2>4, <2>5, <2>6, <2>7, <2>8, <2>9, <2>10, <2>11, <2>12, <2>13, <2>14 DEF TypeOK
<1>16. CASE UNCHANGED vars
  BY <1>16 DEF vars, TypeOK, ShapeInv, Rows, Tokens, Times, Never
<1>17. QED
  BY <1>1, <1>2, <1>3, <1>4, <1>5, <1>6, <1>7, <1>8, <1>9, <1>10, <1>11, <1>12, <1>13, <1>14, <1>15, <1>16 DEF Next, GetToken

LEMMA LockStep == TypeOK /\ ShapeInv /\ LockInv /\ [Next]_vars => LockInv'
<1> SUFFICES ASSUME TypeOK /\ ShapeInv /\ LockInv, [Next]_vars PROVE LockInv'
  OBVIOUS
<1>1. ASSUME Tick PROVE LockInv'
  BY <1>1 DEF Tick, LockInv, ShapeInv, TypeOK
<1>2. ASSUME Delete PROVE LockInv'
  BY <1>2 DEF Delete, LockInv, ShapeInv, TypeOK
<1>3. ASSUME NEW c \in Clients, Call(c) PROVE LockInv'
  BY <1>3 DEF Call, Goto, LockInv, ShapeInv, TypeOK
<1>4. ASSUME NEW c \in Clients, Read(c) PROVE LockInv'
  BY <1>4 DEF Read, Return, Due, Goto, LockInv, ShapeInv, TypeOK
<1>5. ASSUME NEW c \in Clients, Begin(c) PROVE LockInv'
  BY <1>5 DEF Begin, Return, Due, Goto, LockInv, ShapeInv, TypeOK
<1>6. ASSUME NEW c \in Clients, Busy(c) PROVE LockInv'
  BY <1>6 DEF Busy, Return, Goto, LockInv, ShapeInv, TypeOK
<1>7. ASSUME NEW c \in Clients, Refreshed(c) PROVE LockInv'
  BY <1>7 DEF Refreshed, Answers, Grant, Goto, LockInv, ShapeInv, TypeOK
<1>8. ASSUME NEW c \in Clients, AnswerLost(c) PROVE LockInv'
  BY <1>8 DEF AnswerLost, Answers, Grant, Goto, LockInv, ShapeInv, TypeOK
<1>9. ASSUME NEW c \in Clients, RefreshFails(c) PROVE LockInv'
  BY <1>9 DEF RefreshFails, Goto, LockInv, ShapeInv, TypeOK
<1>10. ASSUME NEW c \in Clients, LastResort(c) PROVE LockInv'
  BY <1>10 DEF LastResort, Return, Unlock, Goto, LockInv, ShapeInv, TypeOK
<1>11. ASSUME NEW c \in Clients, Commit(c) PROVE LockInv'
  BY <1>11 DEF Commit, Return, Unlock, Goto, LockInv, ShapeInv, TypeOK
<1>12. ASSUME NEW c \in Clients, Die(c) PROVE LockInv'
  BY <1>12 DEF Die, Return, Unlock, Goto, LockInv, ShapeInv, TypeOK
<1>13. ASSUME NEW i \in Installers, ExchangeCode(i) PROVE LockInv'
  BY <1>13 DEF ExchangeCode, InstallerTo, Answers, Grant, LockInv, ShapeInv, TypeOK
<1>14. ASSUME NEW i \in Installers, FetchWorkspace(i) PROVE LockInv'
  BY <1>14 DEF FetchWorkspace, InstallerTo, LockInv, ShapeInv, TypeOK
<1>15. ASSUME NEW i \in Installers, Upsert(i) PROVE LockInv'
  BY <1>15 DEF Upsert, InstallerTo, LockInv, ShapeInv, TypeOK
<1>16. CASE UNCHANGED vars
  BY <1>16 DEF vars, LockInv, ShapeInv, TypeOK
<1>17. QED
  BY <1>1, <1>2, <1>3, <1>4, <1>5, <1>6, <1>7, <1>8, <1>9, <1>10, <1>11, <1>12, <1>13, <1>14, <1>15, <1>16 DEF Next, GetToken

LEMMA TokenStep == TypeOK /\ ShapeInv /\ LockInv /\ TokenInv /\ [Next]_vars => TokenInv'
<1> SUFFICES ASSUME TypeOK /\ ShapeInv /\ LockInv /\ TokenInv, [Next]_vars PROVE TokenInv'
  OBVIOUS
<1>1. ASSUME Tick PROVE TokenInv'
  BY <1>1 DEF Tick, TokenInv, StoredInv, AnswerInv, CodeGood, CodeOwn, Good, Spent, LockInv, ShapeInv, TypeOK, Rows, Tokens
<1>2. ASSUME Delete PROVE TokenInv'
  <2>1. StoredInv'
    BY <1>2 DEF Delete, TokenInv, StoredInv, AnswerInv, CodeGood, Good, Spent, LockInv, ShapeInv, TypeOK
  <2>2. AnswerInv'
    BY <1>2 DEF Delete, TokenInv, AnswerInv, Good, Spent, LockInv, ShapeInv, TypeOK
  <2>3. CodeGood'
    BY <1>2 DEF Delete, TokenInv, CodeGood, CodeOwn, Good, LockInv, ShapeInv, TypeOK
  <2>4. CodeOwn'
    BY <1>2 DEF Delete, TokenInv, StoredInv, AnswerInv, CodeGood, CodeOwn, Good, Spent, LockInv, ShapeInv, TypeOK
  <2>5. QED
    BY <2>1, <2>2, <2>3, <2>4 DEF TokenInv
<1>3. ASSUME NEW c \in Clients, Call(c) PROVE TokenInv'
  <2>1. StoredInv'
    BY <1>3 DEF Call, Goto, TokenInv, StoredInv, AnswerInv, CodeGood, Good, Spent, LockInv, ShapeInv, TypeOK
  <2>2. AnswerInv'
    BY <1>3 DEF Call, Goto, TokenInv, AnswerInv, Good, Spent, LockInv, ShapeInv, TypeOK
  <2>3. CodeGood'
    BY <1>3 DEF Call, Goto, TokenInv, CodeGood, CodeOwn, Good, LockInv, ShapeInv, TypeOK
  <2>4. CodeOwn'
    BY <1>3 DEF Call, Goto, TokenInv, StoredInv, AnswerInv, CodeGood, CodeOwn, Good, Spent, LockInv, ShapeInv, TypeOK
  <2>5. QED
    BY <2>1, <2>2, <2>3, <2>4 DEF TokenInv
<1>4. ASSUME NEW c \in Clients, Read(c) PROVE TokenInv'
  <2>1. StoredInv'
    BY <1>4 DEF Read, Return, Due, Goto, TokenInv, StoredInv, AnswerInv, CodeGood, Good, Spent, LockInv, ShapeInv, TypeOK
  <2>2. AnswerInv'
    BY <1>4 DEF Read, Return, Due, Goto, TokenInv, AnswerInv, Good, Spent, LockInv, ShapeInv, TypeOK
  <2>3. CodeGood'
    BY <1>4 DEF Read, Return, Due, Goto, TokenInv, CodeGood, CodeOwn, Good, LockInv, ShapeInv, TypeOK
  <2>4. CodeOwn'
    BY <1>4 DEF Read, Return, Due, Goto, TokenInv, StoredInv, AnswerInv, CodeGood, CodeOwn, Good, Spent, LockInv, ShapeInv, TypeOK
  <2>5. QED
    BY <2>1, <2>2, <2>3, <2>4 DEF TokenInv
<1>5. ASSUME NEW c \in Clients, Begin(c) PROVE TokenInv'
  <2>1. StoredInv'
    BY <1>5 DEF Begin, Return, Due, Goto, TokenInv, StoredInv, AnswerInv, CodeGood, Good, Spent, LockInv, ShapeInv, TypeOK
  <2>2. AnswerInv'
    BY <1>5 DEF Begin, Return, Due, Goto, TokenInv, AnswerInv, Good, Spent, LockInv, ShapeInv, TypeOK
  <2>3. CodeGood'
    BY <1>5 DEF Begin, Return, Due, Goto, TokenInv, CodeGood, CodeOwn, Good, LockInv, ShapeInv, TypeOK
  <2>4. CodeOwn'
    BY <1>5 DEF Begin, Return, Due, Goto, TokenInv, StoredInv, AnswerInv, CodeGood, CodeOwn, Good, Spent, LockInv, ShapeInv, TypeOK
  <2>5. QED
    BY <2>1, <2>2, <2>3, <2>4 DEF TokenInv
<1>6. ASSUME NEW c \in Clients, Busy(c) PROVE TokenInv'
  <2>1. StoredInv'
    BY <1>6 DEF Busy, Return, Goto, TokenInv, StoredInv, AnswerInv, CodeGood, Good, Spent, LockInv, ShapeInv, TypeOK
  <2>2. AnswerInv'
    BY <1>6 DEF Busy, Return, Goto, TokenInv, AnswerInv, Good, Spent, LockInv, ShapeInv, TypeOK
  <2>3. CodeGood'
    BY <1>6 DEF Busy, Return, Goto, TokenInv, CodeGood, CodeOwn, Good, LockInv, ShapeInv, TypeOK
  <2>4. CodeOwn'
    BY <1>6 DEF Busy, Return, Goto, TokenInv, StoredInv, AnswerInv, CodeGood, CodeOwn, Good, Spent, LockInv, ShapeInv, TypeOK
  <2>5. QED
    BY <2>1, <2>2, <2>3, <2>4 DEF TokenInv
<1>7. ASSUME NEW c \in Clients, Refreshed(c) PROVE TokenInv'
  <2>1. PICK answer \in Answers : fresh' = [fresh EXCEPT ![c] = answer] /\ Granted(seen[c].refresh, answer)
    BY <1>7, GrantFacts DEF Refreshed, TypeOK, ShapeInv, Rows
  <2>2. StoredInv'
    BY <1>7, <2>1 DEF Refreshed, Goto, TokenInv, StoredInv, AnswerInv, CodeGood, Good, Spent, LockInv, ShapeInv, TypeOK, Granted
  <2>3. AnswerInv'
    BY <1>7, <2>1 DEF Refreshed, Goto, TokenInv, AnswerInv, Good, Spent, LockInv, ShapeInv, TypeOK, Granted
  <2>4. CodeGood'
    BY <1>7, <2>1 DEF Refreshed, Goto, TokenInv, CodeGood, CodeOwn, Good, LockInv, ShapeInv, TypeOK, Granted
  <2>5. CodeOwn'
    BY <1>7, <2>1 DEF Refreshed, Goto, TokenInv, StoredInv, AnswerInv, CodeGood, CodeOwn, Good, Spent, LockInv, ShapeInv, TypeOK, Granted
  <2>6. QED
    BY <2>2, <2>3, <2>4, <2>5 DEF TokenInv
<1>8. ASSUME NEW c \in Clients, AnswerLost(c) PROVE TokenInv'
  <2>1. PICK answer \in Answers : TRUE /\ Granted(seen[c].refresh, answer)
    BY <1>8, GrantFacts DEF AnswerLost, TypeOK, ShapeInv, Rows
  <2>2. StoredInv'
    BY <1>8, <2>1 DEF AnswerLost, Goto, TokenInv, StoredInv, AnswerInv, CodeGood, Good, Spent, LockInv, ShapeInv, TypeOK, Granted
  <2>3. AnswerInv'
    BY <1>8, <2>1 DEF AnswerLost, Goto, TokenInv, AnswerInv, Good, Spent, LockInv, ShapeInv, TypeOK, Granted
  <2>4. CodeGood'
    BY <1>8, <2>1 DEF AnswerLost, Goto, TokenInv, CodeGood, CodeOwn, Good, LockInv, ShapeInv, TypeOK, Granted
  <2>5. CodeOwn'
    BY <1>8, <2>1 DEF AnswerLost, Goto, TokenInv, StoredInv, AnswerInv, CodeGood, CodeOwn, Good, Spent, LockInv, ShapeInv, TypeOK, Granted
  <2>6. QED
    BY <2>2, <2>3, <2>4, <2>5 DEF TokenInv
<1>9. ASSUME NEW c \in Clients, RefreshFails(c) PROVE TokenInv'
  <2>1. StoredInv'
    BY <1>9 DEF RefreshFails, Goto, TokenInv, StoredInv, AnswerInv, CodeGood, Good, Spent, LockInv, ShapeInv, TypeOK
  <2>2. AnswerInv'
    BY <1>9 DEF RefreshFails, Goto, TokenInv, AnswerInv, Good, Spent, LockInv, ShapeInv, TypeOK
  <2>3. CodeGood'
    BY <1>9 DEF RefreshFails, Goto, TokenInv, CodeGood, CodeOwn, Good, LockInv, ShapeInv, TypeOK
  <2>4. CodeOwn'
    BY <1>9 DEF RefreshFails, Goto, TokenInv, StoredInv, AnswerInv, CodeGood, CodeOwn, Good, Spent, LockInv, ShapeInv, TypeOK
  <2>5. QED
    BY <2>1, <2>2, <2>3, <2>4 DEF TokenInv
<1>10. ASSUME NEW c \in Clients, LastResort(c) PROVE TokenInv'
  <2>1. StoredInv'
    BY <1>10 DEF LastResort, Return, Unlock, Goto, TokenInv, StoredInv, AnswerInv, CodeGood, Good, Spent, LockInv, ShapeInv, TypeOK
  <2>2. AnswerInv'
    BY <1>10 DEF LastResort, Return, Unlock, Goto, TokenInv, AnswerInv, Good, Spent, LockInv, ShapeInv, TypeOK
  <2>3. CodeGood'
    BY <1>10 DEF LastResort, Return, Unlock, Goto, TokenInv, CodeGood, CodeOwn, Good, LockInv, ShapeInv, TypeOK
  <2>4. CodeOwn'
    BY <1>10 DEF LastResort, Return, Unlock, Goto, TokenInv, StoredInv, AnswerInv, CodeGood, CodeOwn, Good, Spent, LockInv, ShapeInv, TypeOK
  <2>5. QED
    BY <2>1, <2>2, <2>3, <2>4 DEF TokenInv
<1>11. ASSUME NEW c \in Clients, Commit(c) PROVE TokenInv'
  <2>1. StoredInv'
    BY <1>11 DEF Commit, Return, Unlock, Goto, TokenInv, StoredInv, AnswerInv, CodeGood, Good, Spent, LockInv, ShapeInv, TypeOK, Rows, Times, Never
  <2>2. AnswerInv'
    BY <1>11 DEF Commit, Return, Unlock, Goto, TokenInv, AnswerInv, Good, Spent, LockInv, ShapeInv, TypeOK
  <2>3. CodeGood'
    BY <1>11 DEF Commit, Return, Unlock, Goto, TokenInv, CodeGood, CodeOwn, Good, LockInv, ShapeInv, TypeOK
  <2>4. CodeOwn'
    BY <1>11 DEF Commit, Return, Unlock, Goto, TokenInv, StoredInv, AnswerInv, CodeGood, CodeOwn, Good, Spent, LockInv, ShapeInv, TypeOK
  <2>5. QED
    BY <2>1, <2>2, <2>3, <2>4 DEF TokenInv
<1>12. ASSUME NEW c \in Clients, Die(c) PROVE TokenInv'
  <2>1. StoredInv'
    BY <1>12 DEF Die, Return, Unlock, Goto, TokenInv, StoredInv, AnswerInv, CodeGood, Good, Spent, LockInv, ShapeInv, TypeOK
  <2>2. AnswerInv'
    BY <1>12 DEF Die, Return, Unlock, Goto, TokenInv, AnswerInv, Good, Spent, LockInv, ShapeInv, TypeOK
  <2>3. CodeGood'
    BY <1>12 DEF Die, Return, Unlock, Goto, TokenInv, CodeGood, CodeOwn, Good, LockInv, ShapeInv, TypeOK
  <2>4. CodeOwn'
    BY <1>12 DEF Die, Return, Unlock, Goto, TokenInv, StoredInv, AnswerInv, CodeGood, CodeOwn, Good, Spent, LockInv, ShapeInv, TypeOK
  <2>5. QED
    BY <2>1, <2>2, <2>3, <2>4 DEF TokenInv
<1>13. ASSUME NEW i \in Installers, ExchangeCode(i) PROVE TokenInv'
  <2>1. PICK answer \in Answers : code' = [code EXCEPT ![i] = answer] /\ Granted(None, answer)
    BY <1>13, GrantFacts DEF ExchangeCode, TypeOK, ShapeInv, Rows
  <2>2. StoredInv'
    BY <1>13, <2>1 DEF ExchangeCode, InstallerTo, TokenInv, StoredInv, AnswerInv, CodeGood, Good, Spent, LockInv, ShapeInv, TypeOK, Granted
  <2>3. AnswerInv'
    BY <1>13, <2>1 DEF ExchangeCode, InstallerTo, TokenInv, AnswerInv, Good, Spent, LockInv, ShapeInv, TypeOK, Granted
  <2>4. CodeGood'
    BY <1>13, <2>1 DEF ExchangeCode, InstallerTo, TokenInv, CodeGood, CodeOwn, Good, LockInv, ShapeInv, TypeOK, Granted
  <2>5. CodeOwn'
    BY <1>13, <2>1 DEF ExchangeCode, InstallerTo, TokenInv, StoredInv, AnswerInv, CodeGood, CodeOwn, Good, Spent, LockInv, ShapeInv, TypeOK, Granted
  <2>6. QED
    BY <2>2, <2>3, <2>4, <2>5 DEF TokenInv
<1>14. ASSUME NEW i \in Installers, FetchWorkspace(i) PROVE TokenInv'
  <2>1. StoredInv'
    BY <1>14 DEF FetchWorkspace, InstallerTo, TokenInv, StoredInv, AnswerInv, CodeGood, Good, Spent, LockInv, ShapeInv, TypeOK
  <2>2. AnswerInv'
    BY <1>14 DEF FetchWorkspace, InstallerTo, TokenInv, AnswerInv, Good, Spent, LockInv, ShapeInv, TypeOK
  <2>3. CodeGood'
    BY <1>14 DEF FetchWorkspace, InstallerTo, TokenInv, CodeGood, CodeOwn, Good, LockInv, ShapeInv, TypeOK
  <2>4. CodeOwn'
    BY <1>14 DEF FetchWorkspace, InstallerTo, TokenInv, StoredInv, AnswerInv, CodeGood, CodeOwn, Good, Spent, LockInv, ShapeInv, TypeOK
  <2>5. QED
    BY <2>1, <2>2, <2>3, <2>4 DEF TokenInv
<1>15. ASSUME NEW i \in Installers, Upsert(i) PROVE TokenInv'
  <2>1. StoredInv'
    BY <1>15 DEF Upsert, InstallerTo, TokenInv, StoredInv, AnswerInv, CodeGood, Good, Spent, LockInv, ShapeInv, TypeOK, Rows, Times, Never
  <2>2. AnswerInv'
    BY <1>15 DEF Upsert, InstallerTo, TokenInv, AnswerInv, Good, Spent, LockInv, ShapeInv, TypeOK
  <2>3. CodeGood'
    BY <1>15 DEF Upsert, InstallerTo, TokenInv, CodeGood, CodeOwn, Good, LockInv, ShapeInv, TypeOK
  <2>4. CodeOwn'
    <3>1. CASE lock # None
      BY <1>15, <3>1 DEF Upsert, InstallerTo, TokenInv, CodeOwn, Spent, TypeOK
    <3>2. CASE lock = None
      <4>1. code[i] # None /\ code[i] \in Rows
        BY <1>15 DEF Upsert, InstallerTo, ShapeInv, TypeOK
      <4>2. row' # None => row'.refresh = code[i].refresh
        BY <1>15, <3>2, <4>1, RowFields DEF Upsert, Rows
      <4>3. code' = [code EXCEPT ![i] = None]
        BY <1>15 DEF Upsert
      <4>4. UNCHANGED <<pc, fresh>>
        BY <1>15 DEF Upsert
      <4>5. ASSUME NEW j \in Installers, code'[j] # None, code'[j].refresh # None
            PROVE  row' # None => code'[j].refresh # row'.refresh
        BY <4>1, <4>2, <4>3, <4>5 DEF TokenInv, CodeOwn, TypeOK
      <4>6. QED
        BY <4>3, <4>4, <4>5 DEF TokenInv, CodeOwn, Spent, TypeOK
    <3>3. QED
      BY <3>1, <3>2
  <2>5. QED
    BY <2>1, <2>2, <2>3, <2>4 DEF TokenInv
<1>16. CASE UNCHANGED vars
  BY <1>16 DEF vars, TokenInv, StoredInv, AnswerInv, CodeGood, CodeOwn, Good, Spent, LockInv, ShapeInv, TypeOK, Rows, Tokens
<1>17. QED
  BY <1>1, <1>2, <1>3, <1>4, <1>5, <1>6, <1>7, <1>8, <1>9, <1>10, <1>11, <1>12, <1>13, <1>14, <1>15, <1>16 DEF Next, GetToken

LEMMA FromStep == TypeOK /\ ShapeInv /\ LockInv /\ FromInv /\ [Next]_vars => FromInv'
<1> SUFFICES ASSUME TypeOK /\ ShapeInv /\ LockInv /\ FromInv, [Next]_vars PROVE FromInv'
  OBVIOUS
<1>1. ASSUME Tick PROVE FromInv'
  BY <1>1 DEF Tick, FromInv, Spent, LockInv, ShapeInv, TypeOK, Rows, Tokens
<1>2. ASSUME Delete PROVE FromInv'
  BY <1>2 DEF Delete, FromInv, Spent, LockInv, ShapeInv, TypeOK, Rows, Tokens
<1>3. ASSUME NEW c \in Clients, Call(c) PROVE FromInv'
  BY <1>3 DEF Call, Goto, FromInv, Spent, LockInv, ShapeInv, TypeOK, Rows, Tokens
<1>4. ASSUME NEW c \in Clients, Read(c) PROVE FromInv'
  BY <1>4 DEF Read, Return, Goto, FromInv, Spent, TypeOK
<1>5. ASSUME NEW c \in Clients, Begin(c) PROVE FromInv'
  <2>1. issued' = issued /\ from' = from /\ code' = code
    BY <1>5 DEF Begin, linear, callback
  <2>2. \A o \in Clients : Spent(o)' => Spent(o) /\ fresh'[o] = fresh[o] /\ seen'[o] = seen[o]
    BY <1>5 DEF Begin, Return, Goto, Spent, TypeOK
  <2>3. QED
    BY <2>1, <2>2 DEF FromInv
<1>6. ASSUME NEW c \in Clients, Busy(c) PROVE FromInv'
  BY <1>6 DEF Busy, Return, Goto, FromInv, Spent, LockInv, ShapeInv, TypeOK, Rows, Tokens
<1>7. ASSUME NEW c \in Clients, Refreshed(c) PROVE FromInv'
  BY <1>7 DEF Refreshed, Answers, Grant, Goto, FromInv, Spent, LockInv, ShapeInv, TypeOK, Rows, Tokens
<1>8. ASSUME NEW c \in Clients, AnswerLost(c) PROVE FromInv'
  BY <1>8 DEF AnswerLost, Answers, Grant, Goto, FromInv, Spent, LockInv, ShapeInv, TypeOK, Rows, Tokens
<1>9. ASSUME NEW c \in Clients, RefreshFails(c) PROVE FromInv'
  BY <1>9 DEF RefreshFails, Goto, FromInv, Spent, LockInv, ShapeInv, TypeOK, Rows, Tokens
<1>10. ASSUME NEW c \in Clients, LastResort(c) PROVE FromInv'
  BY <1>10 DEF LastResort, Return, Unlock, Goto, FromInv, Spent, LockInv, ShapeInv, TypeOK, Rows, Tokens
<1>11. ASSUME NEW c \in Clients, Commit(c) PROVE FromInv'
  BY <1>11 DEF Commit, Return, Unlock, Goto, FromInv, Spent, LockInv, ShapeInv, TypeOK, Rows, Tokens
<1>12. ASSUME NEW c \in Clients, Die(c) PROVE FromInv'
  BY <1>12 DEF Die, Return, Unlock, Goto, FromInv, Spent, LockInv, ShapeInv, TypeOK, Rows, Tokens
<1>13. ASSUME NEW i \in Installers, ExchangeCode(i) PROVE FromInv'
  BY <1>13 DEF ExchangeCode, InstallerTo, Answers, Grant, FromInv, Spent, LockInv, ShapeInv, TypeOK, Rows, Tokens
<1>14. ASSUME NEW i \in Installers, FetchWorkspace(i) PROVE FromInv'
  BY <1>14 DEF FetchWorkspace, InstallerTo, FromInv, Spent, LockInv, ShapeInv, TypeOK, Rows, Tokens
<1>15. ASSUME NEW i \in Installers, Upsert(i) PROVE FromInv'
  BY <1>15 DEF Upsert, InstallerTo, FromInv, Spent, LockInv, ShapeInv, TypeOK, Rows, Tokens
<1>16. CASE UNCHANGED vars
  BY <1>16 DEF vars, FromInv, Spent, LockInv, ShapeInv, TypeOK, Rows, Tokens
<1>17. QED
  BY <1>1, <1>2, <1>3, <1>4, <1>5, <1>6, <1>7, <1>8, <1>9, <1>10, <1>11, <1>12, <1>13, <1>14, <1>15, <1>16 DEF Next, GetToken

LEMMA TimeStep == TypeOK /\ ShapeInv /\ LockInv /\ TimeInv /\ [Next]_vars => TimeInv'
<1> SUFFICES ASSUME TypeOK /\ ShapeInv /\ LockInv /\ TimeInv, [Next]_vars PROVE TimeInv'
  OBVIOUS
<1>1. ASSUME Tick PROVE TimeInv'
  <2>1. CallTime'
    BY <1>1 DEF Tick, TimeInv, CallTime, Ends, ShapeInv, TypeOK
  <2>2. CodeTime'
    BY <1>1 DEF Tick, TimeInv, CodeTime, Ends, ShapeInv, TypeOK
  <2>3. RowTime'
    BY <1>1 DEF Tick, TimeInv, CallTime, CodeTime, RowTime, Ends, LockInv, ShapeInv, TypeOK
  <2>4. QED
    BY <2>1, <2>2, <2>3 DEF TimeInv
<1>2. ASSUME Delete PROVE TimeInv'
  BY <1>2 DEF Delete, TimeInv, CallTime, CodeTime, RowTime, Ends, LockInv, ShapeInv, TypeOK, Rows, Tokens, Times, Never
<1>3. ASSUME NEW c \in Clients, Call(c) PROVE TimeInv'
  <2>1. CallTime'
    BY <1>3 DEF Call, Goto, TimeInv, CallTime, Ends, ShapeInv, TypeOK
  <2>2. CodeTime'
    BY <1>3 DEF Call, Goto, TimeInv, CodeTime, Ends, ShapeInv, TypeOK
  <2>3. RowTime'
    BY <1>3 DEF Call, Goto, TimeInv, CallTime, CodeTime, RowTime, Ends, LockInv, ShapeInv, TypeOK
  <2>4. QED
    BY <2>1, <2>2, <2>3 DEF TimeInv
<1>4. ASSUME NEW c \in Clients, Read(c) PROVE TimeInv'
  <2>1. CallTime'
    BY <1>4 DEF Read, Return, Due, Goto, TimeInv, CallTime, Ends, ShapeInv, TypeOK
  <2>2. CodeTime'
    BY <1>4 DEF Read, Return, Due, Goto, TimeInv, CodeTime, Ends, ShapeInv, TypeOK
  <2>3. RowTime'
    BY <1>4 DEF Read, Return, Due, Goto, TimeInv, CallTime, CodeTime, RowTime, Ends, LockInv, ShapeInv, TypeOK
  <2>4. QED
    BY <2>1, <2>2, <2>3 DEF TimeInv
<1>5. ASSUME NEW c \in Clients, Begin(c) PROVE TimeInv'
  <2>1. CallTime'
    BY <1>5 DEF Begin, Return, Due, Goto, TimeInv, CallTime, Ends, ShapeInv, TypeOK
  <2>2. CodeTime'
    BY <1>5 DEF Begin, Return, Due, Goto, TimeInv, CodeTime, Ends, ShapeInv, TypeOK
  <2>3. RowTime'
    BY <1>5 DEF Begin, Return, Due, Goto, TimeInv, CallTime, CodeTime, RowTime, Ends, LockInv, ShapeInv, TypeOK
  <2>4. QED
    BY <2>1, <2>2, <2>3 DEF TimeInv
<1>6. ASSUME NEW c \in Clients, Busy(c) PROVE TimeInv'
  <2>1. CallTime'
    BY <1>6 DEF Busy, Return, Goto, TimeInv, CallTime, Ends, ShapeInv, TypeOK
  <2>2. CodeTime'
    BY <1>6 DEF Busy, Return, Goto, TimeInv, CodeTime, Ends, ShapeInv, TypeOK
  <2>3. RowTime'
    BY <1>6 DEF Busy, Return, Goto, TimeInv, CallTime, CodeTime, RowTime, Ends, LockInv, ShapeInv, TypeOK
  <2>4. QED
    BY <2>1, <2>2, <2>3 DEF TimeInv
<1>7. ASSUME NEW c \in Clients, Refreshed(c) PROVE TimeInv'
  <2>1. PICK answer \in Answers : fresh' = [fresh EXCEPT ![c] = answer] /\ Granted(seen[c].refresh, answer)
    BY <1>7, GrantFacts DEF Refreshed, TypeOK, ShapeInv, Rows
  <2>2. CallTime'
    BY <1>7, <2>1 DEF Refreshed, Goto, TimeInv, CallTime, Ends, ShapeInv, TypeOK, Granted
  <2>3. CodeTime'
    BY <1>7, <2>1 DEF Refreshed, Goto, TimeInv, CodeTime, Ends, ShapeInv, TypeOK, Granted
  <2>4. RowTime'
    BY <1>7, <2>1 DEF Refreshed, Goto, TimeInv, CallTime, CodeTime, RowTime, Ends, LockInv, ShapeInv, TypeOK, Granted
  <2>5. QED
    BY <2>2, <2>3, <2>4 DEF TimeInv
<1>8. ASSUME NEW c \in Clients, AnswerLost(c) PROVE TimeInv'
  <2>1. PICK answer \in Answers : TRUE /\ Granted(seen[c].refresh, answer)
    BY <1>8, GrantFacts DEF AnswerLost, TypeOK, ShapeInv, Rows
  <2>2. CallTime'
    BY <1>8, <2>1 DEF AnswerLost, Goto, TimeInv, CallTime, Ends, ShapeInv, TypeOK, Granted
  <2>3. CodeTime'
    BY <1>8, <2>1 DEF AnswerLost, Goto, TimeInv, CodeTime, Ends, ShapeInv, TypeOK, Granted
  <2>4. RowTime'
    BY <1>8, <2>1 DEF AnswerLost, Goto, TimeInv, CallTime, CodeTime, RowTime, Ends, LockInv, ShapeInv, TypeOK, Granted
  <2>5. QED
    BY <2>2, <2>3, <2>4 DEF TimeInv
<1>9. ASSUME NEW c \in Clients, RefreshFails(c) PROVE TimeInv'
  <2>1. CallTime'
    BY <1>9 DEF RefreshFails, Goto, TimeInv, CallTime, Ends, ShapeInv, TypeOK
  <2>2. CodeTime'
    BY <1>9 DEF RefreshFails, Goto, TimeInv, CodeTime, Ends, ShapeInv, TypeOK
  <2>3. RowTime'
    BY <1>9 DEF RefreshFails, Goto, TimeInv, CallTime, CodeTime, RowTime, Ends, LockInv, ShapeInv, TypeOK
  <2>4. QED
    BY <2>1, <2>2, <2>3 DEF TimeInv
<1>10. ASSUME NEW c \in Clients, LastResort(c) PROVE TimeInv'
  <2>1. CallTime'
    BY <1>10 DEF LastResort, Return, Unlock, Goto, TimeInv, CallTime, Ends, ShapeInv, TypeOK
  <2>2. CodeTime'
    BY <1>10 DEF LastResort, Return, Unlock, Goto, TimeInv, CodeTime, Ends, ShapeInv, TypeOK
  <2>3. RowTime'
    BY <1>10 DEF LastResort, Return, Unlock, Goto, TimeInv, CallTime, CodeTime, RowTime, Ends, LockInv, ShapeInv, TypeOK
  <2>4. QED
    BY <2>1, <2>2, <2>3 DEF TimeInv
<1>11. ASSUME NEW c \in Clients, Commit(c) PROVE TimeInv'
  <2>1. CallTime'
    BY <1>11 DEF Commit, Return, Unlock, Goto, TimeInv, CallTime, Ends, ShapeInv, TypeOK
  <2>2. CodeTime'
    BY <1>11 DEF Commit, Return, Unlock, Goto, TimeInv, CodeTime, Ends, ShapeInv, TypeOK
  <2>3. RowTime'
    BY <1>11 DEF Commit, Return, Unlock, Goto, TimeInv, CallTime, CodeTime, RowTime, Ends, LockInv, ShapeInv, TypeOK, Rows, Times, Never
  <2>4. QED
    BY <2>1, <2>2, <2>3 DEF TimeInv
<1>12. ASSUME NEW c \in Clients, Die(c) PROVE TimeInv'
  <2>1. CallTime'
    BY <1>12 DEF Die, Return, Unlock, Goto, TimeInv, CallTime, Ends, ShapeInv, TypeOK
  <2>2. CodeTime'
    BY <1>12 DEF Die, Return, Unlock, Goto, TimeInv, CodeTime, Ends, ShapeInv, TypeOK
  <2>3. RowTime'
    BY <1>12 DEF Die, Return, Unlock, Goto, TimeInv, CallTime, CodeTime, RowTime, Ends, LockInv, ShapeInv, TypeOK
  <2>4. QED
    BY <2>1, <2>2, <2>3 DEF TimeInv
<1>13. ASSUME NEW i \in Installers, ExchangeCode(i) PROVE TimeInv'
  <2>1. PICK answer \in Answers : code' = [code EXCEPT ![i] = answer] /\ Granted(None, answer)
    BY <1>13, GrantFacts DEF ExchangeCode, TypeOK, ShapeInv, Rows
  <2>2. CallTime'
    BY <1>13, <2>1 DEF ExchangeCode, InstallerTo, TimeInv, CallTime, Ends, ShapeInv, TypeOK, Granted
  <2>3. CodeTime'
    BY <1>13, <2>1 DEF ExchangeCode, InstallerTo, TimeInv, CodeTime, Ends, ShapeInv, TypeOK, Granted
  <2>4. RowTime'
    BY <1>13, <2>1 DEF ExchangeCode, InstallerTo, TimeInv, CallTime, CodeTime, RowTime, Ends, LockInv, ShapeInv, TypeOK, Granted
  <2>5. QED
    BY <2>2, <2>3, <2>4 DEF TimeInv
<1>14. ASSUME NEW i \in Installers, FetchWorkspace(i) PROVE TimeInv'
  <2>1. CallTime'
    BY <1>14 DEF FetchWorkspace, InstallerTo, TimeInv, CallTime, Ends, ShapeInv, TypeOK
  <2>2. CodeTime'
    <3>1. ASSUME NEW j \in Installers, j # i PROVE ipc'[j] = ipc[j] /\ inow'[j] = inow[j] /\ code'[j] = code[j]
      BY <1>14, <3>1 DEF FetchWorkspace, InstallerTo, TypeOK
    <3>2. UNCHANGED <<clock, issued, ends>>
      BY <1>14 DEF FetchWorkspace
    <3>3. CASE ipc'[i] = "idle"
      BY <3>1, <3>2, <3>3 DEF TimeInv, CodeTime, Ends
    <3>4. CASE ipc'[i] = "upsert"
      <4>1. /\ ipc[i] = "fetch" /\ inow'[i] = clock /\ code'[i] = code[i]
            /\ clock \in Nat /\ inow[i] \in Nat /\ ends \in [Tokens -> Times] /\ code[i] \in Rows
        BY <1>14, <3>4 DEF FetchWorkspace, InstallerTo, TypeOK, ShapeInv
      <4>2. clock <= inow[i] + 1 /\ Ends(code[i], inow[i] + Life, 0)
        BY <4>1 DEF TimeInv, CodeTime
      <4>3. ends[code[i].access] \in Int
        BY <4>1 DEF Rows, Times, Never
      <4>4. Ends(code[i], clock + Life, 1)
        BY <4>1, <4>2, <4>3 DEF Ends
      <4>5. Ends(code[i], inow[i] + Life, 1)'
        BY <3>2, <4>1, <4>4 DEF Ends
      <4>6. QED
        BY <3>1, <3>2, <3>4, <4>1, <4>5 DEF TimeInv, CodeTime, Ends
    <3>5. QED
      BY <1>14, <3>3, <3>4 DEF FetchWorkspace, InstallerTo, TypeOK
  <2>3. RowTime'
    BY <1>14 DEF FetchWorkspace, InstallerTo, TimeInv, CallTime, CodeTime, RowTime, Ends, LockInv, ShapeInv, TypeOK
  <2>4. QED
    BY <2>1, <2>2, <2>3 DEF TimeInv
<1>15. ASSUME NEW i \in Installers, Upsert(i) PROVE TimeInv'
  <2>1. CallTime'
    BY <1>15 DEF Upsert, InstallerTo, TimeInv, CallTime, Ends, ShapeInv, TypeOK
  <2>2. CodeTime'
    BY <1>15 DEF Upsert, InstallerTo, TimeInv, CodeTime, Ends, ShapeInv, TypeOK
  <2>3. RowTime'
    BY <1>15, RowFields DEF Upsert, InstallerTo, TimeInv, CallTime, CodeTime, RowTime, Ends, LockInv, ShapeInv, TypeOK, Rows, Times, Never
  <2>4. QED
    BY <2>1, <2>2, <2>3 DEF TimeInv
<1>16. CASE UNCHANGED vars
  BY <1>16 DEF vars, TimeInv, CallTime, CodeTime, RowTime, Ends, LockInv, ShapeInv, TypeOK, Rows, Tokens, Times, Never
<1>17. QED
  BY <1>1, <1>2, <1>3, <1>4, <1>5, <1>6, <1>7, <1>8, <1>9, <1>10, <1>11, <1>12, <1>13, <1>14, <1>15, <1>16 DEF Next, GetToken

IInv == TypeOK /\ ShapeInv /\ LockInv /\ TokenInv /\ FromInv /\ TimeInv

LEMMA Inductive == Spec => []IInv
<1>1. Init => IInv
  BY DEF Init, IInv, TypeOK, ShapeInv, LockInv, TokenInv, StoredInv, AnswerInv, CodeGood, CodeOwn, Spent,
         FromInv, TimeInv, CallTime, CodeTime, RowTime, Tokens, Times, Never
<1>2. IInv /\ [Next]_vars => IInv'
  BY TypeStep, LockStep, TokenStep, FromStep, TimeStep DEF IInv
<1>3. QED
  BY <1>1, <1>2, PTL DEF Spec

(* The row and what calls and callbacks hold keep their types, and the     *)
(* write lock is held only by a call that is under way.                    *)
THEOREM TypeCorrect == Spec => []TypeOK
<1>1. IInv => TypeOK
  BY DEF IInv
<1>2. QED
  BY <1>1, Inductive, PTL

(* A refresh token is refused only if its answer was lost before: a server *)
(* asks under the lock, with the token of the row, and that one is good    *)
(* unless it was lost.                                                     *)
THEOREM SpendsLive == Spec => []SpendsLiveTokens
<1>1. Init => SpendsLiveTokens
  BY DEF Init, SpendsLiveTokens
<1>2. IInv /\ SpendsLiveTokens /\ [Next]_vars => SpendsLiveTokens'
  <2> SUFFICES ASSUME IInv, SpendsLiveTokens, [Next]_vars PROVE SpendsLiveTokens'
    OBVIOUS
  <2>1. ASSUME NEW c \in Clients, RefreshFails(c) PROVE SpendsLiveTokens'
    <3>1. lock = c /\ row # None /\ seen[c] = row
      BY <2>1 DEF RefreshFails, IInv, LockInv
    <3>2. \A d \in Clients : ~Spent(d)
      BY <2>1, <3>1 DEF RefreshFails, IInv, LockInv, Spent
    <3>3. seen[c].refresh \in live \cup {None} \cup lost
      BY <3>1, <3>2 DEF IInv, TokenInv, StoredInv, Good
    <3>4. QED
      BY <2>1, <3>3 DEF RefreshFails, SpendsLiveTokens
  <2>2. CASE \E c \in Clients : AnswerLost(c) \/ Die(c)
    BY <2>2 DEF AnswerLost, Die, SpendsLiveTokens
  <2>3. ASSUME NEW c \in Clients,
               Call(c) \/ Read(c) \/ Begin(c) \/ Busy(c) \/ Refreshed(c) \/ LastResort(c) \/ Commit(c)
        PROVE  UNCHANGED <<refused, lost>>
    BY <2>3 DEF Call, Read, Begin, Busy, Refreshed, LastResort, Commit
  <2>4. ASSUME NEW i \in Installers, ExchangeCode(i) \/ FetchWorkspace(i) \/ Upsert(i)
        PROVE  UNCHANGED <<refused, lost>>
    BY <2>4 DEF ExchangeCode, FetchWorkspace, Upsert
  <2>5. CASE Tick \/ Delete \/ UNCHANGED vars
    BY <2>5 DEF Tick, Delete, vars, SpendsLiveTokens
  <2>6. QED
    BY <2>1, <2>2, <2>3, <2>4, <2>5 DEF Next, GetToken, SpendsLiveTokens
<1>3. QED
  BY <1>1, <1>2, Inductive, PTL DEF Spec

(* A refresh that is committed has traded the token of the row it replaces. *)
THEOREM Continues == Spec => RefreshContinues
<1> DEFINE A == row # None /\ row' # None /\ row' # row => from'[row'.access] \in {None, row.refresh}
<1>1. IInv /\ [Next]_vars => A
  <2> SUFFICES ASSUME IInv, [Next]_vars, row # None, row' # None, row' # row
               PROVE  from'[row'.access] \in {None, row.refresh}
    OBVIOUS
  <2>1. ASSUME NEW c \in Clients, Commit(c) PROVE from'[row'.access] = row.refresh
    <3>1. row'.access = fresh[c].access /\ from' = from
      BY <2>1 DEF Commit
    <3>2. from[fresh[c].access] = seen[c].refresh /\ seen[c] = row
      BY <2>1 DEF Commit, IInv, FromInv, LockInv, Spent
    <3>3. QED
      BY <3>1, <3>2
  <2>2. ASSUME NEW i \in Installers, Upsert(i) PROVE from'[row'.access] = None
    <3>1. code[i] # None /\ code[i] \in Rows
      BY <2>2 DEF Upsert, InstallerTo, IInv, ShapeInv, TypeOK
    <3>2. row'.access = code[i].access /\ from' = from
      BY <2>2, <3>1, RowFields DEF Upsert, Rows
    <3>3. QED
      BY <3>1, <3>2 DEF IInv, FromInv
  <2>3. ASSUME NEW c \in Clients,
               Call(c) \/ Read(c) \/ Begin(c) \/ Busy(c) \/ Refreshed(c) \/ AnswerLost(c)
                  \/ RefreshFails(c) \/ LastResort(c) \/ Die(c)
        PROVE  row' = row
    BY <2>3 DEF Call, Read, Begin, Busy, Refreshed, AnswerLost, RefreshFails, LastResort, Die
  <2>4. ASSUME NEW i \in Installers, ExchangeCode(i) \/ FetchWorkspace(i) PROVE row' = row
    BY <2>4 DEF ExchangeCode, FetchWorkspace
  <2>5. CASE Tick \/ Delete \/ UNCHANGED vars
    BY <2>5 DEF Tick, Delete, vars
  <2>6. QED
    BY <2>1, <2>2, <2>3, <2>4, <2>5 DEF Next, GetToken
<1>2. QED
  BY <1>1, Inductive, PTL DEF Spec, RefreshContinues

(* A call that returns without a failed refresh returns a token that has   *)
(* not ended: it is fresh, or its stored end, at most one unit late, is    *)
(* more than the margin after the call began.                              *)
THEOREM HandedOut == Spec => HandedOutWorks
<1> DEFINE A == \A c \in Clients :
                   pc[c] \notin {"idle", "last"} /\ pc'[c] = "idle" /\ out'[c] # None => clock < ends[out'[c]]
<1>1. IInv /\ [Next]_vars => A
  <2> SUFFICES ASSUME IInv, [Next]_vars, NEW c \in Clients,
                      pc[c] \notin {"idle", "last"}, pc'[c] = "idle", out'[c] # None
               PROVE  clock < ends[out'[c]]
    OBVIOUS
  <2>1. /\ clock \in 0 .. MaxTime /\ now[c] \in 0 .. MaxTime /\ Life \in Nat /\ Margin \in Nat
        /\ clock <= now[c] + 1
    BY DEF IInv, TypeOK, TimeInv, CallTime
  <2>2. ASSUME row # None, row.expires = None \/ ~Due(row, now[c]), out'[c] = row.access
        PROVE  clock < ends[out'[c]]
    <3>1. Ends(row, row.expires, 1) /\ row \in Rows /\ ends \in [Tokens -> Times] /\ issued \in 0 .. MaxGrants
      BY <2>2 DEF IInv, TimeInv, RowTime, TypeOK
    <3>2. row.access \in Tokens /\ ends[row.access] \in Int
      BY <3>1 DEF Rows, Times, Never
    <3>3. CASE row.expires = None
      BY <2>1, <2>2, <3>1, <3>3 DEF Ends, Never
    <3>4. CASE row.expires # None
      <4>1. row.expires \in Int /\ row.expires <= ends[row.access] + 1
        BY <3>1, <3>4 DEF Ends, Rows, Times, Never
      <4>2. ~(row.expires - now[c] <= Margin)
        BY <2>2, <3>4 DEF Due
      <4>3. QED
        BY <2>1, <2>2, <3>2, <4>1, <4>2
    <3>5. QED
      BY <3>3, <3>4
  <2>3. ASSUME NEW d \in Clients, Read(d) \/ Begin(d) PROVE clock < ends[out'[c]]
    <3>1. d = c
      BY <2>3 DEF Read, Begin, Return, Goto, IInv, TypeOK
    <3>2. row # None /\ (row.expires = None \/ ~Due(row, now[c])) /\ out'[c] = row.access
      BY <2>3, <3>1 DEF Read, Begin, Return, Goto, IInv, TypeOK, Due
    <3>3. QED
      BY <2>2, <3>2
  <2>4. ASSUME NEW d \in Clients, Commit(d) PROVE clock < ends[out'[c]]
    <3>1. d = c /\ pc[c] = "commit" /\ out'[c] = fresh[c].access
      BY <2>4 DEF Commit, Return, Goto, IInv, TypeOK
    <3>2. Ends(fresh[c], now[c] + Life, 0) /\ fresh[c] \in Rows /\ ends \in [Tokens -> Times]
      BY <3>1 DEF IInv, TimeInv, CallTime, ShapeInv, TypeOK
    <3>3. ends[fresh[c].access] \in Int
      BY <3>2 DEF Rows, Times, Never
    <3>4. CASE fresh[c].expires = None
      BY <2>1, <3>1, <3>2, <3>4 DEF Ends, Never
    <3>5. CASE fresh[c].expires # None
      BY <2>1, <3>1, <3>2, <3>3, <3>5 DEF Ends
    <3>6. QED
      BY <3>4, <3>5
  <2>5. ASSUME NEW d \in Clients, Busy(d) \/ Die(d) PROVE FALSE
    BY <2>5 DEF Busy, Die, Return, Goto, IInv, TypeOK
  <2>6. ASSUME NEW d \in Clients,
               Call(d) \/ Refreshed(d) \/ AnswerLost(d) \/ RefreshFails(d) \/ LastResort(d)
        PROVE  FALSE
    BY <2>6 DEF Call, Refreshed, AnswerLost, RefreshFails, LastResort, Return, Goto, IInv, TypeOK
  <2>7. ASSUME NEW i \in Installers, ExchangeCode(i) \/ FetchWorkspace(i) \/ Upsert(i) PROVE FALSE
    BY <2>7 DEF ExchangeCode, FetchWorkspace, Upsert
  <2>8. CASE Tick \/ Delete \/ UNCHANGED vars
    BY <2>8 DEF Tick, Delete, vars
  <2>9. QED
    BY <2>3, <2>4, <2>5, <2>6, <2>7, <2>8 DEF Next, GetToken
<1>2. QED
  BY <1>1, Inductive, PTL DEF Spec, HandedOutWorks
=============================================================================
