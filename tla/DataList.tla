------------------------------ MODULE DataList ------------------------------
(***************************************************************************)
(* What linked_lists/linked_list.c promises of its lists: each is a        *)
(* sequence without repetitions, and they are independent: a copy is equal *)
(* to its original when it is made, and no operation on one list changes   *)
(* another.  A call that fails changes nothing.                            *)
(***************************************************************************)
EXTENDS Sequences, SequencesExt

CONSTANTS Name, Data, NULL

VARIABLES
    seqs,    \* the sequence of each list, NULL if there is no such list
    result   \* what the last call returned and handed out

Res(e, d) == [err |-> e, data |-> d]

Init == seqs = [i \in Name |-> NULL] /\ result = Res("ok", NULL)

Exists(i) == seqs[i] # NULL
Nonempty(i) == Exists(i) /\ seqs[i] # << >>
Has(i, d) == d \in ToSet(seqs[i])

Others(i) == \A j \in Name \ {i} : seqs'[j] = seqs[j]
Becomes(i, s) == seqs'[i] = s /\ Others(i)
Done == result' = Res("ok", NULL)
Answers(e, d) == result' = Res(e, d) /\ UNCHANGED seqs

Create(i) == ~Exists(i) /\ Becomes(i, << >>)
Copy(i, j) == Exists(i) /\ ~Exists(j) /\ Becomes(j, seqs[i])
Destroy(i) == Exists(i) /\ Becomes(i, NULL)
Insert(i, d) == Exists(i) /\ ~Has(i, d) /\ Becomes(i, Append(seqs[i], d))
InsertHead(i, d) == Exists(i) /\ ~Has(i, d) /\ Becomes(i, <<d>> \o seqs[i])
Delete(i, d) ==
    Exists(i) /\ \E k \in DOMAIN seqs[i] : seqs[i][k] = d /\ Becomes(i, RemoveAt(seqs[i], k))

InsertAgain(i, d) == Answers("EEXIST", <<i, d>>) /\ Exists(i) /\ Has(i, d)
NoMemory == Answers("ENOMEM", NULL)
Find(i, d) == Answers("ok", <<i, d>>) /\ Exists(i) /\ Has(i, d)
NotFound(i, d) == Answers("ENOENT", <<i, d>>) /\ Exists(i) /\ ~Has(i, d)
First(i) == \E d \in Data : Answers("ok", <<i, "first", d>>) /\ Nonempty(i) /\ Head(seqs[i]) = d
Final(i) == \E d \in Data : Answers("ok", <<i, "last", d>>) /\ Nonempty(i) /\ Last(seqs[i]) = d
Random(i) == \E d \in Data : Answers("ok", <<i, "random", d>>) /\ Exists(i) /\ Has(i, d)
NoneThere(i) == Answers("ENOENT", <<i, NULL>>) /\ Exists(i) /\ seqs[i] = << >>

Next ==
    \/ /\ Done
       /\ \E i \in Name :
            \/ Create(i) \/ Destroy(i) \/ \E j \in Name : Copy(i, j)
            \/ \E d \in Data : Insert(i, d) \/ InsertHead(i, d) \/ Delete(i, d)
    \/ \E i \in Name :
         \/ First(i) \/ Final(i) \/ Random(i) \/ NoneThere(i)
         \/ \E d \in Data : InsertAgain(i, d) \/ Find(i, d) \/ NotFound(i, d)
    \/ NoMemory

Spec == Init /\ [][Next]_<<seqs, result>>

=============================================================================
