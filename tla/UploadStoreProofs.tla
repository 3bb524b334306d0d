------------------------- MODULE UploadStoreProofs --------------------------
(***************************************************************************)
(* What holds of the upload directory for every number of handlers, names, *)
(* sizes and crashes: a file under its target name is a whole body, a      *)
(* prune never fails for want of something to remove, and the directory    *)
(* exceeds the cap by no more than the uploads not yet accounted for.      *)
(***************************************************************************)
EXTENDS UploadStore, FiniteSetTheorems, WellFoundedInduction, TLAPS

-----------------------------------------------------------------------------
(* Sums of sizes                                                           *)

\* Induction over a finite set, as the smallest counterexample.
LEMMA SmallestSubset ==
  ASSUME NEW S, IsFiniteSet(S), NEW Bad \in SUBSET (SUBSET S), Bad # {}
  PROVE  \E T \in Bad : \A x \in T : T \ {x} \notin Bad
<1>1. IsWellFoundedOn(StrictSubsetOrdering(S), SUBSET S)
  BY FS_StrictSubsetOrderingWellFounded, FS_FiniteSubsetsOfFinite
<1>2. PICK T \in Bad : \A U \in Bad : ~(<<U, T>> \in StrictSubsetOrdering(S))
  BY <1>1, WFMin, Zenon
<1>3. ASSUME NEW x \in T PROVE T \ {x} \notin Bad
  <2>1. <<T \ {x}, T>> \in StrictSubsetOrdering(S)
    <3>1. T \ {x} \in SUBSET S /\ T \in SUBSET S /\ T \ {x} \subseteq T /\ T \ {x} # T
      OBVIOUS
    <3>2. QED
      BY <3>1 DEF StrictSubsetOrdering
  <2>2. QED
    BY <1>2, <2>1
<1>4. QED
  BY <1>3

\* w gives every subset of S the sum of the values that v has on it: one more
\* element adds its value.
Weights(v, S, w) ==
  /\ w \in [SUBSET S -> Nat] /\ w[{}] = 0
  /\ \A T \in SUBSET S : \A x \in S \ T : w[T \cup {x}] = w[T] + v[x]

LEMMA WeightsNothing == \A v : Weights(v, {}, [T \in SUBSET {} |-> 0])
BY DEF Weights

LEMMA WeightsMore ==
  ASSUME NEW v, NEW S, NEW w, Weights(v, S, w), NEW g, g \notin S, v[g] \in Nat,
         \A x \in S : v[x] \in Nat
  PROVE  \E z : Weights(v, S \cup {g}, z)
<1> DEFINE z == [T \in SUBSET (S \cup {g}) |-> IF g \in T THEN w[T \ {g}] + v[g] ELSE w[T]]
<1>2. \A T \in SUBSET (S \cup {g}) : /\ T \ {g} \in SUBSET S
                                     /\ g \notin T => T \in SUBSET S
  OBVIOUS
<1>3. \A T \in SUBSET S : w[T] \in Nat
  BY DEF Weights
<1>4. z \in [SUBSET (S \cup {g}) -> Nat] /\ z[{}] = 0
  BY <1>2, <1>3 DEF Weights
<1>5. ASSUME NEW T \in SUBSET (S \cup {g}), NEW x \in (S \cup {g}) \ T
      PROVE  z[T \cup {x}] = z[T] + v[x]
  <2>1. T \cup {x} \in SUBSET (S \cup {g})
    OBVIOUS
  <2>2. CASE x = g
    <3>1. g \notin T /\ T \in SUBSET S /\ (T \cup {x}) \ {g} = T /\ g \in T \cup {x}
      BY <2>2, <1>2
    <3>2. z[T \cup {x}] = w[T] + v[g] /\ z[T] = w[T]
      BY <3>1, <2>1
    <3>3. QED
      BY <3>2, <2>2
  <2>3. CASE x # g /\ g \in T
    <3>1. /\ (T \cup {x}) \ {g} = (T \ {g}) \cup {x} /\ T \ {g} \in SUBSET S
          /\ x \in S \ (T \ {g}) /\ g \in T \cup {x}
      BY <2>3, <1>2
    <3>2. z[T \cup {x}] = w[(T \ {g}) \cup {x}] + v[g] /\ z[T] = w[T \ {g}] + v[g]
      BY <3>1, <2>1, <2>3
    <3>3. w[(T \ {g}) \cup {x}] = w[T \ {g}] + v[x]
      BY <3>1 DEF Weights
    <3>4. w[T \ {g}] \in Nat /\ v[x] \in Nat
      BY <3>1, <1>3
    <3> HIDE DEF z
    <3>5. QED
      BY <3>2, <3>3, <3>4
  <2>4. CASE x # g /\ g \notin T
    <3>1. T \in SUBSET S /\ x \in S \ T /\ g \notin T \cup {x}
      BY <2>4, <1>2
    <3>2. z[T \cup {x}] = w[T \cup {x}] /\ z[T] = w[T]
      BY <3>1, <2>1, <2>4
    <3>3. QED
      BY <3>1, <3>2 DEF Weights
  <2>5. QED
    BY <2>2, <2>3, <2>4
<1> HIDE DEF z
<1>6. Weights(v, S \cup {g}, z)
  BY <1>4, <1>5 DEF Weights
<1>7. QED
  BY <1>6

LEMMA WeightsExist ==
  ASSUME NEW v, NEW S, IsFiniteSet(S), \A x \in S : v[x] \in Nat
  PROVE  \E w : Weights(v, S, w)
<1> DEFINE Bad == {T \in SUBSET S : ~(\E w : Weights(v, T, w))}
<1> SUFFICES ASSUME Bad # {} PROVE FALSE
  OBVIOUS
<1>1. PICK T \in Bad : \A x \in T : T \ {x} \notin Bad
  BY SmallestSubset
<1>2. T \in SUBSET S /\ ~(\E w : Weights(v, T, w))
  OBVIOUS
<1>3. PICK x \in T : TRUE
  BY <1>2, WeightsNothing
<1>4. \E w : Weights(v, T \ {x}, w)
  BY <1>1, <1>2
<1>5. (T \ {x}) \cup {x} = T /\ x \notin T \ {x}
  OBVIOUS
<1> HIDE DEF Bad
<1>6. \E z : Weights(v, (T \ {x}) \cup {x}, z)
  BY <1>2, <1>4, WeightsMore
<1>7. QED
  BY <1>2, <1>5, <1>6

\* SumFunctionOnSet is the weight of its set.
LEMMA SumIsWeight ==
  ASSUME NEW v, NEW S, IsFiniteSet(S), NEW w, Weights(v, S, w),
         \A x \in S : v[x] \in Nat
  PROVE  SumFunctionOnSet(v, S) = w[S]
<1> DEFINE pick(s) == CHOOSE x \in s : TRUE
           Sums(g) == g = [s \in SUBSET S |-> IF s = {} THEN 0
                                              ELSE v[pick(s)] + g[s \ {pick(s)}]]
           iter == CHOOSE g : Sums(g)
<1>1. SumFunctionOnSet(v, S) = iter[S]
  BY DEF SumFunctionOnSet, FoldFunctionOnSet, MapThenFoldSet
<1>2. \A s \in SUBSET S : s # {} => /\ pick(s) \in s /\ s \ {pick(s)} \in SUBSET S
                                    /\ pick(s) \in S \ (s \ {pick(s)})
                                    /\ (s \ {pick(s)}) \cup {pick(s)} = s
  OBVIOUS
<1> HIDE DEF pick
<1>3. \A s \in SUBSET S : s # {} => w[s] = v[pick(s)] + w[s \ {pick(s)}]
  <2> TAKE s \in SUBSET S
  <2> HAVE s # {}
  <2>1. w[(s \ {pick(s)}) \cup {pick(s)}] = w[s \ {pick(s)}] + v[pick(s)]
    BY <1>2 DEF Weights
  <2>2. w[s \ {pick(s)}] \in Nat /\ v[pick(s)] \in Nat
    BY <1>2 DEF Weights
  <2>3. (s \ {pick(s)}) \cup {pick(s)} = s
    BY <1>2
  <2>4. w[s] = w[s \ {pick(s)}] + v[pick(s)]
    BY <2>1, <2>3
  <2>5. QED
    BY <2>2, <2>4
<1>4. Sums(w)
  BY <1>3 DEF Weights
<1>5. Sums(iter)
  <2> HIDE DEF Sums
  <2>1. QED
    BY <1>4
<1> HIDE DEF iter
<1>6. /\ iter[{}] = 0
      /\ \A s \in SUBSET S : s # {} => iter[s] = v[pick(s)] + iter[s \ {pick(s)}]
  BY <1>5, Zenon
<1> DEFINE Bad == {s \in SUBSET S : iter[s] # w[s]}
<1>7. Bad = {}
  <2> SUFFICES ASSUME Bad # {} PROVE FALSE
    OBVIOUS
  <2>1. PICK s \in Bad : \A x \in s : s \ {x} \notin Bad
    BY SmallestSubset
  <2>2. CASE s = {}
    BY <2>2, <1>6 DEF Weights
  <2>3. CASE s # {}
    <3>1. pick(s) \in s /\ s \ {pick(s)} \in SUBSET S
      BY <2>3, <1>2
    <3>2. iter[s \ {pick(s)}] = w[s \ {pick(s)}]
      BY <2>1, <3>1
    <3>3. iter[s] = v[pick(s)] + iter[s \ {pick(s)}] /\ w[s] = v[pick(s)] + w[s \ {pick(s)}]
      BY <2>3, <1>3, <1>6
    <3>4. QED
      BY <3>2, <3>3
  <2>4. QED
    BY <2>2, <2>3
<1>8. QED
  BY <1>1, <1>7

LEMMA SubWeights ==
  ASSUME NEW v, NEW S, NEW w, Weights(v, S, w), NEW T \in SUBSET S
  PROVE  Weights(v, T, [U \in SUBSET T |-> w[U]])
<1> DEFINE z == [U \in SUBSET T |-> w[U]]
<1>1. z \in [SUBSET T -> Nat] /\ z[{}] = 0
  BY DEF Weights
<1>2. ASSUME NEW U \in SUBSET T, NEW x \in T \ U
      PROVE  z[U \cup {x}] = z[U] + v[x]
  <2>1. U \cup {x} \in SUBSET T /\ U \in SUBSET S /\ x \in S \ U
    OBVIOUS
  <2>2. QED
    BY <2>1 DEF Weights
<1> HIDE DEF z
<1>3. QED
  BY <1>1, <1>2 DEF Weights, z

\* The laws of sums: the sum over nothing is zero and one more element adds its
\* value.
LEMMA SumLaws ==
  ASSUME NEW v, NEW S, IsFiniteSet(S), \A x \in S : v[x] \in Nat
  PROVE  /\ SumFunctionOnSet(v, {}) = 0
         /\ \A T \in SUBSET S : SumFunctionOnSet(v, T) \in Nat
         /\ \A T \in SUBSET S : \A x \in S \ T :
              SumFunctionOnSet(v, T \cup {x}) = SumFunctionOnSet(v, T) + v[x]
<1>1. PICK w : Weights(v, S, w)
  BY WeightsExist
<1>2. ASSUME NEW T \in SUBSET S PROVE SumFunctionOnSet(v, T) = w[T]
  <2>1. IsFiniteSet(T) /\ \A x \in T : v[x] \in Nat
    BY FS_Subset
  <2>2. Weights(v, T, [U \in SUBSET T |-> w[U]])
    BY <1>1, SubWeights
  <2>3. SumFunctionOnSet(v, T) = [U \in SUBSET T |-> w[U]][T]
    BY <2>1, <2>2, SumIsWeight
  <2>4. QED
    BY <2>3
<1>3. \A T \in SUBSET S : \A x \in S \ T : T \cup {x} \in SUBSET S
  OBVIOUS
<1>4. {} \in SUBSET S
  OBVIOUS
<1>5. QED
  BY <1>1, <1>2, <1>3, <1>4 DEF Weights

LEMMA SumEmpty == \A v : SumFunctionOnSet(v, {}) = 0
<1> TAKE v
<1>1. IsFiniteSet({}) /\ \A x \in {} : v[x] \in Nat
  BY FS_EmptySet
<1>2. QED
  BY <1>1, SumLaws, Zenon

LEMMA SumType ==
  ASSUME NEW v, NEW S, IsFiniteSet(S), \A y \in S : v[y] \in Nat
  PROVE  SumFunctionOnSet(v, S) \in Nat
<1>1. S \in SUBSET S
  OBVIOUS
<1>2. QED
  BY <1>1, SumLaws, Zenon

LEMMA SumMore ==
  ASSUME NEW v, NEW S, IsFiniteSet(S), \A y \in S : v[y] \in Nat,
         NEW x, x \notin S, v[x] \in Nat
  PROVE  SumFunctionOnSet(v, S \cup {x}) = SumFunctionOnSet(v, S) + v[x]
<1>1. IsFiniteSet(S \cup {x}) /\ \A y \in S \cup {x} : v[y] \in Nat
  BY FS_AddElement
<1>2. S \in SUBSET (S \cup {x}) /\ x \in (S \cup {x}) \ S
  OBVIOUS
<1>3. \A T \in SUBSET (S \cup {x}) : \A y \in (S \cup {x}) \ T :
        SumFunctionOnSet(v, T \cup {y}) = SumFunctionOnSet(v, T) + v[y]
  BY <1>1, SumLaws, Zenon
<1>4. QED
  BY <1>2, <1>3, Zenon

LEMMA SumLess ==
  ASSUME NEW v, NEW S, IsFiniteSet(S), \A y \in S : v[y] \in Nat, NEW x \in S
  PROVE  /\ SumFunctionOnSet(v, S) = SumFunctionOnSet(v, S \ {x}) + v[x]
         /\ SumFunctionOnSet(v, S \ {x}) \in Nat
<1>1. /\ (S \ {x}) \cup {x} = S /\ x \notin S \ {x} /\ \A y \in S \ {x} : v[y] \in Nat
      /\ v[x] \in Nat
  OBVIOUS
<1>2. IsFiniteSet(S \ {x})
  BY FS_RemoveElement
<1>3. SumFunctionOnSet(v, (S \ {x}) \cup {x}) = SumFunctionOnSet(v, S \ {x}) + v[x]
  BY <1>1, <1>2, SumMore, Zenon
<1>4. SumFunctionOnSet(v, S \ {x}) \in Nat
  BY <1>1, <1>2, SumType, Zenon
<1>5. QED
  BY <1>1, <1>3, <1>4, Zenon

\* Terms that can be matched, one to one, with terms that are no smaller have no
\* greater sum.
LEMMA SumEmbeds ==
  ASSUME NEW v, NEW S, IsFiniteSet(S), \A x \in S : v[x] \in Nat,
         NEW z, NEW R, IsFiniteSet(R), \A y \in R : z[y] \in Nat,
         NEW e \in [S -> R], \A x, y \in S : e[x] = e[y] => x = y,
         \A x \in S : v[x] <= z[e[x]]
  PROVE  SumFunctionOnSet(v, S) <= SumFunctionOnSet(z, R)
<1> DEFINE into(T, U) == \A x \in T : e[x] \in U
           Bad == {T \in SUBSET S : \E U \in SUBSET R :
                     into(T, U) /\ ~(SumFunctionOnSet(v, T) <= SumFunctionOnSet(z, U))}
<1>1. Bad = {}
  <2> SUFFICES ASSUME Bad # {} PROVE FALSE
    OBVIOUS
  <2>1. PICK T \in Bad : \A x \in T : T \ {x} \notin Bad
    BY SmallestSubset
  <2>2. PICK U \in SUBSET R :
          into(T, U) /\ ~(SumFunctionOnSet(v, T) <= SumFunctionOnSet(z, U))
    OBVIOUS
  <2>3. T \in SUBSET S
    OBVIOUS
  <2>4. IsFiniteSet(T) /\ IsFiniteSet(U)
    BY <2>3, FS_Subset
  <2>5. CASE T = {}
    <3>1. SumFunctionOnSet(v, T) = 0 /\ SumFunctionOnSet(z, U) \in Nat
      BY <2>5, SumLaws
    <3>2. QED
      BY <2>2, <3>1
  <2>6. CASE T # {}
    <3>1. PICK x \in T : TRUE
      BY <2>6
    <3>2. e[x] \in U /\ x \in S /\ \A y \in T \ {x} : e[y] \in U \ {e[x]}
      BY <2>2, <2>3
    <3>3. SumFunctionOnSet(v, T \ {x}) <= SumFunctionOnSet(z, U \ {e[x]})
      <4>1. T \ {x} \in SUBSET S /\ T \ {x} \notin Bad
        BY <2>1, <2>3
      <4>2. U \ {e[x]} \in SUBSET R /\ into(T \ {x}, U \ {e[x]})
        BY <3>2
      <4>3. QED
        BY <4>1, <4>2
    <3>4. /\ SumFunctionOnSet(v, T) = SumFunctionOnSet(v, T \ {x}) + v[x]
          /\ SumFunctionOnSet(v, T \ {x}) \in Nat
      BY <2>3, <2>4, SumLess
    <3>5. /\ SumFunctionOnSet(z, U) = SumFunctionOnSet(z, U \ {e[x]}) + z[e[x]]
          /\ SumFunctionOnSet(z, U \ {e[x]}) \in Nat
      BY <2>4, <3>2, SumLess
    <3>6. v[x] \in Nat /\ z[e[x]] \in Nat /\ v[x] <= z[e[x]]
      BY <3>2
    <3> HIDE DEF Bad, into
    <3>7. SumFunctionOnSet(v, T) <= SumFunctionOnSet(z, U)
      BY <3>3, <3>4, <3>5, <3>6
    <3>8. QED
      BY <2>2, <3>7
  <2>7. QED
    BY <2>5, <2>6
<1>2. S \in SUBSET S /\ R \in SUBSET R /\ into(S, R)
  OBVIOUS
<1>3. QED
  BY <1>1, <1>2

LEMMA SumSplits ==
  ASSUME NEW v, NEW S, IsFiniteSet(S), \A x \in S : v[x] \in Nat, NEW B \in SUBSET S
  PROVE  SumFunctionOnSet(v, S) = SumFunctionOnSet(v, B) + SumFunctionOnSet(v, S \ B)
<1> DEFINE Bad == {T \in SUBSET (S \ B) :
                     SumFunctionOnSet(v, B \cup T)
                       # SumFunctionOnSet(v, B) + SumFunctionOnSet(v, T)}
<1>1. IsFiniteSet(S \ B)
  BY FS_Subset
<1>2. Bad = {}
  <2> SUFFICES ASSUME Bad # {} PROVE FALSE
    OBVIOUS
  <2>1. PICK T \in Bad : \A x \in T : T \ {x} \notin Bad
    BY <1>1, SmallestSubset
  <2>2. /\ T \in SUBSET (S \ B)
        /\ SumFunctionOnSet(v, B \cup T) # SumFunctionOnSet(v, B) + SumFunctionOnSet(v, T)
    OBVIOUS
  <2>3. SumFunctionOnSet(v, {}) = 0 /\ SumFunctionOnSet(v, B) \in Nat
    BY SumLaws
  <2>4. CASE T = {}
    <3>1. B \cup T = B
      BY <2>4
    <3>2. QED
      BY <2>2, <2>3, <2>4, <3>1
  <2>5. CASE T # {}
    <3>1. PICK x \in T : TRUE
      BY <2>5
    <3>2. SumFunctionOnSet(v, B \cup (T \ {x}))
            = SumFunctionOnSet(v, B) + SumFunctionOnSet(v, T \ {x})
      BY <2>1, <2>2
    <3>3. /\ x \in B \cup T /\ (B \cup T) \ {x} = B \cup (T \ {x})
          /\ B \cup T \in SUBSET S /\ T \in SUBSET S /\ v[x] \in Nat
      BY <2>2
    <3>4. IsFiniteSet(B \cup T) /\ IsFiniteSet(T)
      BY <3>3, FS_Subset
    <3> HIDE DEF Bad
    <3>5. SumFunctionOnSet(v, B \cup T) = SumFunctionOnSet(v, (B \cup T) \ {x}) + v[x]
      BY <3>3, <3>4, SumLess
    <3>6. /\ SumFunctionOnSet(v, T) = SumFunctionOnSet(v, T \ {x}) + v[x]
          /\ SumFunctionOnSet(v, T \ {x}) \in Nat
      BY <3>3, <3>4, SumLess
    <3>7. SumFunctionOnSet(v, B \cup T) = SumFunctionOnSet(v, B \cup (T \ {x})) + v[x]
      BY <3>3, <3>5
    <3>8. QED
      BY <2>2, <2>3, <3>2, <3>3, <3>6, <3>7
  <2>6. QED
    BY <2>4, <2>5
<1>3. S \ B \in SUBSET (S \ B) /\ B \cup (S \ B) = S
  OBVIOUS
<1> HIDE DEF Bad
<1>4. SumFunctionOnSet(v, B \cup (S \ B)) = SumFunctionOnSet(v, B) + SumFunctionOnSet(v, S \ B)
  BY <1>2, <1>3 DEF Bad
<1>5. QED
  BY <1>3, <1>4

-----------------------------------------------------------------------------
(* The inductive invariant                                                 *)

\* Handlers that copy work on uploads of their own, which no file holds yet.
Uploading ==
  /\ \A h \in Handlers : pc[h] = "copy" => upload[h] \in 1..created /\ keep[h] \in Names
  /\ \A g, h \in Handlers :
       pc[g] = "copy" /\ pc[h] = "copy" /\ upload[g] = upload[h] => g = h
  /\ \A n \in Names : files[n] <= created
  /\ \A n \in Names, h \in Handlers : pc[h] = "copy" => files[n] # upload[h]
  /\ FilesAreWhole

Entry == [name : Names, size : Nat, mtime : Nat]
sizeOf == [f \in Entry |-> f.size]

\* A listing S, with the names P still to look at: one entry for a name, none
\* above the cap, and total is the sum of the sizes.
IsListing(S, P, total) ==
  /\ S \subseteq Entry /\ IsFiniteSet(S)
  /\ \A f \in S : f.size <= MaxStorageBytes /\ f.name \notin P
  /\ \A f, g \in S : f.name = g.name => f = g
  /\ total = SumFunctionOnSet(sizeOf, S)

Listing == \A h \in Pruners : IsListing(seen[h], pending[h], remaining[h])

StoreInv == TypeOK /\ Uploading /\ Listing /\ PruneSucceeds

LEMMA Facts ==
  /\ Handlers \subseteq Pruners /\ Boot \in Pruners /\ Boot \notin Handlers
  /\ MaxStorageBytes \in Nat /\ MaxStorageBytes >= 1 /\ MaxUploads \in Nat /\ MaxCrashes \in Nat
  /\ Uploads \subseteq Nat /\ 0 \notin Uploads /\ NoFile = 0
  /\ \A n : n \in Uploads <=> n \in Nat /\ 1 <= n /\ n <= MaxUploads
BY Parameters DEF Pruners, Uploads, NoFile

LEMMA EmptyListing == \A P : IsListing({}, P, 0)
BY SumEmpty, FS_EmptySet DEF IsListing

LEMMA StoreStarts == Init => StoreInv
<1> SUFFICES ASSUME Init PROVE StoreInv
  OBVIOUS
<1> USE Facts
<1>1. TypeOK
  <2>1. /\ files \in [Names -> Uploads \cup {NoFile}]
        /\ upload \in [Handlers -> Uploads \cup {NoFile}]
    BY DEF Init
  <2>2. /\ written \in [Uploads -> 0..MaxStorageBytes] /\ mtime \in [Uploads -> 0..clock]
        /\ body \in [Uploads -> Sizes \cup {0}]
    BY DEF Init
  <2>3. /\ keep \in [Pruners -> Names \cup {noPath}] /\ pending \in [Pruners -> SUBSET Names]
        /\ seen \in [Pruners -> SUBSET [name : Names, size : Nat, mtime : Nat]]
        /\ remaining \in [Pruners -> Nat]
    BY DEF Init
  <2>4. pc \in [Pruners -> {"idle", "copy", "readdir", "stat", "pruned", "done", "down"}]
    BY DEF Init
  <2>5. temps = {} /\ clock = 0 /\ created = 0 /\ failed = {} /\ crashes = 0
    BY DEF Init
  <2>6. QED
    BY <2>1, <2>2, <2>3, <2>4, <2>5 DEF TypeOK
<1>2. Uploading
  BY DEF Init, Uploading, FilesAreWhole
<1>3. Listing
  BY EmptyListing DEF Init, Listing
<1>4. PruneSucceeds
  BY DEF Init, PruneSucceeds
<1>5. QED
  BY <1>1, <1>2, <1>3, <1>4 DEF StoreInv

-----------------------------------------------------------------------------
(* ServeHTTP                                                               *)

LEMMA CreateKeeps ==
  ASSUME StoreInv, NEW h \in Handlers, CreateTemp(h)
  PROVE  StoreInv'
<1> USE Facts
<1>1. PICK n \in Names, size \in Sizes :
        /\ keep' = [keep EXCEPT ![h] = n]
        /\ body' = [body EXCEPT ![created + 1] = size]
  BY DEF CreateTemp
<1>2. /\ created \in Nat /\ created + 1 \in Uploads /\ created' = created + 1
      /\ temps' = temps \cup {created + 1} /\ upload' = [upload EXCEPT ![h] = created + 1]
      /\ pc' = [pc EXCEPT ![h] = "copy"] /\ pc[h] = "idle"
      /\ clock' = clock + 1 /\ mtime' = [mtime EXCEPT ![created + 1] = clock + 1]
      /\ UNCHANGED <<files, written, pending, seen, remaining, failed, crashes>>
  BY DEF CreateTemp, Goto, StoreInv, TypeOK
<1>3. TypeOK'
  <2>1. created' \in 0..MaxUploads /\ temps' \subseteq Uploads
    BY <1>2 DEF StoreInv, TypeOK
  <2>2. keep' \in [Pruners -> Names \cup {noPath}] /\ body' \in [Uploads -> Sizes \cup {0}]
    BY <1>1, <1>2 DEF StoreInv, TypeOK
  <2>3. /\ pc' \in [Pruners -> {"idle", "copy", "readdir", "stat", "pruned", "done", "down"}]
        /\ upload' \in [Handlers -> Uploads \cup {NoFile}]
    BY <1>2 DEF StoreInv, TypeOK
  <2>4. clock' \in Nat /\ mtime' \in [Uploads -> 0..clock']
    BY <1>2 DEF StoreInv, TypeOK
  <2>5. QED
    BY <1>2, <2>1, <2>2, <2>3, <2>4 DEF StoreInv, TypeOK
<1>4. Uploading'
  <2>1. /\ \A g \in Handlers : g # h => /\ pc'[g] = pc[g] /\ upload'[g] = upload[g]
                                        /\ keep'[g] = keep[g]
        /\ upload'[h] = created + 1 /\ keep'[h] = n
    BY <1>1, <1>2 DEF StoreInv, TypeOK
  <2>2. \A m \in Names : files[m] \in Nat /\ files[m] <= created
    BY DEF StoreInv, TypeOK, Uploading
  <2>3. \A g \in Handlers : pc[g] = "copy" =>
          upload[g] \in Nat /\ upload[g] >= 1 /\ upload[g] <= created /\ keep[g] \in Names
    BY <1>2 DEF StoreInv, Uploading
  <2>4. (\A g \in Handlers : pc[g] = "copy" => upload[g] \in 1..created /\ keep[g] \in Names)'
    BY <1>1, <1>2, <2>1, <2>3
  <2>5. (\A g, k \in Handlers :
           pc[g] = "copy" /\ pc[k] = "copy" /\ upload[g] = upload[k] => g = k)'
    BY <1>2, <2>1, <2>3 DEF StoreInv, Uploading
  <2>6. /\ (\A m \in Names : files[m] <= created)'
        /\ (\A m \in Names, g \in Handlers : pc[g] = "copy" => files[m] # upload[g])'
    BY <1>2, <2>1, <2>2 DEF StoreInv, Uploading
  <2>7. FilesAreWhole'
    <3>1. \A m \in Names : files[m] # NoFile => /\ files[m] \in Uploads
                                                /\ body'[files[m]] = body[files[m]]
      BY <1>1, <1>2, <2>2 DEF StoreInv, TypeOK
    <3>2. QED
      BY <3>1, <1>2 DEF StoreInv, Uploading, FilesAreWhole
  <2>8. QED
    BY <2>4, <2>5, <2>6, <2>7 DEF Uploading
<1>5. Listing' /\ PruneSucceeds'
  BY <1>2 DEF StoreInv, Listing, PruneSucceeds
<1>6. QED
  BY <1>3, <1>4, <1>5 DEF StoreInv

LEMMA CopyKeeps ==
  ASSUME StoreInv, NEW h \in Handlers, CopyPiece(h)
  PROVE  StoreInv'
<1> USE Facts
<1> DEFINE u == upload[h]
<1>1. /\ pc[h] = "copy" /\ written[u] < MaxStorageBytes
      /\ written' = [written EXCEPT ![u] = @ + 1] /\ clock' = clock + 1
      /\ mtime' = [mtime EXCEPT ![u] = clock + 1]
      /\ UNCHANGED <<files, temps, body, created, pc, upload, keep, pending, seen, remaining,
                     failed, crashes>>
  BY DEF CopyPiece, pruneVars
<1>2. u \in Uploads /\ \A n \in Names : files[n] # u
  BY <1>1 DEF StoreInv, TypeOK, Uploading
<1> HIDE DEF u
<1>3. TypeOK'
  <2>1. written[u] \in Nat /\ clock \in Nat
    BY <1>2 DEF StoreInv, TypeOK
  <2>2. written' \in [Uploads -> 0..MaxStorageBytes]
    BY <1>1, <1>2, <2>1 DEF StoreInv, TypeOK
  <2>3. clock' \in Nat /\ mtime' \in [Uploads -> 0..clock']
    BY <1>1, <1>2, <2>1 DEF StoreInv, TypeOK
  <2>4. QED
    BY <1>1, <2>2, <2>3 DEF StoreInv, TypeOK
<1>4. Uploading'
  <2>1. \A n \in Names : files[n] # NoFile => written'[files[n]] = written[files[n]]
    BY <1>1, <1>2 DEF StoreInv, TypeOK
  <2>2. FilesAreWhole'
    BY <1>1, <2>1 DEF StoreInv, Uploading, FilesAreWhole
  <2>3. QED
    BY <1>1, <2>2 DEF StoreInv, Uploading
<1>5. Listing' /\ PruneSucceeds'
  BY <1>1 DEF StoreInv, Listing, PruneSucceeds
<1>6. QED
  BY <1>3, <1>4, <1>5 DEF StoreInv

\* A handler gives up its upload, before or after the file was put in place.
LEMMA GivesUpKeeps ==
  ASSUME StoreInv, NEW h \in Handlers, CopyFails(h) \/ Respond(h)
  PROVE  StoreInv'
<1> USE Facts
<1>1. /\ temps' \subseteq temps /\ upload' = [upload EXCEPT ![h] = NoFile]
      /\ keep' = [keep EXCEPT ![h] = noPath] /\ pc' = [pc EXCEPT ![h] = "idle"]
      /\ UNCHANGED <<files, written, mtime, body, clock, created, pending, seen, remaining,
                     failed, crashes>>
  BY DEF CopyFails, Respond, Goto, diskVars
<1>2. TypeOK'
  BY <1>1 DEF StoreInv, TypeOK
<1>3. Uploading'
  BY <1>1 DEF StoreInv, TypeOK, Uploading, FilesAreWhole
<1>4. Listing' /\ PruneSucceeds'
  BY <1>1 DEF StoreInv, Listing, PruneSucceeds
<1>5. QED
  BY <1>2, <1>3, <1>4 DEF StoreInv

LEMMA RenameKeeps ==
  ASSUME StoreInv, NEW h \in Handlers, Rename(h)
  PROVE  StoreInv'
<1> USE Facts
<1> DEFINE u == upload[h]
           n == keep[h]
<1>1. /\ pc[h] = "copy" /\ written[u] = body[u] /\ files' = [files EXCEPT ![n] = u]
      /\ temps' = temps \ {u} /\ pc' = [pc EXCEPT ![h] = "readdir"]
      /\ UNCHANGED <<written, mtime, body, clock, created, upload, keep, pending, seen,
                     remaining, failed, crashes>>
  BY DEF Rename, Goto, pruneVars
<1>2. /\ u \in Uploads /\ n \in Names /\ u <= created
      /\ \A g \in Handlers : g # h /\ pc[g] = "copy" => upload[g] # u
  BY <1>1 DEF StoreInv, TypeOK, Uploading
<1> HIDE DEF u, n
<1>3. /\ files'[n] = u /\ \A m \in Names : m # n => files'[m] = files[m]
      /\ pc'[h] = "readdir" /\ \A g \in Handlers : g # h => pc'[g] = pc[g]
  BY <1>1, <1>2 DEF StoreInv, TypeOK
<1>4. TypeOK'
  BY <1>1, <1>2 DEF StoreInv, TypeOK
<1>5. Uploading'
  <2>1. (\A g \in Handlers : pc[g] = "copy" => upload[g] \in 1..created /\ keep[g] \in Names)'
    BY <1>1, <1>3 DEF StoreInv, Uploading
  <2>2. (\A g, k \in Handlers :
           pc[g] = "copy" /\ pc[k] = "copy" /\ upload[g] = upload[k] => g = k)'
    BY <1>1, <1>3 DEF StoreInv, Uploading
  <2>3. (\A m \in Names : files[m] <= created)'
    BY <1>1, <1>2, <1>3 DEF StoreInv, Uploading
  <2>4. (\A m \in Names, g \in Handlers : pc[g] = "copy" => files[m] # upload[g])'
    BY <1>1, <1>2, <1>3 DEF StoreInv, Uploading
  <2>5. FilesAreWhole'
    BY <1>1, <1>2, <1>3 DEF StoreInv, Uploading, FilesAreWhole
  <2>6. QED
    BY <2>1, <2>2, <2>3, <2>4, <2>5 DEF Uploading
<1>6. Listing' /\ PruneSucceeds'
  BY <1>1 DEF StoreInv, Listing, PruneSucceeds
<1>7. QED
  BY <1>4, <1>5, <1>6 DEF StoreInv

-----------------------------------------------------------------------------
(* PruneDir                                                                *)

\* What a prune does to its own listing leaves the uploads alone.
LEMMA UploadingKept ==
  ASSUME StoreInv, NEW h \in Pruners, pc[h] # "copy",
         UNCHANGED <<files, written, body, created, upload, keep>>,
         \/ pc' = pc
         \/ \E label \in {"stat", "pruned", "done"} : pc' = [pc EXCEPT ![h] = label]
  PROVE  Uploading'
<1>1. \A g \in Handlers : pc'[g] = "copy" => pc[g] = "copy"
  BY Facts DEF StoreInv, TypeOK
<1>2. QED
  BY <1>1 DEF StoreInv, Uploading, FilesAreWhole

\* Other prunes keep their listings.
LEMMA ListingKept ==
  ASSUME Listing, NEW h \in Pruners,
         \A g \in Pruners : g # h => seen'[g] = seen[g] /\ pending'[g] = pending[g]
                                       /\ remaining'[g] = remaining[g],
         IsListing(seen'[h], pending'[h], remaining'[h])
  PROVE  Listing'
BY DEF Listing

LEMMA ReadDirKeeps ==
  ASSUME StoreInv, NEW h \in Pruners, ReadDir(h)
  PROVE  StoreInv'
<1> USE Facts
<1>1. /\ pc[h] = "readdir" /\ pc' = [pc EXCEPT ![h] = "stat"]
      /\ pending' = [pending EXCEPT ![h] = {n \in Names : files[n] # NoFile}]
      /\ seen' = [seen EXCEPT ![h] = {}] /\ remaining' = [remaining EXCEPT ![h] = 0]
      /\ UNCHANGED <<files, temps, written, mtime, body, clock, created, upload, keep, failed,
                     crashes>>
  BY DEF ReadDir, Goto, diskVars
<1>2. TypeOK'
  <2>1. /\ pending' \in [Pruners -> SUBSET Names] /\ remaining' \in [Pruners -> Nat]
        /\ seen' \in [Pruners -> SUBSET [name : Names, size : Nat, mtime : Nat]]
    BY <1>1 DEF StoreInv, TypeOK
  <2>2. QED
    BY <1>1, <2>1 DEF StoreInv, TypeOK
<1>3. Uploading'
  BY <1>1, UploadingKept
<1>4. Listing'
  <2>1. /\ seen'[h] = {} /\ remaining'[h] = 0
        /\ \A g \in Pruners : g # h => seen'[g] = seen[g] /\ pending'[g] = pending[g]
                                         /\ remaining'[g] = remaining[g]
    BY <1>1 DEF StoreInv, TypeOK
  <2>2. IsListing(seen'[h], pending'[h], remaining'[h])
    BY <2>1, EmptyListing
  <2>3. QED
    BY <2>1, <2>2, ListingKept DEF StoreInv
<1>5. PruneSucceeds'
  BY <1>1 DEF StoreInv, PruneSucceeds
<1>6. QED
  BY <1>2, <1>3, <1>4, <1>5 DEF StoreInv

LEMMA StatKeeps ==
  ASSUME StoreInv, NEW h \in Pruners, Stat(h)
  PROVE  StoreInv'
<1> USE Facts
<1> DEFINE entry(n) == [name |-> n, size |-> written[files[n]], mtime |-> mtime[files[n]]]
<1>1. /\ pc[h] = "stat"
      /\ UNCHANGED <<files, temps, written, mtime, body, clock, created, pc, upload, keep,
                     failed, crashes>>
  BY DEF Stat, diskVars
<1>2. PICK n \in pending[h] :
        /\ pending' = [pending EXCEPT ![h] = @ \ {n}]
        /\ \/ files[n] = NoFile /\ seen' = seen /\ remaining' = remaining
           \/ /\ files[n] # NoFile
              /\ seen' = [seen EXCEPT ![h] = @ \cup {entry(n)}]
              /\ remaining' = [remaining EXCEPT ![h] = @ + entry(n).size]
  BY DEF Stat
<1>3. n \in Names /\ remaining[h] \in Nat /\ IsListing(seen[h], pending[h], remaining[h])
  BY DEF StoreInv, TypeOK, Listing
<1>4. ASSUME files[n] # NoFile
      PROVE  /\ entry(n) \in [name : Names, size : Nat, mtime : Nat]
             /\ entry(n).size \in Nat /\ entry(n).size <= MaxStorageBytes
             /\ entry(n).name = n
  <2>1. files[n] \in Uploads
    BY <1>3, <1>4 DEF StoreInv, TypeOK
  <2>2. /\ written[files[n]] \in Nat /\ written[files[n]] <= MaxStorageBytes
        /\ mtime[files[n]] \in Nat
    BY <2>1 DEF StoreInv, TypeOK
  <2>3. QED
    BY <2>2, <1>3
<1> HIDE DEF entry
<1>5. TypeOK'
  <2>1. pending' \in [Pruners -> SUBSET Names]
    BY <1>2 DEF StoreInv, TypeOK
  <2>2. /\ seen' \in [Pruners -> SUBSET [name : Names, size : Nat, mtime : Nat]]
        /\ remaining' \in [Pruners -> Nat]
    BY <1>2, <1>3, <1>4 DEF StoreInv, TypeOK
  <2>3. QED
    BY <1>1, <2>1, <2>2 DEF StoreInv, TypeOK
<1>6. Uploading'
  BY <1>1, UploadingKept
<1>7. Listing'
  <2>1. /\ pending'[h] = pending[h] \ {n}
        /\ \A g \in Pruners : g # h => seen'[g] = seen[g] /\ pending'[g] = pending[g]
                                         /\ remaining'[g] = remaining[g]
    BY <1>2 DEF StoreInv, TypeOK
  <2>2. IsListing(seen'[h], pending'[h], remaining'[h])
    <3>1. CASE files[n] = NoFile
      <4>1. seen'[h] = seen[h] /\ remaining'[h] = remaining[h]
        BY <3>1, <1>2
      <4>2. QED
        BY <4>1, <2>1, <1>3 DEF IsListing
    <3>2. CASE files[n] # NoFile
      <4> DEFINE e == entry(n)
      <4>1. seen'[h] = seen[h] \cup {e} /\ remaining'[h] = remaining[h] + e.size
        BY <3>2, <1>2 DEF StoreInv, TypeOK
      <4>2. e.size \in Nat /\ e.size <= MaxStorageBytes /\ e.name = n
        BY <3>2, <1>4
      <4> HIDE DEF e
      <4>3. \A f \in seen[h] : f.name # n /\ f.size <= MaxStorageBytes /\ f.name \notin pending[h]
        BY <1>2, <1>3 DEF IsListing
      <4>4. e \notin seen[h]
        BY <4>2, <4>3
      <4>5. /\ seen[h] \cup {e} \subseteq Entry /\ IsFiniteSet(seen[h] \cup {e})
            /\ remaining[h] + e.size = SumFunctionOnSet(sizeOf, seen[h] \cup {e})
        <5>1. seen[h] \subseteq Entry /\ IsFiniteSet(seen[h]) /\ e \in Entry
          BY <3>2, <1>3, <1>4 DEF IsListing, Entry, e
        <5>2. \A f \in Entry : sizeOf[f] = f.size /\ sizeOf[f] \in Nat
          BY DEF sizeOf, Entry
        <5>3. IsFiniteSet(seen[h] \cup {e})
          BY <5>1, FS_AddElement
        <5>4. SumFunctionOnSet(sizeOf, seen[h] \cup {e})
                = SumFunctionOnSet(sizeOf, seen[h]) + sizeOf[e]
          BY <4>4, <5>1, <5>2, SumMore
        <5>5. QED
          BY <1>3, <5>1, <5>2, <5>3, <5>4 DEF IsListing
      <4>6. \A f \in seen[h] \cup {e} : f.size <= MaxStorageBytes /\ f.name \notin pending'[h]
        BY <4>2, <4>3, <2>1
      <4>7. \A f, g \in seen[h] \cup {e} : f.name = g.name => f = g
        BY <4>2, <4>3, <1>3 DEF IsListing
      <4>8. QED
        BY <4>1, <4>5, <4>6, <4>7 DEF IsListing
    <3>3. QED
      BY <3>1, <3>2
  <2>3. QED
    BY <2>1, <2>2, ListingKept DEF StoreInv
<1>8. PruneSucceeds'
  BY <1>1 DEF StoreInv, PruneSucceeds
<1>9. QED
  BY <1>5, <1>6, <1>7, <1>8 DEF StoreInv

LEMMA RemoveKeeps ==
  ASSUME StoreInv, NEW h \in Pruners, Remove(h)
  PROVE  StoreInv'
<1> USE Facts
<1>1. /\ pc[h] = "stat" /\ remaining[h] > MaxStorageBytes
      /\ UNCHANGED <<temps, written, mtime, body, clock, created, pc, upload, keep, pending,
                     failed, crashes>>
  BY DEF Remove, Listed
<1>2. PICK f \in seen[h] :
        /\ files' = [files EXCEPT ![f.name] = NoFile]
        /\ seen' = [seen EXCEPT ![h] = @ \ {f}]
        /\ remaining' = [remaining EXCEPT ![h] = @ - f.size]
  BY DEF Remove, evictable
<1>3. f.name \in Names /\ f.size \in Nat /\ remaining[h] \in Nat
  BY DEF StoreInv, TypeOK
<1>4. IsListing(seen[h], pending[h], remaining[h])
  BY DEF StoreInv, Listing
<1>5. PICK rest \in Nat :
        remaining[h] = rest + f.size /\ rest = SumFunctionOnSet(sizeOf, seen[h] \ {f})
  <2>1. seen[h] \subseteq Entry /\ IsFiniteSet(seen[h])
    BY <1>4 DEF IsListing
  <2>2. \A g \in Entry : sizeOf[g] = g.size /\ sizeOf[g] \in Nat
    BY DEF sizeOf, Entry
  <2>3. /\ SumFunctionOnSet(sizeOf, seen[h])
             = SumFunctionOnSet(sizeOf, seen[h] \ {f}) + sizeOf[f]
        /\ SumFunctionOnSet(sizeOf, seen[h] \ {f}) \in Nat
    BY <2>1, <2>2, SumLess
  <2>4. QED
    BY <1>4, <2>1, <2>2, <2>3 DEF IsListing
<1>6. remaining[h] - f.size = rest
  BY <1>3, <1>5
<1>7. TypeOK'
  <2>1. files' \in [Names -> Uploads \cup {NoFile}]
    BY <1>2, <1>3 DEF StoreInv, TypeOK
  <2>2. /\ seen' \in [Pruners -> SUBSET [name : Names, size : Nat, mtime : Nat]]
        /\ remaining' \in [Pruners -> Nat]
    BY <1>2, <1>6 DEF StoreInv, TypeOK
  <2>3. QED
    BY <1>1, <2>1, <2>2 DEF StoreInv, TypeOK
<1>8. Uploading'
  <2>1. \A n \in Names : files'[n] = files[n] \/ files'[n] = NoFile
    BY <1>2 DEF StoreInv, TypeOK
  <2>2. \A g \in Handlers : pc[g] = "copy" => upload[g] # NoFile
    BY DEF StoreInv, TypeOK, Uploading
  <2>3. created \in Nat
    BY DEF StoreInv, TypeOK
  <2>4. FilesAreWhole'
    BY <1>1, <2>1 DEF StoreInv, Uploading, FilesAreWhole
  <2>5. QED
    BY <1>1, <2>1, <2>2, <2>3, <2>4 DEF StoreInv, Uploading
<1>9. Listing'
  <2>1. /\ seen'[h] = seen[h] \ {f} /\ remaining'[h] = rest /\ pending'[h] = pending[h]
        /\ \A g \in Pruners : g # h => seen'[g] = seen[g] /\ pending'[g] = pending[g]
                                         /\ remaining'[g] = remaining[g]
    BY <1>1, <1>2, <1>6 DEF StoreInv, TypeOK
  <2>2. IsListing(seen'[h], pending'[h], remaining'[h])
    <3>1. IsFiniteSet(seen[h] \ {f})
      BY <1>4, FS_RemoveElement DEF IsListing
    <3>2. QED
      BY <2>1, <3>1, <1>4, <1>5 DEF IsListing
  <2>3. QED
    BY <2>1, <2>2, ListingKept DEF StoreInv
<1>10. PruneSucceeds'
  BY <1>1 DEF StoreInv, PruneSucceeds
<1>11. QED
  BY <1>7, <1>8, <1>9, <1>10 DEF StoreInv

LEMMA PruneEndsKeeps ==
  ASSUME StoreInv, NEW h \in Pruners, PruneEnds(h)
  PROVE  StoreInv'
<1> USE Facts
<1>1. /\ pc[h] = "stat"
      /\ \E label \in {"pruned", "done"} : pc' = [pc EXCEPT ![h] = label]
      /\ seen' = [seen EXCEPT ![h] = {}] /\ remaining' = [remaining EXCEPT ![h] = 0]
      /\ UNCHANGED <<files, temps, written, mtime, body, clock, created, upload, keep, pending,
                     failed, crashes>>
  BY DEF PruneEnds, Listed, Goto, diskVars
<1>2. TypeOK'
  <2>1. /\ remaining' \in [Pruners -> Nat]
        /\ seen' \in [Pruners -> SUBSET [name : Names, size : Nat, mtime : Nat]]
    BY <1>1 DEF StoreInv, TypeOK
  <2>2. QED
    BY <1>1, <2>1 DEF StoreInv, TypeOK
<1>3. Uploading'
  BY <1>1, UploadingKept
<1>4. Listing'
  <2>1. /\ seen'[h] = {} /\ remaining'[h] = 0
        /\ \A g \in Pruners : g # h => seen'[g] = seen[g] /\ pending'[g] = pending[g]
                                         /\ remaining'[g] = remaining[g]
    BY <1>1 DEF StoreInv, TypeOK
  <2>2. IsListing(seen'[h], pending'[h], remaining'[h])
    BY <2>1, EmptyListing
  <2>3. QED
    BY <2>1, <2>2, ListingKept DEF StoreInv
<1>5. PruneSucceeds'
  BY <1>1 DEF StoreInv, PruneSucceeds
<1>6. QED
  BY <1>2, <1>3, <1>4, <1>5 DEF StoreInv

\* Above the cap there is always something to remove: all the listed files but
\* one have another name than the one to keep, and that one fits the cap.
LEMMA SomethingToRemove ==
  ASSUME StoreInv, NEW h \in Pruners, remaining[h] > MaxStorageBytes
  PROVE  evictable(h) # {}
<1> SUFFICES ASSUME evictable(h) = {} PROVE FALSE
  OBVIOUS
<1>1. IsListing(seen[h], pending[h], remaining[h]) /\ remaining[h] \in Nat
  BY DEF StoreInv, TypeOK, Listing
<1>2. \A f \in seen[h] : f.name = keep[h] /\ f.size \in Nat /\ f.size <= MaxStorageBytes
  BY <1>1 DEF evictable, IsListing, StoreInv, TypeOK
<1>3. seen[h] # {}
  <2> SUFFICES ASSUME seen[h] = {} PROVE FALSE
    OBVIOUS
  <2>1. remaining[h] = 0
    BY <1>1, SumEmpty DEF IsListing
  <2>2. QED
    BY <2>1, Facts
<1>4. PICK f \in seen[h] : TRUE
  BY <1>3
<1>5. seen[h] \subseteq {f}
  BY <1>1, <1>2 DEF IsListing
<1>6. remaining[h] = f.size
  <2>1. seen[h] \subseteq Entry /\ IsFiniteSet(seen[h]) /\ seen[h] \ {f} = {}
    BY <1>1, <1>5 DEF IsListing
  <2>2. \A g \in Entry : sizeOf[g] = g.size /\ sizeOf[g] \in Nat
    BY DEF sizeOf, Entry
  <2>3. SumFunctionOnSet(sizeOf, seen[h]) = SumFunctionOnSet(sizeOf, seen[h] \ {f}) + sizeOf[f]
    BY <2>1, <2>2, SumLess
  <2>4. SumFunctionOnSet(sizeOf, seen[h] \ {f}) = 0 /\ sizeOf[f] = f.size /\ sizeOf[f] \in Nat
    BY <2>1, <2>2, SumEmpty
  <2>5. QED
    BY <1>1, <2>3, <2>4 DEF IsListing
<1>7. QED
  BY <1>1, <1>2, <1>6, Facts

LEMMA PruneFailsKeeps ==
  ASSUME StoreInv, NEW h \in Pruners, PruneFails(h)
  PROVE  StoreInv'
<1> USE Facts
<1>1. /\ pc[h] \in {"readdir", "stat"}
      /\ failed' = failed \cup {IF NoSpace(h) THEN "space" ELSE "io"}
      /\ pending' = [pending EXCEPT ![h] = {}]
      /\ \E label \in {"down", "idle"} : pc' = [pc EXCEPT ![h] = label]
      /\ seen' = [seen EXCEPT ![h] = {}] /\ remaining' = [remaining EXCEPT ![h] = 0]
      /\ keep' = [keep EXCEPT ![h] = noPath]
      /\ upload' = [g \in Handlers |-> IF g = h THEN NoFile ELSE upload[g]]
      /\ UNCHANGED <<files, temps, written, mtime, body, clock, created, crashes>>
  BY DEF PruneFails, NoSpace, Calls, Listed, Goto, diskVars
<1>2. failed' = failed \cup {"io"}
  <2>1. ~ NoSpace(h)
    BY SomethingToRemove DEF NoSpace, Listed
  <2>2. QED
    BY <1>1, <2>1
<1>3. TypeOK'
  <2>1. /\ remaining' \in [Pruners -> Nat] /\ keep' \in [Pruners -> Names \cup {noPath}]
        /\ seen' \in [Pruners -> SUBSET [name : Names, size : Nat, mtime : Nat]]
        /\ pending' \in [Pruners -> SUBSET Names]
        /\ upload' \in [Handlers -> Uploads \cup {NoFile}]
    BY <1>1 DEF StoreInv, TypeOK
  <2>2. QED
    BY <1>1, <1>2, <2>1 DEF StoreInv, TypeOK
<1>4. Uploading'
  <2>1. \A g \in Handlers : pc'[g] = "copy" => /\ pc[g] = "copy" /\ keep'[g] = keep[g]
                                               /\ upload'[g] = upload[g]
    BY <1>1 DEF StoreInv, TypeOK
  <2>2. QED
    BY <1>1, <2>1 DEF StoreInv, Uploading, FilesAreWhole
<1>5. Listing'
  <2>1. /\ seen'[h] = {} /\ remaining'[h] = 0
        /\ \A g \in Pruners : g # h => seen'[g] = seen[g] /\ pending'[g] = pending[g]
                                         /\ remaining'[g] = remaining[g]
    BY <1>1 DEF StoreInv, TypeOK
  <2>2. IsListing(seen'[h], pending'[h], remaining'[h])
    BY <2>1, EmptyListing
  <2>3. QED
    BY <2>1, <2>2, ListingKept DEF StoreInv
<1>6. PruneSucceeds'
  BY <1>2 DEF StoreInv, PruneSucceeds
<1>7. QED
  BY <1>3, <1>4, <1>5, <1>6 DEF StoreInv

-----------------------------------------------------------------------------
(* The process stops and is started again                                  *)

LEMMA CrashKeeps ==
  ASSUME StoreInv, Crash
  PROVE  StoreInv'
<1> USE Facts DEF Crash, diskVars
<1>1. TypeOK'
  <2>1. /\ pc' \in [Pruners -> {"idle", "copy", "readdir", "stat", "pruned", "done", "down"}]
        /\ upload' \in [Handlers -> Uploads \cup {NoFile}]
    OBVIOUS
  <2>2. /\ keep' \in [Pruners -> Names \cup {noPath}] /\ pending' \in [Pruners -> SUBSET Names]
        /\ seen' \in [Pruners -> SUBSET [name : Names, size : Nat, mtime : Nat]]
        /\ remaining' \in [Pruners -> Nat]
    OBVIOUS
  <2>3. crashes' \in 0..MaxCrashes
    BY DEF StoreInv, TypeOK
  <2>4. UNCHANGED <<files, temps, written, mtime, body, clock, created, failed>>
    OBVIOUS
  <2> HIDE DEF Crash
  <2>5. QED
    BY <2>1, <2>2, <2>3, <2>4 DEF StoreInv, TypeOK
<1>2. Uploading'
  BY DEF StoreInv, Uploading, FilesAreWhole
<1>3. Listing'
  BY EmptyListing DEF Listing
<1>4. PruneSucceeds'
  BY DEF StoreInv, PruneSucceeds
<1>5. QED
  BY <1>1, <1>2, <1>3, <1>4 DEF StoreInv

LEMMA RestartKeeps ==
  ASSUME StoreInv, Restart
  PROVE  StoreInv'
<1> USE Facts DEF Restart, Goto, diskVars, pruneVars
<1>1. TypeOK'
  BY DEF StoreInv, TypeOK
<1>2. Uploading'
  BY DEF StoreInv, TypeOK, Uploading, FilesAreWhole
<1>3. Listing' /\ PruneSucceeds'
  BY DEF StoreInv, Listing, PruneSucceeds
<1>4. QED
  BY <1>1, <1>2, <1>3 DEF StoreInv

-----------------------------------------------------------------------------

LEMMA StoreKeeps == StoreInv /\ [Next]_vars => StoreInv'
<1> SUFFICES ASSUME StoreInv, [Next]_vars PROVE StoreInv'
  OBVIOUS
<1>1. CASE \E h \in Handlers : CreateTemp(h) \/ CopyPiece(h) \/ CopyFails(h) \/ Rename(h)
                                 \/ Respond(h)
  BY <1>1, CreateKeeps, CopyKeeps, GivesUpKeeps, RenameKeeps
<1>2. CASE \E h \in Pruners : ReadDir(h) \/ Stat(h) \/ Remove(h) \/ PruneEnds(h)
                                \/ PruneFails(h)
  BY <1>2, ReadDirKeeps, StatKeeps, RemoveKeeps, PruneEndsKeeps, PruneFailsKeeps
<1>3. CASE Crash \/ Restart
  BY <1>3, CrashKeeps, RestartKeeps
<1>4. CASE UNCHANGED vars
  <2> USE <1>4 DEF vars, diskVars, pruneVars
  <2>1. TypeOK'
    BY DEF StoreInv, TypeOK
  <2>2. Uploading'
    BY DEF StoreInv, Uploading, FilesAreWhole
  <2>3. Listing' /\ PruneSucceeds'
    BY DEF StoreInv, Listing, PruneSucceeds
  <2>4. QED
    BY <2>1, <2>2, <2>3 DEF StoreInv
<1>5. QED
  BY <1>1, <1>2, <1>3, <1>4 DEF Next

LEMMA StoreInvHolds == Spec => []StoreInv
BY StoreStarts, StoreKeeps, PTL DEF Spec

\* The variables keep their types: in particular no file exceeds the cap, and
\* result.RemainingBytes never goes below zero.
THEOREM StoreTypeCorrect == Spec => []TypeOK
<1>1. StoreInv => TypeOK
  BY DEF StoreInv
<1>2. QED
  BY <1>1, StoreInvHolds, PTL

\* A file under its target name is a complete request body, for any number of
\* uploads to any names, failed copies, prunes and stops of the process.
THEOREM StoredFilesAreWhole == Spec => []FilesAreWhole
<1>1. StoreInv => FilesAreWhole
  BY DEF StoreInv, Uploading
<1>2. QED
  BY <1>1, StoreInvHolds, PTL

\* No prune, of a handler or of server.New, ends for want of something to
\* remove, whatever others do to the directory between its listing and its
\* removals.
THEOREM PruneFindsSpace == Spec => []PruneSucceeds
<1>1. StoreInv => PruneSucceeds
  BY DEF StoreInv
<1>2. QED
  BY <1>1, StoreInvHolds, PTL

-----------------------------------------------------------------------------
(* The cap.  Handlers are ranked by the order of their renames.  Each file *)
(* is either among those a finished prune has added up, whose bytes are    *)
(* within the cap, or was put in place by a handler ranked after that      *)
(* prune, which has yet to finish its own; and what a running prune has    *)
(* missed in its listing was put in place by handlers ranked after it.     *)

\* Files that are not, or no longer as they are, in the listing h is making.
Unseen(h) ==
  {n \in Stored : /\ n \notin pending[h]
                  /\ ~\E f \in seen[h] : f.name = n /\ f.size = written[files[n]]}

\* The file n is the upload of an overdue handler that was ranked after rank.
OwnedAfter(n, r, rank) == \E g \in Overdue : files[n] = upload[g] /\ r[g] > rank

\* The ranks r are below next; the prune ranked last has added up the files in
\* sum.
Ranked(r, last, next, sum) ==
  /\ r \in [Handlers -> Nat] /\ last \in Nat /\ next \in Nat /\ last < next
  /\ \A h \in Handlers : r[h] < next
  /\ sum \subseteq Stored /\ Bytes(sum) <= MaxStorageBytes
  /\ \A n \in Stored \ sum : OwnedAfter(n, r, last)
  /\ \A h \in Overdue : pc[h] = "stat" /\ r[h] > last =>
       \A n \in Unseen(h) : OwnedAfter(n, r, r[h])

\* Before it serves nothing but its own prune changes the directory.
Booting ==
  /\ \A h \in Handlers : pc[h] = "idle"
  /\ pc[Boot] = "stat" => Unseen(Boot) = {}

Accounted ==
  failed = {} => /\ Serving => \E r, last, next, sum : Ranked(r, last, next, sum)
                 /\ ~Serving => Booting

\* An upload is in one place, overdue handlers have one, and there are finitely
\* many of both.
Placing ==
  /\ \A m, n \in Stored : files[m] = files[n] => m = n
  /\ \A h \in Overdue : upload[h] \in Uploads
  /\ IsFiniteSet(Stored) /\ IsFiniteSet(Overdue)

CapInv == StoreInv /\ Placing /\ Accounted

LEMMA StoredSizes ==
  ASSUME TypeOK
  PROVE  \A n \in Stored : n \in Names /\ files[n] \in Uploads /\ written[files[n]] \in Nat
BY Facts DEF TypeOK, Stored

LEMMA SumShrinks ==
  ASSUME NEW R, IsFiniteSet(R), NEW Q \in SUBSET R, NEW v \in [Q -> Nat], NEW z \in [R -> Nat],
         \A x \in Q : v[x] <= z[x]
  PROVE  SumFunction(v) <= SumFunction(z)
<1>1. IsFiniteSet(Q) /\ DOMAIN v = Q /\ DOMAIN z = R
  BY FS_Subset
<1> DEFINE e == [x \in Q |-> x]
<1>2. /\ e \in [Q -> R] /\ \A x, y \in Q : e[x] = e[y] => x = y
      /\ \A x \in Q : v[x] <= z[e[x]]
  OBVIOUS
<1>3. (\A x \in Q : v[x] \in Nat) /\ \A y \in R : z[y] \in Nat
  OBVIOUS
<1> HIDE DEF e
<1>4. SumFunctionOnSet(v, Q) <= SumFunctionOnSet(z, R)
  BY <1>1, <1>2, <1>3, SumEmbeds
<1>5. QED
  BY <1>1, <1>4 DEF SumFunction

\* What a prune has listed weighs at least as much as the files it has seen.
LEMMA ListedBytes ==
  ASSUME StoreInv, Placing, NEW h \in Pruners, pending[h] = {},
         NEW Q \in SUBSET Stored, \A n \in Q : n \notin Unseen(h)
  PROVE  Bytes(Q) <= remaining[h]
<1> DEFINE b == [n \in Q |-> written[files[n]]]
           listed(n, f) == f.name = n /\ f.size = written[files[n]]
           e == [n \in Q |-> CHOOSE f \in seen[h] : listed(n, f)]
<1>1. \A n \in Q : \E f \in seen[h] : listed(n, f)
  BY DEF Unseen
<1>2. \A n \in Q : e[n] \in seen[h] /\ listed(n, e[n])
  BY <1>1
<1>3. e \in [Q -> seen[h]]
  BY <1>2
<1>4. IsFiniteSet(Q) /\ \A n \in Q : b[n] \in Nat /\ b[n] = written[files[n]]
  BY FS_Subset, StoredSizes DEF Placing, StoreInv
<1>5. /\ IsFiniteSet(seen[h]) /\ seen[h] \subseteq Entry
      /\ remaining[h] = SumFunctionOnSet(sizeOf, seen[h])
  BY DEF StoreInv, Listing, IsListing
<1>6. \A f \in seen[h] : sizeOf[f] = f.size /\ sizeOf[f] \in Nat
  BY <1>5 DEF sizeOf, Entry
<1>7. \A m, n \in Q : e[m] = e[n] => m = n
  BY <1>2
<1>8. \A n \in Q : b[n] <= sizeOf[e[n]]
  BY <1>2, <1>4, <1>6
<1>9. Bytes(Q) = SumFunctionOnSet(b, Q)
  BY DEF Bytes, SumFunction
<1> HIDE DEF b, e, listed
<1>10. SumFunctionOnSet(b, Q) <= SumFunctionOnSet(sizeOf, seen[h])
  BY <1>3, <1>4, <1>5, <1>6, <1>7, <1>8, SumEmbeds
<1>11. QED
  BY <1>5, <1>9, <1>10

\* Fewer files, whose uploads are as they were, have no more bytes.
LEMMA BytesShrink ==
  ASSUME TypeOK, Placing, NEW Q \in SUBSET Stored, NEW R \in SUBSET Q,
         \A n \in R : written'[files'[n]] = written[files[n]]
  PROVE  Bytes(R)' <= Bytes(Q) /\ Bytes(R)' \in Nat /\ Bytes(Q) \in Nat
<1> DEFINE b == [n \in Q |-> written[files[n]]]
           c == [n \in R |-> written'[files'[n]]]
<1>1. IsFiniteSet(Q) /\ IsFiniteSet(R)
  BY FS_Subset DEF Placing
<1>2. \A n \in Q : written[files[n]] \in Nat
  BY StoredSizes
<1>3. b \in [Q -> Nat] /\ c \in [R -> Nat] /\ \A n \in R : c[n] <= b[n]
  BY <1>2
<1>4. Bytes(Q) = SumFunction(b) /\ Bytes(R)' = SumFunction(c)
  BY DEF Bytes
<1>5. SumFunction(b) = SumFunctionOnSet(b, Q) /\ SumFunction(c) = SumFunctionOnSet(c, R)
  BY DEF SumFunction
<1> HIDE DEF b, c
<1>6. SumFunction(c) <= SumFunction(b)
  BY <1>1, <1>3, SumShrinks
<1>7. SumFunctionOnSet(b, Q) \in Nat /\ SumFunctionOnSet(c, R) \in Nat
  BY <1>1, <1>3, SumType
<1>8. QED
  BY <1>4, <1>5, <1>6, <1>7

LEMMA CapStarts == Init => CapInv
<1> SUFFICES ASSUME Init PROVE CapInv
  OBVIOUS
<1>1. StoreInv
  BY StoreStarts
<1>2. Stored = {} /\ Overdue = {}
  BY Facts DEF Init, Stored, Overdue
<1>3. Placing
  BY <1>2, FS_EmptySet DEF Placing
<1>4. ~Serving /\ Booting
  BY Facts DEF Init, Serving, Booting
<1>5. QED
  BY <1>1, <1>3, <1>4 DEF CapInv, Accounted

\* A step that puts no file in place and ends no prune.
LEMMA CalmStep ==
  ASSUME CapInv, StoreInv',
         failed' = failed, Serving' <=> Serving, Overdue' = Overdue,
         \A h \in Overdue : upload'[h] = upload[h],
         \A n \in Names : files'[n] = files[n] \/ files'[n] = NoFile,
         \A n \in Stored : written'[files[n]] = written[files[n]],
         ~Serving /\ Booting => \A h \in Handlers : pc'[h] = "idle",
         \A h \in Pruners : pc'[h] = "stat" => \A n \in Unseen(h)' : pc[h] = "stat" /\ n \in Unseen(h)
  PROVE  CapInv'
<1>1. /\ Stored' \subseteq Stored
      /\ \A n \in Stored' : files'[n] = files[n] /\ written'[files'[n]] = written[files[n]]
  BY DEF Stored
<1>2. Placing'
  <2>1. IsFiniteSet(Stored') /\ IsFiniteSet(Overdue')
    BY <1>1, FS_Subset DEF CapInv, Placing
  <2>2. \A h \in Overdue' : upload'[h] \in Uploads
    BY DEF CapInv, Placing
  <2>3. \A m, n \in Stored' : files'[m] = files'[n] => m = n
    BY <1>1 DEF CapInv, Placing
  <2>4. QED
    BY <2>1, <2>2, <2>3 DEF Placing
<1>3. ASSUME failed = {}, Serving
      PROVE  (\E r, last, next, sum : Ranked(r, last, next, sum))'
  <2>1. PICK r, last, next, sum : Ranked(r, last, next, sum)
    BY <1>3 DEF CapInv, Accounted
  <2>2. PICK rest : rest = sum \cap Stored'
    OBVIOUS
  <2>3. (Bytes(rest) <= MaxStorageBytes)'
    <3>1. Bytes(rest)' <= Bytes(sum) /\ Bytes(rest)' \in Nat /\ Bytes(sum) \in Nat
      BY <1>1, <2>1, <2>2, BytesShrink DEF Ranked, CapInv, StoreInv
    <3>2. QED
      BY <2>1, <3>1, Facts DEF Ranked
  <2>4. \A n \in Stored' : \A k : OwnedAfter(n, r, k) => OwnedAfter(n, r, k)'
    BY <1>1 DEF OwnedAfter
  <2>5. (\A n \in Stored \ rest : OwnedAfter(n, r, last))'
    BY <1>1, <2>1, <2>2, <2>4 DEF Ranked
  <2>6. (\A h \in Overdue : pc[h] = "stat" /\ r[h] > last =>
          \A n \in Unseen(h) : OwnedAfter(n, r, r[h]))'
    <3> SUFFICES ASSUME NEW h \in Overdue', pc'[h] = "stat", r[h] > last, NEW n \in Unseen(h)'
                 PROVE  OwnedAfter(n, r, r[h])'
      OBVIOUS
    <3>1. h \in Overdue /\ h \in Pruners
      BY Facts DEF Overdue
    <3>2. pc[h] = "stat" /\ n \in Unseen(h)
      BY <3>1
    <3>3. n \in Stored'
      BY DEF Unseen
    <3>4. OwnedAfter(n, r, r[h])
      BY <2>1, <3>1, <3>2 DEF Ranked
    <3>5. QED
      BY <2>4, <3>3, <3>4
  <2>7. Ranked(r, last, next, rest)'
    BY <2>1, <2>2, <2>3, <2>5, <2>6 DEF Ranked
  <2>8. QED
    BY <2>7
<1>4. ASSUME failed = {}, ~Serving PROVE Booting'
  <2>1. Booting
    BY <1>4 DEF CapInv, Accounted
  <2>2. pc'[Boot] = "stat" => Unseen(Boot)' = {}
    BY <2>1, Facts DEF Booting
  <2>3. QED
    BY <2>1, <2>2, <1>4 DEF Booting
<1>5. Accounted'
  BY <1>3, <1>4 DEF Accounted
<1>6. QED
  BY <1>2, <1>5 DEF CapInv

\* The handlers' steps before the file is in place and after its prune.
LEMMA HandlerCapKeeps ==
  ASSUME CapInv, StoreInv', NEW h \in Handlers,
         CreateTemp(h) \/ CopyPiece(h) \/ CopyFails(h) \/ Respond(h)
  PROVE  CapInv'
<1> USE Facts
<1>1. /\ UNCHANGED <<files, pending, seen, failed>>
      /\ pc[h] \in {"idle", "copy", "pruned"} /\ pc'[h] \in {"idle", "copy", "pruned"}
      /\ pc[h] = "idle" => Serving
      /\ \A g \in Pruners : g # h => pc'[g] = pc[g]
      /\ \A g \in Handlers : g # h => upload'[g] = upload[g]
  BY DEF CreateTemp, CopyPiece, CopyFails, Respond, Goto, diskVars, pruneVars, CapInv, StoreInv,
         TypeOK
<1>2. Overdue' = Overdue /\ (\A g \in Overdue : g # h) /\ (Serving' <=> Serving)
  BY <1>1 DEF Overdue, Serving
<1>3. \A n \in Stored : written'[files[n]] = written[files[n]]
  BY StoredSizes
     DEF CapInv, StoreInv, TypeOK, Uploading, CreateTemp, CopyPiece, CopyFails, Respond, diskVars
<1>4. ~Serving /\ Booting => \A g \in Handlers : pc'[g] = "idle"
  BY <1>1 DEF Booting
<1>5. ASSUME NEW g \in Pruners, pc'[g] = "stat", NEW n \in Unseen(g)'
      PROVE  pc[g] = "stat" /\ n \in Unseen(g)
  <2>1. g # h /\ pc[g] = "stat"
    BY <1>1, <1>5
  <2>2. n \in Stored /\ written'[files[n]] = written[files[n]]
    BY <1>1, <1>3 DEF Unseen, Stored
  <2>3. QED
    BY <1>1, <2>1, <2>2 DEF Unseen
<1>6. \A g \in Overdue : upload'[g] = upload[g]
  BY <1>1, <1>2 DEF Overdue
<1>7. \A n \in Names : files'[n] = files[n]
  BY <1>1
<1>8. QED
  BY <1>1, <1>2, <1>3, <1>4, <1>5, <1>6, <1>7, CalmStep

\* A listing that is read, made or worked off.
LEMMA PrunerCapKeeps ==
  ASSUME CapInv, StoreInv', NEW h \in Pruners, ReadDir(h) \/ Stat(h) \/ Remove(h)
  PROVE  CapInv'
<1> USE Facts
<1>1. /\ UNCHANGED <<written, upload, failed>>
      /\ pc[h] \in {"readdir", "stat"} /\ pc'[h] = "stat"
      /\ \A g \in Pruners : g # h =>
           pc'[g] = pc[g] /\ seen'[g] = seen[g] /\ pending'[g] = pending[g]
  BY DEF ReadDir, Stat, Remove, Listed, Goto, diskVars, CapInv, StoreInv, TypeOK
<1>2. \A n \in Names : files'[n] = files[n] \/ files'[n] = NoFile
  BY DEF ReadDir, Stat, Remove, diskVars, CapInv, StoreInv, TypeOK
<1>3. Overdue' = Overdue /\ (Serving' <=> Serving)
  BY <1>1 DEF Overdue, Serving
<1>4. ~Serving /\ Booting => \A g \in Handlers : pc'[g] = "idle"
  BY <1>1 DEF Booting
<1>5. Stored' \subseteq Stored /\ \A n \in Stored' : files'[n] = files[n]
  BY <1>2 DEF Stored
<1>6. ASSUME NEW n \in Unseen(h)' PROVE pc[h] = "stat" /\ n \in Unseen(h)
  <2>1. /\ n \in Stored /\ files'[n] = files[n] /\ n \in Names /\ files[n] # NoFile
        /\ n \notin pending'[h]
        /\ ~\E f \in seen'[h] : f.name = n /\ f.size = written[files[n]]
    BY <1>1, <1>5 DEF Unseen, Stored
  <2>2. CASE ReadDir(h)
    <3>1. pending'[h] = Stored
      BY <2>2 DEF ReadDir, Stored, CapInv, StoreInv, TypeOK
    <3>2. QED
      BY <2>1, <3>1
  <2>3. CASE Stat(h)
    <3>1. pc[h] = "stat"
      BY <2>3 DEF Stat
    <3>2. seen[h] \subseteq seen'[h]
      BY <2>3 DEF Stat, CapInv, StoreInv, TypeOK
    <3>3. ASSUME n \in pending[h] PROVE FALSE
      <4>1. PICK m \in pending[h] :
              /\ pending' = [pending EXCEPT ![h] = @ \ {m}]
              /\ files[m] # NoFile =>
                   seen' = [seen EXCEPT ![h] =
                     @ \cup {[name |-> m, size |-> written[files[m]], mtime |-> mtime[files[m]]]}]
        BY <2>3 DEF Stat
      <4>2. pending'[h] = pending[h] \ {m}
        BY <4>1 DEF CapInv, StoreInv, TypeOK
      <4>3. m = n
        BY <2>1, <3>3, <4>2
      <4>4. [name |-> n, size |-> written[files[n]], mtime |-> mtime[files[n]]] \in seen'[h]
        BY <2>1, <4>1, <4>3 DEF CapInv, StoreInv, TypeOK
      <4>5. QED
        BY <2>1, <4>4
    <3>4. QED
      BY <2>1, <3>1, <3>2, <3>3 DEF Unseen
  <2>4. CASE Remove(h)
    <3>1. pc[h] = "stat" /\ pending' = pending
      BY <2>4 DEF Remove, Listed
    <3>2. PICK f \in seen[h] :
            files' = [files EXCEPT ![f.name] = NoFile] /\ seen' = [seen EXCEPT ![h] = @ \ {f}]
      BY <2>4 DEF Remove, evictable
    <3>3. seen'[h] = seen[h] \ {f} /\ f.name # n
      BY <2>1, <3>2 DEF CapInv, StoreInv, TypeOK
    <3>4. QED
      BY <2>1, <3>1, <3>3 DEF Unseen
  <2>5. QED
    BY <2>2, <2>3, <2>4
<1>7. ASSUME NEW g \in Pruners, pc'[g] = "stat", NEW n \in Unseen(g)'
      PROVE  pc[g] = "stat" /\ n \in Unseen(g)
  <2>1. CASE g = h
    BY <2>1, <1>6, <1>7
  <2>2. CASE g # h
    BY <2>2, <1>1, <1>5, <1>7 DEF Unseen
  <2>3. QED
    BY <2>1, <2>2
<1>8. QED
  BY <1>1, <1>2, <1>3, <1>4, <1>7, CalmStep

LEMMA RenameCapKeeps ==
  ASSUME CapInv, StoreInv', NEW h \in Handlers, Rename(h)
  PROVE  CapInv'
<1> USE Facts
<1> PICK u, n : u = upload[h] /\ n = keep[h]
  OBVIOUS
<1>1. /\ pc[h] = "copy" /\ files' = [files EXCEPT ![n] = u] /\ pc' = [pc EXCEPT ![h] = "readdir"]
      /\ UNCHANGED <<written, upload, pending, seen, failed>>
  BY DEF Rename, Goto, pruneVars
<1>2. /\ u \in Uploads /\ n \in Names /\ \A m \in Names : files[m] # u
  BY <1>1 DEF CapInv, StoreInv, TypeOK, Uploading
<1>3. /\ files'[n] = u /\ \A m \in Names : m # n => files'[m] = files[m]
      /\ pc'[h] = "readdir" /\ \A g \in Pruners : g # h => pc'[g] = pc[g]
  BY <1>1, <1>2 DEF CapInv, StoreInv, TypeOK
<1>4. /\ Stored' = Stored \cup {n} /\ Overdue' = Overdue \cup {h} /\ h \notin Overdue
      /\ Serving' <=> Serving
  BY <1>1, <1>2, <1>3 DEF Stored, Overdue, Serving
<1>5. Placing'
  <2>1. IsFiniteSet(Stored') /\ IsFiniteSet(Overdue')
    BY <1>4, FS_AddElement DEF CapInv, Placing
  <2>2. \A g \in Overdue' : upload'[g] \in Uploads
    BY <1>1, <1>2, <1>4 DEF CapInv, Placing
  <2>3. \A m \in Stored' : m \in Names /\ (m # n => m \in Stored)
    BY <1>4 DEF Stored
  <2>4. \A m, k \in Stored' : files'[m] = files'[k] => m = k
    BY <1>2, <1>3, <2>3 DEF CapInv, Placing
  <2>5. QED
    BY <2>1, <2>2, <2>4 DEF Placing
<1>6. ASSUME failed = {} PROVE Serving
  BY <1>1, <1>6 DEF CapInv, Accounted, Booting
<1>7. ASSUME failed = {}
      PROVE  (\E r, last, next, sum : Ranked(r, last, next, sum))'
  <2>1. PICK r, last, next, sum : Ranked(r, last, next, sum)
    BY <1>6, <1>7 DEF CapInv, Accounted
  <2>2. PICK q : q = [r EXCEPT ![h] = next]
    OBVIOUS
  <2>3. /\ r \in [Handlers -> Nat] /\ last \in Nat /\ next \in Nat /\ last < next
        /\ \A g \in Handlers : r[g] < next
    BY <2>1 DEF Ranked
  <2>4. /\ q \in [Handlers -> Nat] /\ q[h] = next /\ \A g \in Handlers : g # h => q[g] = r[g]
        /\ next + 1 \in Nat /\ last < next + 1 /\ \A g \in Handlers : q[g] < next + 1
    BY <2>2, <2>3
  <2>5. PICK rest : rest = sum \ {n}
    OBVIOUS
  <2>6. (rest \subseteq Stored /\ Bytes(rest) <= MaxStorageBytes)'
    <3>1. sum \subseteq Stored /\ rest \subseteq sum /\ rest \subseteq Stored'
      BY <1>4, <2>1, <2>5 DEF Ranked
    <3>2. \A m \in rest : written'[files'[m]] = written[files[m]]
      BY <1>1, <1>3, <2>5, <3>1 DEF Stored
    <3>3. Bytes(rest)' <= Bytes(sum) /\ Bytes(rest)' \in Nat /\ Bytes(sum) \in Nat
      BY <3>1, <3>2, BytesShrink DEF CapInv, StoreInv
    <3>4. QED
      BY <2>1, <3>1, <3>3 DEF Ranked
  <2>7. \A k \in Nat : k < next => OwnedAfter(n, q, k)'
    BY <1>1, <1>3, <1>4, <2>4 DEF OwnedAfter
  <2>8. \A m \in Stored : \A k : m # n /\ OwnedAfter(m, r, k) => OwnedAfter(m, q, k)'
    BY <1>1, <1>3, <1>4, <2>4 DEF OwnedAfter, Overdue, Stored
  <2>9. (\A m \in Stored \ rest : OwnedAfter(m, q, last))'
    BY <1>4, <2>1, <2>3, <2>5, <2>7, <2>8 DEF Ranked
  <2>10. (\A g \in Overdue : pc[g] = "stat" /\ q[g] > last =>
           \A m \in Unseen(g) : OwnedAfter(m, q, q[g]))'
    <3> SUFFICES ASSUME NEW g \in Overdue', pc'[g] = "stat", q[g] > last, NEW m \in Unseen(g)'
                 PROVE  OwnedAfter(m, q, q[g])'
      OBVIOUS
    <3>1. g # h /\ g \in Overdue /\ g \in Handlers /\ pc[g] = "stat"
      BY <1>3, <1>4 DEF Overdue
    <3>2. q[g] = r[g] /\ r[g] \in Nat /\ r[g] < next
      BY <2>3, <2>4, <3>1
    <3>3. CASE m = n
      BY <2>7, <3>2, <3>3
    <3>4. CASE m # n
      <4>1. m \in Stored /\ m \in Names
        BY <1>4, <3>4 DEF Unseen, Stored
      <4>2. m \in Unseen(g)
        BY <1>1, <1>3, <3>4, <4>1 DEF Unseen
      <4>3. OwnedAfter(m, r, r[g])
        BY <2>1, <3>1, <3>2, <4>2 DEF Ranked
      <4>4. QED
        BY <2>8, <3>2, <3>4, <4>1, <4>3
    <3>5. QED
      BY <3>3, <3>4
  <2>11. Ranked(q, last, next + 1, rest)'
    BY <2>3, <2>4, <2>6, <2>9, <2>10 DEF Ranked
  <2>12. QED
    BY <2>11
<1>8. Accounted'
  BY <1>1, <1>4, <1>6, <1>7 DEF Accounted
<1>9. QED
  BY <1>5, <1>8 DEF CapInv

\* A handler that ends its prune has added up all files but those that handlers
\* ranked after it have put in place.
LEMMA PruneEndsCapKeeps ==
  ASSUME CapInv, StoreInv', NEW h \in Handlers, PruneEnds(h)
  PROVE  CapInv'
<1> USE Facts
<1>1. /\ pc[h] = "stat" /\ pending[h] = {} /\ remaining[h] <= MaxStorageBytes
      /\ pc' = [pc EXCEPT ![h] = "pruned"] /\ seen' = [seen EXCEPT ![h] = {}]
      /\ UNCHANGED <<files, written, upload, pending, failed>>
  BY DEF PruneEnds, Listed, Goto, diskVars
<1>2. /\ pc'[h] = "pruned"
      /\ \A g \in Pruners : g # h => pc'[g] = pc[g] /\ seen'[g] = seen[g]
  BY <1>1 DEF CapInv, StoreInv, TypeOK
<1>3. /\ Stored' = Stored /\ Overdue' = Overdue \ {h} /\ h \in Overdue
      /\ (Serving' <=> Serving)
      /\ \A g \in Overdue' : g # h /\ g \in Handlers /\ (pc'[g] = "stat" => pc[g] = "stat")
  BY <1>1, <1>2 DEF Stored, Overdue, Serving
<1>4. Placing'
  <2>1. IsFiniteSet(Overdue')
    BY <1>3, FS_RemoveElement DEF CapInv, Placing
  <2>2. QED
    BY <1>1, <1>3, <2>1 DEF CapInv, Placing
<1>5. ASSUME NEW g \in Overdue' PROVE Unseen(g)' = Unseen(g)
  BY <1>1, <1>2, <1>3 DEF Unseen
<1>6. ASSUME failed = {}
      PROVE  Serving /\ (\E r, last, next, sum : Ranked(r, last, next, sum))'
  <2>1. Serving
    BY <1>1, <1>6 DEF CapInv, Accounted, Booting
  <2>2. PICK r, last, next, sum : Ranked(r, last, next, sum)
    BY <1>6, <2>1 DEF CapInv, Accounted
  <2>3. /\ r \in [Handlers -> Nat] /\ last \in Nat /\ next \in Nat /\ last < next
        /\ \A g \in Handlers : r[g] < next /\ r[g] \in Nat
    BY <2>2 DEF Ranked
  <2>4. \A n, k : r[h] <= k /\ k \in Nat /\ OwnedAfter(n, r, k) => OwnedAfter(n, r, k)'
    BY <1>1, <1>3, <2>3 DEF OwnedAfter
  <2>5. CASE r[h] > last
    <3>1. PICK all : all = Stored \ Unseen(h)
      OBVIOUS
    <3>2. (all \subseteq Stored /\ Bytes(all) <= MaxStorageBytes)'
      <4>1. all \in SUBSET Stored /\ \A n \in all : n \notin Unseen(h)
        BY <3>1
      <4>2. Bytes(all) <= remaining[h]
        BY <1>1, <4>1, ListedBytes DEF CapInv
      <4>3. Bytes(all)' <= Bytes(all) /\ Bytes(all)' \in Nat /\ Bytes(all) \in Nat
        BY <1>1, <4>1, BytesShrink DEF CapInv, StoreInv
      <4>4. remaining[h] \in Nat
        BY DEF CapInv, StoreInv, TypeOK
      <4>5. QED
        BY <1>1, <1>3, <4>1, <4>2, <4>3, <4>4
    <3>3. (\A n \in Stored \ all : OwnedAfter(n, r, r[h]))'
      <4> SUFFICES ASSUME NEW n \in Stored' \ all PROVE OwnedAfter(n, r, r[h])'
        OBVIOUS
      <4>1. n \in Unseen(h)
        BY <1>3, <3>1
      <4>2. OwnedAfter(n, r, r[h])
        BY <1>1, <1>3, <2>2, <2>5, <4>1 DEF Ranked
      <4>3. QED
        BY <2>3, <2>4, <4>2
    <3>4. (\A g \in Overdue : pc[g] = "stat" /\ r[g] > r[h] =>
            \A n \in Unseen(g) : OwnedAfter(n, r, r[g]))'
      <4> SUFFICES ASSUME NEW g \in Overdue', pc'[g] = "stat", r[g] > r[h], NEW n \in Unseen(g)'
                   PROVE  OwnedAfter(n, r, r[g])'
        OBVIOUS
      <4>1. g \in Handlers /\ g \in Overdue /\ pc[g] = "stat" /\ n \in Unseen(g)
        BY <1>3, <1>5
      <4>2. r[g] > last /\ r[g] \in Nat /\ r[h] <= r[g]
        BY <2>3, <2>5, <4>1
      <4>3. OwnedAfter(n, r, r[g])
        BY <2>2, <4>1, <4>2 DEF Ranked
      <4>4. QED
        BY <2>4, <4>2, <4>3
    <3>5. Ranked(r, r[h], next, all)'
      BY <2>3, <3>2, <3>3, <3>4 DEF Ranked
    <3>6. QED
      BY <2>1, <3>5
  <2>6. CASE ~(r[h] > last)
    <3>1. r[h] <= last
      BY <2>3, <2>6
    <3>2. (sum \subseteq Stored /\ Bytes(sum) <= MaxStorageBytes)'
      <4>1. sum \in SUBSET Stored /\ Bytes(sum) <= MaxStorageBytes
        BY <2>2 DEF Ranked
      <4>2. Bytes(sum)' <= Bytes(sum) /\ Bytes(sum)' \in Nat /\ Bytes(sum) \in Nat
        BY <1>1, <4>1, BytesShrink DEF CapInv, StoreInv
      <4>3. QED
        BY <1>3, <4>1, <4>2
    <3>3. (\A n \in Stored \ sum : OwnedAfter(n, r, last))'
      BY <1>3, <2>2, <2>3, <2>4, <3>1 DEF Ranked
    <3>4. (\A g \in Overdue : pc[g] = "stat" /\ r[g] > last =>
            \A n \in Unseen(g) : OwnedAfter(n, r, r[g]))'
      <4> SUFFICES ASSUME NEW g \in Overdue', pc'[g] = "stat", r[g] > last, NEW n \in Unseen(g)'
                   PROVE  OwnedAfter(n, r, r[g])'
        OBVIOUS
      <4>1. g \in Handlers /\ g \in Overdue /\ pc[g] = "stat" /\ n \in Unseen(g)
        BY <1>3, <1>5
      <4>2. r[g] \in Nat /\ r[h] <= r[g]
        BY <2>3, <3>1, <4>1
      <4>3. OwnedAfter(n, r, r[g])
        BY <2>2, <4>1, <4>2 DEF Ranked
      <4>4. QED
        BY <2>4, <4>2, <4>3
    <3>5. Ranked(r, last, next, sum)'
      BY <2>3, <3>2, <3>3, <3>4 DEF Ranked
    <3>6. QED
      BY <2>1, <3>5
  <2>7. QED
    BY <2>5, <2>6
<1>7. Accounted'
  BY <1>1, <1>3, <1>6 DEF Accounted
<1>8. QED
  BY <1>4, <1>7 DEF CapInv

\* When server.New has pruned, nothing is overdue and all files have been added
\* up.
LEMMA BootEndsCapKeeps ==
  ASSUME CapInv, StoreInv', PruneEnds(Boot)
  PROVE  CapInv'
<1> USE Facts
<1>1. /\ pc[Boot] = "stat" /\ pending[Boot] = {} /\ remaining[Boot] <= MaxStorageBytes
      /\ pc' = [pc EXCEPT ![Boot] = "done"]
      /\ UNCHANGED <<files, written, upload, failed>>
  BY DEF PruneEnds, Listed, Goto, diskVars
<1>2. /\ Stored' = Stored /\ Overdue' = Overdue /\ ~Serving /\ Serving'
  BY <1>1 DEF Stored, Overdue, Serving, CapInv, StoreInv, TypeOK
<1>3. Placing'
  BY <1>1, <1>2 DEF CapInv, Placing
<1>4. ASSUME failed = {}
      PROVE  (\E r, last, next, sum : Ranked(r, last, next, sum))'
  <2>1. Overdue = {} /\ Unseen(Boot) = {}
    BY <1>1, <1>2, <1>4 DEF CapInv, Accounted, Booting, Overdue
  <2>2. PICK all : all = Stored
    OBVIOUS
  <2>3. Bytes(all) <= remaining[Boot]
    BY <1>1, <2>1, <2>2, ListedBytes DEF CapInv
  <2>4. Bytes(all)' <= Bytes(all) /\ Bytes(all)' \in Nat /\ Bytes(all) \in Nat
    BY <1>1, <2>2, BytesShrink DEF CapInv, StoreInv
  <2>5. remaining[Boot] \in Nat
    BY DEF CapInv, StoreInv, TypeOK
  <2>6. (Bytes(all) <= MaxStorageBytes)'
    BY <1>1, <2>3, <2>4, <2>5
  <2>7. Ranked([g \in Handlers |-> 0], 0, 1, all)'
    BY <1>2, <2>1, <2>2, <2>6 DEF Ranked
  <2>8. QED
    BY <2>7
<1>5. Accounted'
  BY <1>1, <1>2, <1>4 DEF Accounted
<1>6. QED
  BY <1>3, <1>5 DEF CapInv

\* After a failed prune, and while the process is down, only the placing of
\* files is left to keep.
LEMMA StopCapKeeps ==
  ASSUME CapInv, StoreInv', Crash \/ Restart \/ \E h \in Pruners : PruneFails(h)
  PROVE  CapInv'
<1> USE Facts
<1>1. UNCHANGED files /\ Stored' = Stored
  BY DEF Crash, Restart, PruneFails, diskVars, Stored
<1>2. /\ Overdue' \subseteq Overdue
      /\ \A g \in Overdue' : upload'[g] = upload[g]
  BY SMTT(30) DEF Crash, Restart, PruneFails, NoSpace, Calls, Listed, Goto, Overdue, CapInv,
     StoreInv, TypeOK
<1>3. Placing'
  <2>1. IsFiniteSet(Overdue')
    BY <1>2, FS_Subset DEF CapInv, Placing
  <2>2. QED
    BY <1>1, <1>2, <2>1 DEF CapInv, Placing
<1>4. Accounted'
  <2>1. CASE Crash
    BY <2>1 DEF Crash, Accounted, Serving, Booting
  <2>2. CASE Restart
    <3>1. /\ pc[Boot] = "down" /\ pc' = [pc EXCEPT ![Boot] = "readdir"] /\ failed' = failed
      BY <2>2 DEF Restart, Goto
    <3>2. ~Serving /\ ~Serving' /\ pc'[Boot] = "readdir" /\ \A h \in Handlers : pc'[h] = pc[h]
      BY <3>1 DEF Serving, CapInv, StoreInv, TypeOK
    <3>3. QED
      BY <3>1, <3>2 DEF CapInv, Accounted, Booting
  <2>3. CASE \E h \in Pruners : PruneFails(h)
    <3>1. failed' # {}
      BY <2>3 DEF PruneFails
    <3>2. QED
      BY <3>1 DEF Accounted
  <2>4. QED
    BY <2>1, <2>2, <2>3
<1>5. QED
  BY <1>3, <1>4 DEF CapInv

LEMMA StutterCapKeeps ==
  ASSUME CapInv, StoreInv', UNCHANGED vars
  PROVE  CapInv'
<1> USE DEF vars, diskVars, pruneVars
<1>1. Overdue' = Overdue /\ (Serving' <=> Serving) /\ \A h : Unseen(h)' = Unseen(h)
  BY DEF Overdue, Serving, Unseen, Stored
<1>2. ~Serving /\ Booting => \A h \in Handlers : pc'[h] = "idle"
  BY DEF Booting
<1>3. \A h \in Pruners : pc'[h] = "stat" => \A n \in Unseen(h)' : pc[h] = "stat" /\ n \in Unseen(h)
  BY <1>1
<1>4. /\ UNCHANGED <<failed, upload, files, written>>
  OBVIOUS
<1> HIDE DEF vars, diskVars, pruneVars
<1>5. QED
  BY <1>1, <1>2, <1>3, <1>4, CalmStep

LEMMA CapKeeps == CapInv /\ [Next]_vars => CapInv'
<1> SUFFICES ASSUME CapInv, [Next]_vars PROVE CapInv'
  OBVIOUS
<1>1. StoreInv'
  BY StoreKeeps DEF CapInv
<1>2. CASE \E h \in Handlers : CreateTemp(h) \/ CopyPiece(h) \/ CopyFails(h) \/ Rename(h)
                                 \/ Respond(h)
  BY <1>1, <1>2, HandlerCapKeeps, RenameCapKeeps
<1>3. CASE \E h \in Pruners : ReadDir(h) \/ Stat(h) \/ Remove(h)
  BY <1>1, <1>3, PrunerCapKeeps
<1>4. CASE \E h \in Pruners : PruneEnds(h)
  BY <1>1, <1>4, PruneEndsCapKeeps, BootEndsCapKeeps DEF Pruners
<1>5. CASE Crash \/ Restart \/ \E h \in Pruners : PruneFails(h)
  BY <1>1, <1>5, StopCapKeeps
<1>6. CASE UNCHANGED vars
  BY <1>1, <1>6, StutterCapKeeps
<1>7. QED
  BY <1>2, <1>3, <1>4, <1>5, <1>6 DEF Next

\* Every file that no finished prune has added up is the upload of an overdue
\* handler, and of one only.
LEMMA AccountedIsCapped == CapInv => CapHolds
<1> SUFFICES ASSUME CapInv, Serving, failed = {}
             PROVE  Bytes(Stored)
                      <= MaxStorageBytes + SumFunction([h \in Overdue |-> written[upload[h]]])
  BY DEF CapHolds
<1>1. PICK r, last, next, sum : Ranked(r, last, next, sum)
  BY DEF CapInv, Accounted
<1> DEFINE b == [n \in Stored |-> written[files[n]]]
           c == [n \in sum |-> written[files[n]]]
           d == [h \in Overdue |-> written[upload[h]]]
           new == Stored \ sum
           owns(n, g) == files[n] = upload[g]
           owner == [n \in new |-> CHOOSE g \in Overdue : owns(n, g)]
<1>2. sum \subseteq Stored /\ SumFunctionOnSet(c, sum) <= MaxStorageBytes
  BY <1>1 DEF Ranked, Bytes, SumFunction
<1>3. /\ IsFiniteSet(Stored) /\ IsFiniteSet(sum) /\ IsFiniteSet(new) /\ IsFiniteSet(Overdue)
  BY <1>2, FS_Subset DEF CapInv, Placing
<1>4. \A n \in Stored : b[n] \in Nat /\ b[n] = written[files[n]]
  BY StoredSizes DEF CapInv, StoreInv
<1>5. \A n \in sum : c[n] \in Nat /\ b[n] = c[n]
  BY <1>2, <1>4
<1>6. \A g \in Overdue : d[g] \in Nat /\ d[g] = written[upload[g]]
  BY Facts DEF CapInv, Placing, StoreInv, TypeOK
<1>7. \A n \in new : owner[n] \in Overdue /\ files[n] = upload[owner[n]]
  <2>1. \A n \in new : \E g \in Overdue : owns(n, g)
    BY <1>1 DEF Ranked, OwnedAfter
  <2>2. QED
    BY <2>1
<1>8. Bytes(Stored) = SumFunctionOnSet(b, Stored) /\ SumFunction(d) = SumFunctionOnSet(d, Overdue)
  BY DEF Bytes, SumFunction
<1>9. /\ owner \in [new -> Overdue] /\ \A m, n \in new : owner[m] = owner[n] => m = n
  BY <1>7 DEF CapInv, Placing
<1>10. \A n \in new : b[n] <= d[owner[n]] /\ b[n] \in Nat
  BY <1>4, <1>6, <1>7
<1>11. new = Stored \ sum
  OBVIOUS
<1>12. \A n \in new : n \in Stored
  OBVIOUS
<1> HIDE DEF b, c, d, new, owner, owns
<1>13. SumFunctionOnSet(b, Stored) = SumFunctionOnSet(b, sum) + SumFunctionOnSet(b, new)
  BY <1>2, <1>3, <1>4, <1>11, SumSplits
<1>14. SumFunctionOnSet(b, sum) <= SumFunctionOnSet(c, sum)
  <2> DEFINE e == [n \in sum |-> n]
  <2>1. /\ e \in [sum -> sum] /\ \A m, n \in sum : e[m] = e[n] => m = n
        /\ \A n \in sum : b[n] <= c[e[n]] /\ b[n] \in Nat
    BY <1>5
  <2> HIDE DEF e
  <2>2. QED
    BY <1>3, <1>5, <2>1, SumEmbeds
<1>15. SumFunctionOnSet(b, new) <= SumFunctionOnSet(d, Overdue)
  BY <1>3, <1>6, <1>9, <1>10, SumEmbeds
<1>16. /\ SumFunctionOnSet(b, sum) \in Nat /\ SumFunctionOnSet(c, sum) \in Nat
       /\ SumFunctionOnSet(b, new) \in Nat /\ SumFunctionOnSet(d, Overdue) \in Nat
  BY <1>3, <1>5, <1>6, <1>10, SumType
<1>17. SumFunction(d) = SumFunction([h \in Overdue |-> written[upload[h]]])
  BY DEF d
<1>18. Bytes(Stored) <= MaxStorageBytes + SumFunction(d)
  BY <1>2, <1>8, <1>13, <1>14, <1>15, <1>16, Facts
<1>19. QED
  BY <1>17, <1>18

\* While the server serves and no prune has failed, the directory exceeds its
\* cap by no more than the uploads whose own prune is still to finish: for any
\* number of concurrent POSTs to any names, listings that are stale when files
\* are removed by them, and stops of the process.
THEOREM DirectoryWithinCap == Spec => []CapHolds
<1>1. Spec => []CapInv
  BY CapStarts, CapKeeps, PTL DEF Spec
<1>2. QED
  BY <1>1, AccountedIsCapped, PTL

=============================================================================
