-------------------------- MODULE LiveBuildProofs ---------------------------
(* GitRepository and LiveBuild for any number of remotes, commits, changes    *)
(* and faults, any trees and any layers: only whole commits are built, and    *)
(* what the overlay makes of one is what its files say.                       *)
EXTENDS LiveBuild, Iteration, SequenceTheorems

-----------------------------------------------------------------------------
\* The repository on disk.

\* A Reconcile that is past the fetch has the commit; nothing but a crash, which
\* ends the Reconcile, takes away stored commits or work trees.
StoredOnceFetched == pc \in {"checkout", "build"} => local.commit \in objects

IInv == TypeOK /\ StoredOnceFetched /\ BuildsWholeCommit

LEMMA InitInv == Init => IInv
BY DEF Init, IInv, TypeOK, StoredOnceFetched, BuildsWholeCommit

LEMMA StepInv == IInv /\ [Next]_vars => IInv'
<1> SUFFICES ASSUME IInv, [Next]_vars PROVE IInv'
  OBVIOUS
<1> USE RepositoryAssumption DEF IInv, TypeOK, StoredOnceFetched, BuildsWholeCommit, Specs, world, disk
<1>1. CASE EditSpec
  BY <1>1 DEF EditSpec, Change
<1>2. CASE \E u \in Urls : Push(u)
  BY <1>2 DEF Push, Change
<1>3. CASE ChangeSecret
  BY <1>3 DEF ChangeSecret, Change
<1>4. CASE GetAuthMethod
  BY <1>4 DEF GetAuthMethod
<1>5. CASE InitGitRepository
  BY <1>5 DEF InitGitRepository, Return
<1>6. CASE OpenGitRepository
  BY <1>6 DEF OpenGitRepository
<1>7. CASE FetchCommit
  BY <1>7 DEF FetchCommit, Return
<1>8. CASE FetchFails
  BY <1>8 DEF FetchFails, Return
<1>9. CASE CreateCommitDir
  BY <1>9 DEF CreateCommitDir
<1>10. CASE CheckoutFails
  BY <1>10 DEF CheckoutFails, Return
<1>11. CASE Build
  BY <1>11 DEF Build, Return
<1>12. CASE Crash
  BY <1>12 DEF Crash, NewDisk, Return
<1>13. CASE UNCHANGED vars
  BY <1>13 DEF vars
<1>14. QED
  BY <1>1, <1>2, <1>3, <1>4, <1>5, <1>6, <1>7, <1>8, <1>9, <1>10, <1>11, <1>12, <1>13
     DEF Next, Outside, PrepareTree, Reconcile

\* A Reconcile has a spec in hand exactly while it runs, and a repository in the
\* directory as soon as it needs one, whatever errors and restarts there were.
THEOREM TypeCorrect == Spec => []TypeOK
<1>1. IInv => TypeOK
  BY DEF IInv
<1>2. QED
  BY InitInv, StepInv, <1>1, PTL DEF Spec

\* Whatever breaks off halfway, what is built is a whole commit.
THEOREM WholeCommitsAreBuilt == Spec => []BuildsWholeCommit
<1>1. IInv => BuildsWholeCommit
  BY DEF IInv
<1>2. QED
  BY InitInv, StepInv, <1>1, PTL DEF Spec

-----------------------------------------------------------------------------
\* Paths, element by element.

LEMMA PrefixIs ==
  ASSUME NEW s \in Paths, NEW t \in Paths
  PROVE  IsPrefix(s, t) <=> Len(s) <= Len(t) /\ \A i \in 1..Len(s) : s[i] = t[i]
<1>1. /\ Len(s) \in Nat /\ Len(t) \in Nat
      /\ \A i \in 1..Len(s) : s[i] \in Names
      /\ \A i \in 1..Len(t) : t[i] \in Names
  BY DEF Paths
<1> SUFFICES ASSUME Len(s) <= Len(t)
             PROVE  SubSeq(s, 1, Len(s)) = SubSeq(t, 1, Len(s)) <=> \A i \in 1..Len(s) : s[i] = t[i]
  BY DEF IsPrefix
<1>2. SubSeq(s, 1, Len(s)) = s
  BY SubSeqFull DEF Paths
<1> DEFINE u == SubSeq(t, 1, Len(s))
<1>3. u \in Paths /\ Len(u) = Len(s) /\ \A i \in 1..Len(s) : u[i] = t[i]
  <2>1. Len(s) \in Int /\ 1 \in Int /\ \A i \in 1..Len(s) : t[i] \in Names
    BY <1>1
  <2>2. QED
    BY <1>1, <2>1, SubSeqProperties DEF Paths
<1> HIDE DEF u
<1>4. (\A i \in 1..Len(s) : s[i] = u[i]) => s = u
  BY <1>3, SeqEqual DEF Paths
<1>5. QED
  BY <1>2, <1>3, <1>4 DEF u

LEMMA PrefixReflexive ==
  ASSUME NEW s \in Paths
  PROVE  IsPrefix(s, s)
BY PrefixIs DEF Paths

LEMMA PrefixTransitive ==
  ASSUME NEW s \in Paths, NEW t \in Paths, NEW u \in Paths, IsPrefix(s, t), IsPrefix(t, u)
  PROVE  IsPrefix(s, u)
<1>1. Len(s) \in Nat /\ Len(t) \in Nat /\ Len(u) \in Nat
  BY DEF Paths
<1>2. QED
  BY <1>1, PrefixIs

LEMMA PrefixAntisymmetric ==
  ASSUME NEW s \in Paths, NEW t \in Paths, IsPrefix(s, t), Len(t) <= Len(s)
  PROVE  s = t
<1>1. Len(s) \in Nat /\ Len(t) \in Nat
  BY DEF Paths
<1>2. Len(s) = Len(t) /\ \A i \in 1..Len(s) : s[i] = t[i]
  BY <1>1, PrefixIs
<1>3. QED
  BY <1>2, SeqEqual DEF Paths

LEMMA AppendIs ==
  ASSUME NEW s \in Paths, NEW x \in Names
  PROVE  /\ Append(s, x) \in Paths /\ Append(s, x) # <<>> /\ Len(Append(s, x)) = Len(s) + 1
         /\ Len(s) \in Nat
         /\ Last(Append(s, x)) = x
         /\ \A i \in 1..Len(s) : Append(s, x)[i] = s[i]
<1>1. Len(s) \in Nat
  BY DEF Paths
<1>2. /\ Append(s, x) \in Paths /\ Append(s, x) # <<>> /\ Len(Append(s, x)) = Len(s) + 1
      /\ Append(s, x)[Len(s) + 1] = x
      /\ \A i \in 1..Len(s) : Append(s, x)[i] = s[i]
  BY <1>1, AppendProperties DEF Paths
<1>3. QED
  BY <1>1, <1>2 DEF Last

LEMMA PrefixOfAppend ==
  ASSUME NEW s \in Paths, NEW t \in Paths, NEW x \in Names
  PROVE  /\ IsPrefix(s, Append(t, x)) <=> IsPrefix(s, t) \/ s = Append(t, x)
         /\ IsPrefix(Append(t, x), s) => IsPrefix(t, s)
         /\ ~ IsPrefix(Append(t, x), t)
         /\ IsStrictPrefix(t, Append(t, x))
<1> DEFINE u == Append(t, x)
<1>1. /\ u \in Paths /\ Len(u) = Len(t) + 1 /\ Len(t) \in Nat /\ Len(s) \in Nat
      /\ \A i \in 1..Len(t) : u[i] = t[i]
  BY AppendIs DEF Paths
<1> HIDE DEF u
<1>2. IsPrefix(t, u) /\ t # u
  BY <1>1, PrefixIs
<1>3. IsPrefix(s, t) => IsPrefix(s, u)
  BY <1>1, <1>2, PrefixTransitive
<1>4. s = u => IsPrefix(s, u)
  BY <1>1, PrefixReflexive
<1>5. IsPrefix(s, u) => IsPrefix(s, t) \/ s = u
  <2> SUFFICES ASSUME IsPrefix(s, u), s # u PROVE IsPrefix(s, t)
    OBVIOUS
  <2>1. Len(s) <= Len(u) /\ \A i \in 1..Len(s) : s[i] = u[i]
    BY <1>1, PrefixIs
  <2>2. ~ (Len(u) <= Len(s))
    BY <1>1, PrefixAntisymmetric
  <2>3. Len(s) <= Len(t)
    BY <1>1, <2>2
  <2>4. QED
    BY <1>1, <2>1, <2>3, PrefixIs
<1>6. IsPrefix(u, s) => IsPrefix(t, s)
  BY <1>1, <1>2, PrefixTransitive
<1>7. ~ IsPrefix(u, t)
  BY <1>1, PrefixIs
<1>8. QED
  BY <1>2, <1>3, <1>4, <1>5, <1>6, <1>7 DEF u, IsStrictPrefix

LEMMA JoinIs ==
  ASSUME NEW dir \in Paths, NEW r \in References
  PROVE  Join(dir, r) \in Paths
<1>1. /\ r.up \in Nat /\ r.down \in Paths /\ Len(dir) \in Nat
      /\ \A i \in 1..Len(dir) : dir[i] \in Names
  BY DEF References, Paths
<1>2. Len(dir) - r.up \in Int /\ 1 \in Int /\ \A i \in 1 .. Len(dir) - r.up : dir[i] \in Names
  BY <1>1
<1>3. SubSeq(dir, 1, Len(dir) - r.up) \in Paths
  BY <1>2, SubSeqProperties DEF Paths
<1>4. QED
  BY <1>1, <1>3, ConcatProperties DEF Join, Paths

\* The two ways out of the overlay's directory, and the one that stays in it.
LEMMA FrontIs ==
  ASSUME NEW p \in Paths, p # <<>>
  PROVE  /\ Front(p) \in Paths /\ Last(p) \in Names
         /\ Len(p) = Len(Front(p)) + 1 /\ Len(Front(p)) \in Nat
         /\ p = Append(Front(p), Last(p))
<1>1. Len(p) \in Nat \ {0} /\ \A i \in 1..Len(p) : p[i] \in Names
  BY EmptySeq DEF Paths
<1>2. PICK n \in Nat : n = Len(p) - 1 /\ n \in Int /\ 1 \in Int /\ \A i \in 1..n : p[i] \in Names
  BY <1>1
<1> DEFINE f == Front(p)
<1>3. f \in Paths /\ Len(f) = Len(p) - 1 /\ \A i \in 1 .. Len(p) - 1 : f[i] = p[i]
  <2>1. f = SubSeq(p, 1, n)
    BY <1>2 DEF Front
  <2> HIDE DEF f
  <2>2. f \in Paths /\ Len(f) = n /\ \A i \in 1..n : f[i] = p[i]
    BY <1>2, <2>1, SubSeqProperties DEF Paths
  <2>3. QED
    BY <1>2, <2>2
<1>4. Last(p) = p[Len(p)] /\ Last(p) \in Names
  BY <1>1 DEF Last
<1> HIDE DEF f
<1> DEFINE a == Append(f, Last(p))
<1>5. a \in Paths /\ Len(a) = Len(p) /\ \A i \in 1..Len(p) : a[i] = p[i]
  <2>1. /\ a \in Paths /\ Len(a) = Len(f) + 1 /\ a[Len(f) + 1] = Last(p)
        /\ \A i \in 1..Len(f) : a[i] = f[i]
    BY <1>3, <1>4, AppendProperties DEF Paths
  <2>2. QED
    BY <1>1, <1>3, <1>4, <2>1
<1> HIDE DEF a
<1>6. p = a
  BY <1>5, SeqEqual DEF Paths
<1>7. QED
  BY <1>1, <1>3, <1>4, <1>6 DEF f, a

LEMMA TransformDirIs ==
  ASSUME NEW base \in Paths, base # <<>>
  PROVE  /\ TransformDir(base) \in Paths /\ TransformDir(base) # <<>>
         /\ Len(TransformDir(base)) = Len(base)
         /\ Front(base) = SubSeq(TransformDir(base), 1, Len(TransformDir(base)) - 1)
<1>0. "local-config-transform" \in Names
  BY BuildAssumption
<1>1. /\ Front(base) \in Paths /\ Len(base) = Len(Front(base)) + 1
      /\ "local-config-transform" \in Names /\ Len(Front(base)) \in Nat
  BY <1>0, FrontIs
<1> DEFINE td == TransformDir(base)
           up == SubSeq(td, 1, Len(td) - 1)
<1>2. /\ td \in Paths /\ td # <<>> /\ Len(td) = Len(base) /\ Len(td) - 1 = Len(Front(base))
      /\ \A i \in 1..Len(Front(base)) : td[i] = Front(base)[i]
  BY <1>1, AppendIs DEF TransformDir
<1>3. /\ Len(td) - 1 \in Int /\ 1 \in Int
      /\ \A i \in 1 .. Len(td) - 1 : td[i] \in Names
  <2>1. \A i \in 1..Len(Front(base)) : Front(base)[i] \in Names
    BY <1>1 DEF Paths
  <2>2. QED
    BY <1>1, <1>2, <2>1
<1> HIDE DEF td
<1>4. up \in Paths /\ Len(up) = Len(Front(base)) /\ \A i \in 1..Len(Front(base)) : up[i] = td[i]
  BY <1>1, <1>2, <1>3, SubSeqProperties DEF Paths
<1>5. up = Front(base)
  BY <1>1, <1>2, <1>4, SeqEqual DEF Paths
<1>6. QED
  BY <1>2, <1>5 DEF td

LEMMA ToBase ==
  ASSUME NEW base \in Paths, base # <<>>
  PROVE  Join(TransformDir(base), [up |-> 1, down |-> <<Last(base)>>]) = base
<1>1. /\ Front(base) \in Paths /\ Last(base) \in Names
      /\ base = Append(Front(base), Last(base))
  BY FrontIs
<1>2. Append(Front(base), Last(base)) = Front(base) \o <<Last(base)>>
  BY <1>1, AppendIsConcat DEF Paths
<1>3. QED
  BY <1>1, <1>2, TransformDirIs DEF Join

LEMMA ToFile ==
  ASSUME NEW dir \in Paths, NEW name \in Names
  PROVE  Join(dir, [up |-> 0, down |-> <<name>>]) = Append(dir, name)
<1>1. Len(dir) - 0 = Len(dir)
  BY DEF Paths
<1>2. SubSeq(dir, 1, Len(dir)) = dir
  BY SubSeqFull DEF Paths
<1>3. QED
  BY <1>1, <1>2, AppendIsConcat DEF Join, Paths

LEMMA CommonPrefix ==
  ASSUME NEW s \in Paths, NEW t \in Paths
  PROVE  LET c == LongestCommonPrefix({s, t}) IN
         c \in Paths /\ IsPrefix(c, s) /\ IsPrefix(c, t)
<1> DEFINE C == CommonPrefixes({s, t})
<1>1. ASSUME NEW p \in C PROVE p \in Paths /\ IsPrefix(p, s) /\ IsPrefix(p, t)
  <2>1. PICK q \in {s, t} : p \in Prefixes(q)
    BY DEF CommonPrefixes
  <2>2. PICK l \in 0..Len(q) : p = SubSeq(q, 1, l)
    BY <2>1 DEF Prefixes
  <2>3. q \in Paths /\ Len(q) \in Nat /\ \A i \in 1..Len(q) : q[i] \in Names
    BY DEF Paths
  <2>4. l \in Int /\ 1 \in Int /\ \A i \in 1..l : q[i] \in Names
    BY <2>3
  <2>5. p \in Paths
    BY <2>2, <2>4, SubSeqProperties DEF Paths
  <2>6. QED
    BY <2>5 DEF CommonPrefixes
<1>2. <<>> \in C
  <2>1. <<>> \in Paths /\ Len(<<>>) = 0 /\ Len(s) \in Nat /\ Len(t) \in Nat
    BY EmptySeq DEF Paths
  <2>2. IsPrefix(<<>>, s) /\ IsPrefix(<<>>, t)
    BY <2>1, PrefixIs
  <2>3. 0 \in 0..Len(s) /\ <<>> = SubSeq(s, 1, 0)
    BY <2>1, SubSeqEmpty
  <2>4. <<>> \in Prefixes(s)
    BY <2>3 DEF Prefixes
  <2>5. QED
    BY <2>2, <2>4 DEF CommonPrefixes
<1> DEFINE T == {Len(p) : p \in C}
<1>3. /\ T \subseteq Nat /\ T # {} /\ Len(s) \in Nat
      /\ \A y \in T : y <= Len(s)
  <2> HIDE DEF C
  <2>1. ASSUME NEW p \in C PROVE Len(p) \in Nat /\ Len(p) <= Len(s)
    <3>1. p \in Paths /\ IsPrefix(p, s)
      BY <1>1
    <3>2. Len(p) <= Len(s)
      BY <3>1, PrefixIs
    <3>3. QED
      BY <3>1, <3>2 DEF Paths
  <2>2. Len(s) \in Nat
    BY DEF Paths
  <2>3. QED
    BY <1>2, <2>1, <2>2
<1>4. PICK n \in T : \A y \in T : y <= n
  <2> HIDE DEF T
  <2>1. QED
    BY <1>3, GreatestNumber
<1>5. \E p \in C : \A q \in C : Len(q) <= Len(p)
  <2> HIDE DEF C
  <2>1. PICK p \in C : n = Len(p)
    BY <1>4
  <2>2. QED
    BY <1>4, <2>1
<1>6. LongestCommonPrefix({s, t}) \in C
  <2>1. LongestCommonPrefix({s, t}) = CHOOSE p \in C : \A q \in C : Len(q) <= Len(p)
    BY DEF LongestCommonPrefix
  <2> HIDE DEF C
  <2>2. QED
    BY <1>5, <2>1
<1>7. QED
  BY <1>1, <1>6

\* filepath.Rel leads to where it should.
LEMMA RelLeadsThere ==
  ASSUME NEW dir \in Paths, NEW path \in Paths
  PROVE  Rel(dir, path) \in References /\ Join(dir, Rel(dir, path)) = path
<1> DEFINE common == LongestCommonPrefix({dir, path})
           c      == Len(common)
           down   == SubSeq(path, c + 1, Len(path))
<1>1. common \in Paths /\ IsPrefix(common, dir) /\ IsPrefix(common, path)
  BY CommonPrefix
<1> HIDE DEF common
<1>2. /\ Len(common) \in Nat /\ Len(dir) \in Nat /\ Len(path) \in Nat
      /\ Len(common) <= Len(dir) /\ Len(common) <= Len(path)
  BY <1>1, PrefixIs DEF Paths
<1> HIDE DEF c
<1>3. c \in Nat /\ c <= Len(dir) /\ c <= Len(path)
  BY <1>2 DEF c
<1>4. \A i \in 1..Len(path) : path[i] \in Names
  BY DEF Paths
<1>5. down \in Paths
  <2>1. c + 1 \in Int /\ Len(path) \in Int /\ \A i \in c + 1 .. Len(path) : path[i] \in Names
    BY <1>2, <1>3, <1>4
  <2>2. QED
    BY <2>1, SubSeqProperties DEF Paths
<1>6. SubSeq(dir, 1, c) = SubSeq(path, 1, c)
  <2>1. common = SubSeq(common, 1, c)
    BY <1>1, SubSeqFull DEF Paths, c
  <2>2. SubSeq(dir, 1, c) = SubSeq(common, 1, c) /\ SubSeq(path, 1, c) = SubSeq(common, 1, c)
    BY <1>1 DEF IsPrefix, c
  <2>3. QED
    BY <2>2
<1>7. SubSeq(path, 1, c) \o down = path
  <2>1. /\ path \in Seq(Names) /\ 1 \in 1 .. Len(path) + 1
        /\ c \in 1 - 1 .. Len(path) /\ Len(path) \in c .. Len(path)
    BY <1>2, <1>3 DEF Paths
  <2>2. SubSeq(path, 1, c) \o SubSeq(path, c + 1, Len(path)) = SubSeq(path, 1, Len(path))
    BY <2>1, ConcatAdjacentSubSeq
  <2>3. SubSeq(path, 1, Len(path)) = path
    BY SubSeqFull DEF Paths
  <2>4. QED
    BY <2>2, <2>3
<1>8. Rel(dir, path) = [up |-> Len(dir) - c, down |-> down]
  BY DEF Rel, c, common
<1>9. Len(dir) - c \in Nat /\ Len(dir) - (Len(dir) - c) = c
  BY <1>2, <1>3
<1> HIDE DEF down
<1>10. QED
  BY <1>5, <1>6, <1>7, <1>8, <1>9 DEF Join, References

-----------------------------------------------------------------------------
\* File systems.

LEMMA ErrorIs == Error \in Objects /\ Error.kind = "Error" /\ Error.id = "error" /\ ~Error.local
BY BuildAssumption DEF Error, Object, Objects, Kinds

LEMMA DiskIs ==
  ASSUME NEW commit \in Commits, NEW state
  PROVE  IsFileSystem(Disk(commit, state))
<1> DEFINE D == Disk(commit, state)
           files == {f \in DOMAIN Trees[commit] :
                      state = "complete" \/ (state = "partial" /\ Last(f) \in KustomizationNames)}
<1> SUFFICES ASSUME NEW f \in DOMAIN D
             PROVE  /\ f \in Paths /\ f # <<>>
                    /\ IF Last(f) \in KustomizationNames THEN D[f] \in Kustomizations
                                                         ELSE D[f] \in SUBSET Objects
  BY DEF IsFileSystem
<1>1. D = [g \in {<<commit>> \o h : h \in files} |-> Trees[commit][Tail(g)]]
  BY DEF Disk
<1>2. PICK g \in files : f = <<commit>> \o g
  BY <1>1
<1>3. /\ g \in Paths /\ g # <<>>
      /\ IF Last(g) \in KustomizationNames THEN Trees[commit][g] \in Kustomizations
                                           ELSE Trees[commit][g] \in SUBSET Objects
  BY BuildAssumption DEF IsFileSystem
<1>4. commit \in Names /\ <<commit>> \in Seq(Names) /\ Len(<<commit>>) = 1
  BY BuildAssumption
<1>5. /\ f \in Paths /\ Len(f) = 1 + Len(g) /\ Len(g) \in Nat \ {0}
      /\ \A i \in 1 .. 1 + Len(g) : f[i] = IF i <= 1 THEN <<commit>>[i] ELSE g[i - 1]
  BY <1>2, <1>3, <1>4, ConcatProperties, EmptySeq DEF Paths
<1>6. f # <<>> /\ Last(f) = Last(g)
  BY <1>5, EmptySeq DEF Last
<1>7. Tail(f) = g
  <2>1. Tail(f) \in Paths /\ Len(Tail(f)) = Len(g) /\ \A i \in 1..Len(g) : Tail(f)[i] = f[i + 1]
    BY <1>5, <1>6, HeadTailProperties DEF Paths
  <2>2. \A i \in 1..Len(g) : Tail(f)[i] = g[i]
    BY <1>5, <2>1
  <2>3. QED
    BY <1>3, <2>1, <2>2, SeqEqual DEF Paths
<1>8. D[f] = Trees[commit][g]
  BY <1>1, <1>7
<1> HIDE DEF D
<1>9. QED
  BY <1>3, <1>5, <1>6, <1>8

-----------------------------------------------------------------------------
\* What kustomize makes of them is objects.

\* Transformers keep the names of objects, and whether they are local.
LEMMA TransformIs ==
  ASSUME NEW objs \in SUBSET Objects, NEW transformers \in SUBSET Objects
  PROVE  /\ Transform(objs, transformers) \in SUBSET Objects
         /\ \/ Transform(objs, transformers) = {Error}
            \/ \A o \in Transform(objs, transformers) :
                 \E p \in objs : o.id = p.id /\ o.local = p.local
<1> DEFINE sources == {o \in objs : o.kind = "Live"}
           source  == CHOOSE l \in sources : TRUE
           new(o)  == IF o.kind = "Pod" THEN [o EXCEPT !.data = source.data] ELSE o
<1>1. \/ Transform(objs, transformers) = objs
      \/ Transform(objs, transformers) = {Error}
      \/ Singleton(sources) /\ Transform(objs, transformers) = {new(o) : o \in objs}
  BY DEF Transform
<1>2. ASSUME Singleton(sources), NEW o \in objs
      PROVE  new(o) \in Objects /\ new(o).id = o.id /\ new(o).local = o.local
  <2>1. sources # {}
    BY <1>2 DEF Singleton
  <2>2. source \in sources
    BY <2>1
  <2>3. source.data \in Commits \cup {None}
    BY <2>2 DEF Objects
  <2> HIDE DEF source
  <2>4. QED
    BY <2>3 DEF Objects
<1> HIDE DEF new, sources
<1>3. {Error} \in SUBSET Objects
  BY ErrorIs
<1>4. QED
  BY <1>1, <1>2, <1>3

LEMMA CombineIs ==
  ASSUME NEW resources \in SUBSET Objects, NEW transformers \in SUBSET Objects
  PROVE  /\ Combine(resources, transformers) \in SUBSET Objects
         /\ Error \in resources \/ Error \in transformers =>
              Combine(resources, transformers) = {Error}
         /\ \/ Combine(resources, transformers) = {Error}
            \/ \A o \in Combine(resources, transformers) :
                 \E p \in resources : o.id = p.id /\ o.local = p.local
<1>1. Error \in transformers => Transform(resources, transformers) = {Error}
  BY ErrorIs DEF Transform
<1>2. QED
  BY <1>1, ErrorIs, TransformIs DEF Combine, Failed

LEMMA MergeIs ==
  ASSUME NEW R, NEW parts \in [R -> SUBSET Objects]
  PROVE  Merge(parts) \in SUBSET Objects
BY ErrorIs DEF Merge

\* What the directories below amount to.
Contents == [Paths -> [SUBSET Paths -> SUBSET Objects]]

LEMMA LoadIs ==
  ASSUME NEW fs, IsFileSystem(fs), NEW below \in Contents,
         NEW dir \in Paths, NEW visited \in SUBSET Paths, NEW path \in Paths
  PROVE  Load(fs, below, dir, visited, path) \in SUBSET Objects
<1>1. below[path][visited \cup {dir}] \in SUBSET Objects
  BY DEF Contents
<1>2. path \in DOMAIN fs /\ Last(path) \notin KustomizationNames => fs[path] \in SUBSET Objects
  BY DEF IsFileSystem
<1>3. {Error} \in SUBSET Objects
  BY ErrorIs
<1>4. QED
  BY <1>1, <1>2, <1>3 DEF Load

\* What a directory's kustomization refers to.
LoadAll(fs, below, dir, visited, refs) ==
  Merge([r \in refs |-> Load(fs, below, dir, visited, Join(dir, r))])

KustomizationsOf(fs, dir) == {n \in KustomizationNames : Append(dir, n) \in DOMAIN fs}
KustomizationOf(fs, dir) == fs[Append(dir, CHOOSE n \in KustomizationsOf(fs, dir) : TRUE)]

LEMMA AccumulateDirIs ==
  ASSUME NEW fs, NEW below, NEW dir, NEW visited
  PROVE  AccumulateDir(fs, below, dir, visited) =
           IF (\E v \in visited : IsPrefix(dir, v)) \/ ~Singleton(KustomizationsOf(fs, dir))
           THEN {Error}
           ELSE Combine(LoadAll(fs, below, dir, visited, KustomizationOf(fs, dir).resources),
                        LoadAll(fs, below, dir, visited, KustomizationOf(fs, dir).transformers))
BY DEF AccumulateDir, KustomizationsOf, KustomizationOf, LoadAll

LEMMA LoadAllIs ==
  ASSUME NEW fs, IsFileSystem(fs), NEW below \in Contents,
         NEW dir \in Paths, NEW visited \in SUBSET Paths, NEW refs \in SUBSET References
  PROVE  LoadAll(fs, below, dir, visited, refs) \in SUBSET Objects
<1> DEFINE parts == [r \in refs |-> Load(fs, below, dir, visited, Join(dir, r))]
<1>1. ASSUME NEW r \in refs
      PROVE  Load(fs, below, dir, visited, Join(dir, r)) \in SUBSET Objects
  BY JoinIs, LoadIs
<1>2. parts \in [refs -> SUBSET Objects]
  BY <1>1
<1> HIDE DEF parts
<1>3. Merge(parts) \in SUBSET Objects
  BY <1>2, MergeIs
<1>4. QED
  BY <1>3 DEF parts, LoadAll

LEMMA KustomizationIs ==
  ASSUME NEW fs, IsFileSystem(fs), NEW dir \in Paths, Singleton(KustomizationsOf(fs, dir))
  PROVE  /\ KustomizationOf(fs, dir) \in Kustomizations
         /\ KustomizationOf(fs, dir).resources \in SUBSET References
         /\ KustomizationOf(fs, dir).transformers \in SUBSET References
<1> DEFINE n == CHOOSE n \in KustomizationsOf(fs, dir) : TRUE
<1>1. n \in KustomizationsOf(fs, dir)
  <2>1. KustomizationsOf(fs, dir) # {}
    BY DEF Singleton
  <2> HIDE DEF KustomizationsOf
  <2>2. QED
    BY <2>1
<1> HIDE DEF n
<1>2. n \in KustomizationNames /\ Append(dir, n) \in DOMAIN fs /\ n \in Names
  BY <1>1, BuildAssumption DEF KustomizationsOf
<1>3. Last(Append(dir, n)) = n
  BY <1>2, AppendIs
<1>4. fs[Append(dir, n)] \in Kustomizations
  BY <1>2, <1>3 DEF IsFileSystem
<1>5. QED
  BY <1>4 DEF KustomizationOf, n, Kustomizations

LEMMA AccumulateDirTyped ==
  ASSUME NEW fs, IsFileSystem(fs), NEW below \in Contents,
         NEW dir \in Paths, NEW visited \in SUBSET Paths
  PROVE  AccumulateDir(fs, below, dir, visited) \in SUBSET Objects
<1> DEFINE k == KustomizationOf(fs, dir)
           resources == LoadAll(fs, below, dir, visited, k.resources)
           transformers == LoadAll(fs, below, dir, visited, k.transformers)
<1>1. CASE Singleton(KustomizationsOf(fs, dir))
  <2>1. k.resources \in SUBSET References /\ k.transformers \in SUBSET References
    BY <1>1, KustomizationIs
  <2> HIDE DEF k
  <2>2. resources \in SUBSET Objects /\ transformers \in SUBSET Objects
    BY <2>1, LoadAllIs
  <2> HIDE DEF resources, transformers
  <2>3. Combine(resources, transformers) \in SUBSET Objects
    BY <2>2, CombineIs
  <2>4. QED
    BY <2>3, AccumulateDirIs, ErrorIs DEF resources, transformers, k
<1>2. CASE ~Singleton(KustomizationsOf(fs, dir))
  BY <1>2, AccumulateDirIs, ErrorIs
<1>3. QED
  BY <1>1, <1>2

\* Accumulate is one pass over the directories after the other.
NoContents == [dir \in Paths |-> [visited \in SUBSET Paths |-> {Error}]]
Pass(fs, below) ==
  [dir \in Paths |-> [visited \in SUBSET Paths |-> AccumulateDir(fs, below, dir, visited)]]

LEMMA AccumulateIs ==
  ASSUME NEW fs, IsFileSystem(fs)
  PROVE  /\ Accumulate(fs) \in [Nat -> Contents]
         /\ Accumulate(fs)[0] = NoContents
         /\ \A n \in Nat : Accumulate(fs)[n + 1] = Pass(fs, Accumulate(fs)[n])
<1> DEFINE step == [below \in Contents |-> Pass(fs, below)]
<1>1. NoContents \in Contents
  BY ErrorIs DEF NoContents, Contents
<1>2. ASSUME NEW below \in Contents PROVE Pass(fs, below) \in Contents
  <2>1. \A dir \in Paths, visited \in SUBSET Paths :
          AccumulateDir(fs, below, dir, visited) \in SUBSET Objects
    BY AccumulateDirTyped
  <2> HIDE DEF Contents
  <2>2. QED
    BY <2>1 DEF Pass, Contents
<1>3. step \in [Contents -> Contents]
  BY <1>2
<1>4. PICK f \in [Nat -> Contents] :
        f[0] = NoContents /\ \A n \in Nat \ {0} : f[n] = step[f[n - 1]]
  <2> HIDE DEF step, Contents
  <2>1. QED
    BY <1>1, <1>3, IterationExists
<1>5. ASSUME NEW n \in Nat, n # 0 PROVE f[n] = Pass(fs, f[n - 1])
  <2>1. n - 1 \in Nat /\ f[n - 1] \in Contents
    BY <1>5
  <2>2. QED
    BY <1>4, <1>5, <2>1
<1>6. f = [n \in Nat |-> IF n = 0 THEN NoContents ELSE Pass(fs, f[n - 1])]
  BY <1>4, <1>5
<1>7. Accumulate(fs) = CHOOSE a : a = [n \in Nat |-> IF n = 0 THEN NoContents
                                                        ELSE Pass(fs, a[n - 1])]
  BY DEF Accumulate, NoContents, Pass
<1>8. Accumulate(fs) = [n \in Nat |-> IF n = 0 THEN NoContents
                                              ELSE Pass(fs, Accumulate(fs)[n - 1])]
  BY <1>6, <1>7
<1> DEFINE a == Accumulate(fs)
<1> HIDE DEF a
<1>9. a[0] = NoContents /\ \A n \in Nat : a[n + 1] = Pass(fs, a[n])
  <2>1. a = [n \in Nat |-> IF n = 0 THEN NoContents ELSE Pass(fs, a[n - 1])]
    BY <1>8 DEF a
  <2>2. QED
    BY <2>1
<1>10. a \in [Nat -> Contents]
  <2>1. a = [n \in Nat |-> a[n]]
    BY <1>8 DEF a
  <2> DEFINE S == {n \in Nat : a[n] \in Contents}
  <2>2. 0 \in S
    BY <1>1, <1>9
  <2>3. \A n \in Nat : n \in S => n + 1 \in S
    BY <1>2, <1>9
  <2>4. Nat \subseteq S
    <3> HIDE DEF S
    <3>1. QED
      BY <2>2, <2>3, SetInduction
  <2>5. QED
    BY <2>1, <2>4
<1>11. QED
  BY <1>9, <1>10 DEF a

LEMMA AccumulatedFirst ==
  ASSUME NEW fs, IsFileSystem(fs), NEW dir \in Paths, NEW visited \in SUBSET Paths
  PROVE  Accumulate(fs)[0][dir][visited] = {Error}
<1>1. NoContents[dir][visited] = {Error}
  BY DEF NoContents
<1>2. QED
  BY <1>1, AccumulateIs

LEMMA AccumulatedNext ==
  ASSUME NEW fs, IsFileSystem(fs), NEW n \in Nat, NEW dir \in Paths, NEW visited \in SUBSET Paths
  PROVE  Accumulate(fs)[n + 1][dir][visited]
           = AccumulateDir(fs, Accumulate(fs)[n], dir, visited)
<1> DEFINE below == Accumulate(fs)[n]
<1>1. Accumulate(fs)[n + 1] = Pass(fs, below)
  BY AccumulateIs
<1> HIDE DEF below
<1>2. Pass(fs, below)[dir][visited] = AccumulateDir(fs, below, dir, visited)
  BY DEF Pass
<1>3. QED
  BY <1>1, <1>2 DEF below

\* Kustomize reports a directory that contains one that refers to it, and one
\* without a kustomization, however far it looks.
LEMMA NothingToAccumulate ==
  ASSUME NEW fs, IsFileSystem(fs), NEW n \in Nat, NEW dir \in Paths, NEW visited \in SUBSET Paths,
         (\E v \in visited : IsPrefix(dir, v)) \/ KustomizationsOf(fs, dir) = {}
  PROVE  Accumulate(fs)[n][dir][visited] = {Error}
<1>1. CASE n = 0
  BY <1>1, AccumulatedFirst
<1>2. CASE n # 0
  <2>1. n - 1 \in Nat /\ (n - 1) + 1 = n
    BY <1>2
  <2>2. Accumulate(fs)[n][dir][visited] = AccumulateDir(fs, Accumulate(fs)[n - 1], dir, visited)
    BY <2>1, AccumulatedNext
  <2>3. KustomizationsOf(fs, dir) = {} => ~Singleton(KustomizationsOf(fs, dir))
    BY DEF Singleton
  <2>4. QED
    BY <2>2, <2>3, AccumulateDirIs
<1>3. QED
  BY <1>1, <1>2

-----------------------------------------------------------------------------
\* The overlay's files before those of a work tree.

OverlayNames == {"kustomization.yaml", "local-config.yaml"}
IsOverlay(upper, td) ==
  IsFileSystem(upper) /\ DOMAIN upper = {Append(td, name) : name \in OverlayNames}

\* Is there anything on disk where the overlay puts its files, or a second
\* kustomization beside them?
InTheWay(lower, td) ==
  \E name \in KustomizationNames \cup {"local-config.yaml"} : Exists(lower, Append(td, name))

\* The same, or an error that comes of something in the way.
Agree(x, y, inTheWay) == x = y \/ (inTheWay /\ x = {Error})

LEMMA NamesAre ==
  /\ \A name \in KustomizationNames \cup OverlayNames : name \in Names
  /\ "local-config-transform" \in Names
BY BuildAssumption DEF OverlayNames, KustomizationNames

\* The overlay hides its own two files and what is on the way to them.
LEMMA LayeredIs ==
  ASSUME NEW td \in Paths, NEW upper, IsOverlay(upper, td),
         NEW lower, IsFileSystem(lower), NEW path \in Paths
  PROVE  LET both == Layered(upper, lower) IN
         /\ path \in DOMAIN upper => /\ path \in DOMAIN both /\ both[path] = upper[path]
                                     /\ ~IsPrefix(path, td)
         /\ IsPrefix(path, td) => path \notin DOMAIN both
         /\ path \notin DOMAIN upper /\ ~IsPrefix(path, td) =>
              /\ path \in DOMAIN both <=> path \in DOMAIN lower
              /\ path \in DOMAIN both => both[path] = lower[path]
<1>1. ASSUME NEW name \in OverlayNames
      PROVE  /\ IsPrefix(path, Append(td, name)) <=> IsPrefix(path, td) \/ path = Append(td, name)
             /\ ~IsPrefix(Append(td, name), td)
  BY NamesAre, PrefixOfAppend
<1>2. DOMAIN upper = {Append(td, name) : name \in OverlayNames}
  BY DEF IsOverlay
<1>3. path \in DOMAIN upper => ~IsPrefix(path, td)
  BY <1>1, <1>2
<1>4. Exists(upper, path) <=> IsPrefix(path, td) \/ path \in DOMAIN upper
  <2>1. "kustomization.yaml" \in OverlayNames
    BY DEF OverlayNames
  <2> HIDE DEF OverlayNames
  <2>2. QED
    BY <1>1, <1>2, <2>1 DEF Exists
<1> DEFINE both == Layered(upper, lower)
<1>5. /\ DOMAIN both = DOMAIN upper \cup {g \in DOMAIN lower : ~Exists(upper, g)}
      /\ \A f \in DOMAIN both : both[f] = IF f \in DOMAIN upper THEN upper[f] ELSE lower[f]
  BY DEF Layered
<1> HIDE DEF both
<1>6. QED
  BY <1>3, <1>4, <1>5 DEF both

LEMMA LayeredTyped ==
  ASSUME NEW upper, IsFileSystem(upper), NEW lower, IsFileSystem(lower)
  PROVE  IsFileSystem(Layered(upper, lower))
BY DEF IsFileSystem, Layered

\* A reference is an error in both, or stands for the same in both.
LEMMA LoadAgrees ==
  ASSUME NEW td \in Paths, NEW upper, IsOverlay(upper, td), NEW lower, IsFileSystem(lower),
         NEW n \in Nat, NEW dir \in Paths, NEW visited \in SUBSET Paths, NEW path \in Paths,
         td \in visited \cup {dir},
         IsPrefix(dir, td) => dir = td /\ path \notin DOMAIN upper,
         path \notin DOMAIN upper =>
           Agree(Accumulate(Layered(upper, lower))[n][path][visited \cup {dir}],
                 Accumulate(lower)[n][path][visited \cup {dir}], InTheWay(lower, td))
  PROVE  Agree(Load(Layered(upper, lower), Accumulate(Layered(upper, lower))[n],
                    dir, visited, path),
               Load(lower, Accumulate(lower)[n], dir, visited, path), InTheWay(lower, td))
<1> DEFINE both  == Layered(upper, lower)
           whole == Accumulate(lower)[n][path][visited \cup {dir}]
           layered == Accumulate(both)[n][path][visited \cup {dir}]
           L == Load(both, Accumulate(both)[n], dir, visited, path)
           W == Load(lower, Accumulate(lower)[n], dir, visited, path)
<1>1. IsFileSystem(both) /\ visited \cup {dir} \in SUBSET Paths
  BY LayeredTyped DEF IsOverlay
<1>2. /\ path \notin DOMAIN both => L = layered
      /\ path \notin DOMAIN lower => W = whole
      /\ path \in DOMAIN both /\ ~IsStrictPrefix(dir, path) => L = {Error}
      /\ path \in DOMAIN lower /\ ~IsStrictPrefix(dir, path) => W = {Error}
  BY DEF Load
<1>3. CASE IsPrefix(path, td)
  <2>1. layered = {Error} /\ whole = {Error}
    BY <1>1, <1>3, NothingToAccumulate
  <2>2. path \notin DOMAIN both
    BY LayeredIs, <1>3
  <2>3. ~IsStrictPrefix(dir, path)
    <3> SUFFICES ASSUME IsPrefix(dir, path) PROVE dir = path
      BY DEF IsStrictPrefix
    <3>1. IsPrefix(dir, td)
      BY <1>3, PrefixTransitive
    <3>2. dir = td
      BY <3>1
    <3>3. Len(path) <= Len(dir)
      BY <1>3, <3>2, PrefixIs
    <3>4. QED
      BY <3>3, PrefixAntisymmetric
  <2>4. QED
    BY <1>2, <2>1, <2>2, <2>3 DEF Agree
<1>4. CASE path \notin DOMAIN upper /\ ~IsPrefix(path, td)
  <2>1. /\ path \in DOMAIN both <=> path \in DOMAIN lower
        /\ path \in DOMAIN both => both[path] = lower[path]
    BY <1>4, LayeredIs
  <2>2. path \in DOMAIN both => L = W
    BY <2>1 DEF Load
  <2>3. path \notin DOMAIN both => Agree(layered, whole, InTheWay(lower, td))
    BY <1>4
  <2> HIDE DEF L, W, both, layered, whole
  <2>4. QED
    BY <1>2, <2>1, <2>2, <2>3 DEF Agree, L, W, both
<1>5. CASE path \in DOMAIN upper
  <2>1. PICK name \in OverlayNames : path = Append(td, name)
    BY <1>5 DEF IsOverlay
  <2>2. ~IsStrictPrefix(dir, path)
    BY <1>5, <2>1, NamesAre, PrefixOfAppend DEF IsStrictPrefix
  <2>3. L = {Error}
    BY <1>2, <1>5, <2>2, LayeredIs
  <2>4. W = {Error} \/ InTheWay(lower, td)
    <3> SUFFICES ASSUME path \notin DOMAIN lower, W # {Error} PROVE InTheWay(lower, td)
      BY <1>2, <2>2
    <3>1. whole # {Error}
      BY <1>2
    <3>2. KustomizationsOf(lower, path) # {}
      BY <1>1, <3>1, NothingToAccumulate
    <3>3. PICK k \in KustomizationNames : Append(path, k) \in DOMAIN lower
      BY <3>2 DEF KustomizationsOf
    <3>4. IsPrefix(path, Append(path, k))
      BY NamesAre, PrefixOfAppend DEF IsStrictPrefix
    <3>5. QED
      BY <2>1, <3>3, <3>4 DEF InTheWay, Exists, OverlayNames, KustomizationNames
  <2>5. QED
    BY <2>3, <2>4 DEF Agree
<1>6. QED
  BY <1>3, <1>4, <1>5

LEMMA MergeAgrees ==
  ASSUME NEW R, NEW p, DOMAIN p = R, NEW q, DOMAIN q = R, NEW inTheWay \in BOOLEAN,
         \A r \in R : Agree(p[r], q[r], inTheWay),
         p = [r \in R |-> p[r]], q = [r \in R |-> q[r]]
  PROVE  Merge(p) = Merge(q) \/ (inTheWay /\ Error \in Merge(p))
<1>1. CASE \A r \in R : p[r] = q[r]
  <2>1. p = q
    BY <1>1
  <2>2. QED
    BY <2>1
<1>2. CASE \E r \in R : p[r] # q[r]
  <2>1. PICK r \in R : inTheWay /\ p[r] = {Error}
    BY <1>2 DEF Agree
  <2>2. Error \in UNION {p[x] : x \in DOMAIN p}
    BY <2>1
  <2>3. Error \in Merge(p)
    BY <2>2 DEF Merge
  <2>4. QED
    BY <2>1, <2>3
<1>3. QED
  BY <1>1, <1>2

LEMMA LoadAllAgrees ==
  ASSUME NEW td \in Paths, NEW upper, IsOverlay(upper, td), NEW lower, IsFileSystem(lower),
         NEW n \in Nat, NEW dir \in Paths, NEW visited \in SUBSET Paths,
         NEW refs \in SUBSET References,
         td \in visited, ~IsPrefix(dir, td),
         \A path \in Paths \ DOMAIN upper :
           Agree(Accumulate(Layered(upper, lower))[n][path][visited \cup {dir}],
                 Accumulate(lower)[n][path][visited \cup {dir}], InTheWay(lower, td))
  PROVE  LET all == LoadAll(Layered(upper, lower), Accumulate(Layered(upper, lower))[n],
                            dir, visited, refs)
         IN  all = LoadAll(lower, Accumulate(lower)[n], dir, visited, refs)
             \/ (InTheWay(lower, td) /\ Error \in all)
<1> DEFINE p == [r \in refs |-> Load(Layered(upper, lower), Accumulate(Layered(upper, lower))[n],
                                     dir, visited, Join(dir, r))]
           q == [r \in refs |-> Load(lower, Accumulate(lower)[n], dir, visited, Join(dir, r))]
           inTheWay == InTheWay(lower, td)
<1>1. ASSUME NEW r \in refs PROVE Agree(p[r], q[r], inTheWay)
  <2> DEFINE path == Join(dir, r)
  <2>1. path \in Paths
    BY JoinIs
  <2> HIDE DEF path
  <2>2. Agree(Load(Layered(upper, lower), Accumulate(Layered(upper, lower))[n],
                   dir, visited, path),
              Load(lower, Accumulate(lower)[n], dir, visited, path), InTheWay(lower, td))
    BY <2>1, LoadAgrees
  <2>3. QED
    BY <2>2 DEF path
<1>2. DOMAIN p = refs /\ DOMAIN q = refs /\ p = [r \in refs |-> p[r]] /\ q = [r \in refs |-> q[r]]
  OBVIOUS
<1>3. inTheWay \in BOOLEAN
  BY DEF InTheWay
<1> HIDE DEF p, q, inTheWay
<1>4. Merge(p) = Merge(q) \/ (inTheWay /\ Error \in Merge(p))
  BY <1>1, <1>2, <1>3, MergeAgrees
<1>5. QED
  BY <1>4 DEF p, q, inTheWay, LoadAll

\* A directory next to the overlay, or further off, amounts to the same.
LEMMA AccumulateAgrees ==
  ASSUME NEW td \in Paths, NEW upper, IsOverlay(upper, td), NEW lower, IsFileSystem(lower),
         NEW n \in Nat, NEW dir \in Paths, dir \notin DOMAIN upper,
         NEW visited \in SUBSET Paths, td \in visited
  PROVE  Agree(Accumulate(Layered(upper, lower))[n][dir][visited],
               Accumulate(lower)[n][dir][visited], InTheWay(lower, td))
<1> DEFINE both == Layered(upper, lower)
           AgreesAt(m) ==
             \A d \in Paths, v \in SUBSET Paths :
               d \notin DOMAIN upper /\ td \in v =>
                 Agree(Accumulate(both)[m][d][v], Accumulate(lower)[m][d][v], InTheWay(lower, td))
           S == {m \in Nat : AgreesAt(m)}
<1>1. IsFileSystem(both)
  BY LayeredTyped DEF IsOverlay
<1>2. 0 \in S
  <2>1. ASSUME NEW d \in Paths, NEW v \in SUBSET Paths
        PROVE  Accumulate(both)[0][d][v] = {Error} /\ Accumulate(lower)[0][d][v] = {Error}
    <3> HIDE DEF both
    <3>1. QED
      BY <1>1, AccumulatedFirst
  <2>2. QED
    BY <2>1 DEF Agree
<1>3. ASSUME NEW m \in Nat, m \in S PROVE m + 1 \in S
  <2> SUFFICES ASSUME NEW d \in Paths, NEW v \in SUBSET Paths, d \notin DOMAIN upper, td \in v
               PROVE  Agree(Accumulate(both)[m + 1][d][v], Accumulate(lower)[m + 1][d][v],
                            InTheWay(lower, td))
    OBVIOUS
  <2>1. AgreesAt(m)
    BY <1>3
  <2>2. CASE IsPrefix(d, td)
    <3>1. \E u \in v : IsPrefix(d, u)
      BY <2>2
    <3>2. m + 1 \in Nat
      OBVIOUS
    <3>3. Accumulate(both)[m + 1][d][v] = {Error} /\ Accumulate(lower)[m + 1][d][v] = {Error}
      BY <1>1, <3>1, <3>2, NothingToAccumulate
    <3>4. QED
      BY <3>3 DEF Agree
  <2>3. CASE ~IsPrefix(d, td)
    <3> DEFINE A == Accumulate(both)[m]
               B == Accumulate(lower)[m]
               k == KustomizationOf(lower, d)
               inTheWay == InTheWay(lower, td)
    <3>1. /\ Accumulate(both)[m + 1][d][v] = AccumulateDir(both, A, d, v)
          /\ Accumulate(lower)[m + 1][d][v] = AccumulateDir(lower, B, d, v)
          /\ A \in Contents /\ B \in Contents
      <4> HIDE DEF both
      <4>1. /\ Accumulate(both)[m + 1][d][v] = AccumulateDir(both, A, d, v)
            /\ Accumulate(lower)[m + 1][d][v] = AccumulateDir(lower, B, d, v)
        BY <1>1, AccumulatedNext
      <4>2. Accumulate(both) \in [Nat -> Contents] /\ Accumulate(lower) \in [Nat -> Contents]
        BY <1>1, AccumulateIs
      <4>3. QED
        BY <4>1, <4>2
    <3>2. ASSUME NEW name \in KustomizationNames
          PROVE  /\ Append(d, name) \in DOMAIN both <=> Append(d, name) \in DOMAIN lower
                 /\ Append(d, name) \in DOMAIN both =>
                      both[Append(d, name)] = lower[Append(d, name)]
      <4>1. Append(d, name) \in Paths /\ ~IsPrefix(Append(d, name), td)
        BY <2>3, NamesAre, AppendIs, PrefixOfAppend
      <4>2. Append(d, name) \notin DOMAIN upper
        <5> SUFFICES ASSUME NEW o \in OverlayNames, Append(d, name) = Append(td, o) PROVE FALSE
          BY DEF IsOverlay
        <5>1. d = td
          BY NamesAre, AppendInjective DEF Paths
        <5>2. QED
          BY <2>3, <5>1, PrefixReflexive
      <4>3. QED
        BY <4>1, <4>2, LayeredIs
    <3>3. KustomizationsOf(both, d) = KustomizationsOf(lower, d)
      BY <3>2 DEF KustomizationsOf
    <3>4. CASE (\E u \in v : IsPrefix(d, u)) \/ ~Singleton(KustomizationsOf(lower, d))
      BY <3>1, <3>3, <3>4, AccumulateDirIs DEF Agree
    <3>5. CASE ~(\E u \in v : IsPrefix(d, u)) /\ Singleton(KustomizationsOf(lower, d))
      <4>1. KustomizationOf(both, d) = k
        <5>1. KustomizationsOf(lower, d) # {}
          BY <3>5 DEF Singleton
        <5>2. (CHOOSE x \in KustomizationsOf(lower, d) : TRUE) \in KustomizationsOf(lower, d)
          <6> HIDE DEF KustomizationsOf
          <6>1. QED
            BY <5>1
        <5>3. QED
          BY <3>2, <3>3, <5>2 DEF KustomizationOf, KustomizationsOf
      <4>2. k.resources \in SUBSET References /\ k.transformers \in SUBSET References
        BY <3>5, KustomizationIs
      <4> DEFINE resources(fs, below) == LoadAll(fs, below, d, v, k.resources)
                 transformers(fs, below) == LoadAll(fs, below, d, v, k.transformers)
      <4>3. /\ AccumulateDir(both, A, d, v) = Combine(resources(both, A), transformers(both, A))
            /\ AccumulateDir(lower, B, d, v) = Combine(resources(lower, B), transformers(lower, B))
        BY <3>3, <3>5, <4>1, AccumulateDirIs
      <4>4. \A path \in Paths \ DOMAIN upper :
              Agree(A[path][v \cup {d}], B[path][v \cup {d}], inTheWay)
        BY <2>1
      <4> HIDE DEF k
      <4>5. /\ resources(both, A) = resources(lower, B)
               \/ (inTheWay /\ Error \in resources(both, A))
            /\ transformers(both, A) = transformers(lower, B)
               \/ (inTheWay /\ Error \in transformers(both, A))
        BY <2>3, <4>2, <4>4, LoadAllAgrees
      <4>6. resources(both, A) \in SUBSET Objects /\ transformers(both, A) \in SUBSET Objects
        BY <1>1, <3>1, <4>2, LoadAllIs
      <4> HIDE DEF resources, transformers, A, B, inTheWay
      <4>7. Agree(AccumulateDir(both, A, d, v), AccumulateDir(lower, B, d, v), inTheWay)
        BY <4>3, <4>5, <4>6, CombineIs DEF Agree
      <4>8. QED
        BY <3>1, <4>7 DEF A, B, inTheWay
    <3>6. QED
      BY <3>4, <3>5
  <2>4. QED
    BY <2>2, <2>3
<1>4. Nat \subseteq S
  <2> HIDE DEF S
  <2>1. QED
    BY <1>2, <1>3, SetInduction
<1>5. AgreesAt(n)
  BY <1>4
<1>6. QED
  BY <1>5

-----------------------------------------------------------------------------
\* The overlay's directory.

LEMMA LocalConfigIs ==
  ASSUME NEW commit \in Commits
  PROVE  /\ LocalConfig(commit) \in Objects /\ LocalConfig(commit).id = LiveName
         /\ LocalConfig(commit).local /\ LocalConfig(commit).kind = "Live"
BY BuildAssumption DEF LocalConfig, Object, Objects, Kinds

LEMMA OverlayIs ==
  ASSUME NEW base \in Paths, base # <<>>, NEW path \in Paths, NEW commit \in Commits
  PROVE  LET td == TransformDir(base)
             upper == OverlayFiles(base, path, commit)
         IN  /\ IsOverlay(upper, td)
             /\ upper[Append(td, "kustomization.yaml")] =
                  [resources |-> {[up |-> 1, down |-> <<Last(base)>>],
                                  [up |-> 0, down |-> <<"local-config.yaml">>]},
                   transformers |-> {Rel(td, path)}]
             /\ upper[Append(td, "local-config.yaml")] = {LocalConfig(commit)}
<1> DEFINE td == TransformDir(base)
           r1 == [up |-> 1, down |-> <<Last(base)>>]
           r2 == [up |-> 0, down |-> <<"local-config.yaml">>]
           k  == [resources |-> {r1, r2}, transformers |-> {Rel(td, path)}]
           kf == Append(td, "kustomization.yaml")
           cf == Append(td, "local-config.yaml")
           upper == OverlayFiles(base, path, commit)
<1>1. td \in Paths
  BY TransformDirIs
<1>2. "kustomization.yaml" \in Names /\ "local-config.yaml" \in Names
  BY BuildAssumption DEF KustomizationNames
<1>3. upper = [f \in {kf, cf} |->
                 IF Last(f) = "kustomization.yaml" THEN k ELSE {LocalConfig(commit)}]
  BY DEF OverlayFiles
<1> HIDE DEF upper
<1>4. k \in Kustomizations
  <2>1. <<Last(base)>> \in Paths /\ <<"local-config.yaml">> \in Paths
    BY <1>2, FrontIs DEF Paths
  <2>2. r1 \in References /\ r2 \in References
    BY <2>1 DEF References
  <2>3. Rel(td, path) \in References
    BY <1>1, RelLeadsThere
  <2> HIDE DEF r1, r2, td
  <2>4. QED
    BY <2>2, <2>3 DEF Kustomizations
<1> HIDE DEF td, k
<1>5. /\ kf \in Paths /\ kf # <<>> /\ Last(kf) = "kustomization.yaml"
      /\ cf \in Paths /\ cf # <<>> /\ Last(cf) = "local-config.yaml"
  BY <1>1, <1>2, AppendIs
<1> HIDE DEF kf, cf
<1>6. DOMAIN upper = {kf, cf} /\ upper[kf] = k /\ upper[cf] = {LocalConfig(commit)}
  BY <1>3, <1>5
<1>7. IsFileSystem(upper)
  BY <1>4, <1>5, <1>6, LocalConfigIs DEF IsFileSystem, KustomizationNames
<1>8. DOMAIN upper = {Append(td, name) : name \in OverlayNames}
  BY <1>6 DEF kf, cf, OverlayNames
<1>9. QED
  BY <1>6, <1>7, <1>8 DEF IsOverlay, td, upper, k, kf, cf

LEMMA MergeOne ==
  ASSUME NEW p, NEW a, DOMAIN p = {a}
  PROVE  Merge(p) = p[a]
BY DEF Merge

LEMMA MergeTwo ==
  ASSUME NEW p, NEW a, NEW b, a # b, DOMAIN p = {a, b}
  PROVE  Merge(p) = IF \E x \in p[a], y \in p[b] : x.id = y.id THEN {Error} ELSE p[a] \cup p[b]
<1>1. (\E i, j \in DOMAIN p : i # j /\ \E x \in p[i], y \in p[j] : x.id = y.id)
      <=> \E x \in p[a], y \in p[b] : x.id = y.id
  OBVIOUS
<1>2. UNION {p[i] : i \in DOMAIN p} = p[a] \cup p[b]
  OBVIOUS
<1>3. QED
  BY <1>1, <1>2 DEF Merge

LEMMA MergePair ==
  ASSUME NEW X, NEW Y
  PROVE  Merge(<<X, Y>>) = IF \E x \in X, y \in Y : x.id = y.id THEN {Error} ELSE X \cup Y
<1> DEFINE p == <<X, Y>>
<1>1. DOMAIN p = {1, 2} /\ p[1] = X /\ p[2] = Y
  OBVIOUS
<1> HIDE DEF p
<1>2. Merge(p) = IF \E x \in p[1], y \in p[2] : x.id = y.id THEN {Error} ELSE p[1] \cup p[2]
  BY <1>1, MergeTwo
<1>3. QED
  BY <1>1, <1>2 DEF p

\* Something that is not a transformer where one should be is an error.
LEMMA LocalConfigTransformsNothing ==
  ASSUME NEW resources \in SUBSET Objects, NEW commit \in Commits
  PROVE  Combine(resources, {LocalConfig(commit)}) = {Error}
BY LocalConfigIs DEF Combine, Transform

\* A reference to one of the overlay's files says nothing without the overlay,
\* unless something is in the way.
LEMMA NothingBehindOverlay ==
  ASSUME NEW td \in Paths, NEW upper, IsOverlay(upper, td), NEW lower, IsFileSystem(lower),
         NEW n \in Nat, NEW dir \in Paths, NEW path \in DOMAIN upper
  PROVE  Load(lower, Accumulate(lower)[n], dir, {}, path) = {Error} \/ InTheWay(lower, td)
<1> SUFFICES ASSUME ~InTheWay(lower, td)
             PROVE  Load(lower, Accumulate(lower)[n], dir, {}, path) = {Error}
  OBVIOUS
<1>1. PICK name \in OverlayNames : path = Append(td, name)
  BY DEF IsOverlay
<1>2. path \in Paths
  BY <1>1, NamesAre, AppendIs
<1>3. ASSUME NEW f \in DOMAIN lower PROVE ~IsPrefix(path, f)
  BY <1>1, <1>3 DEF InTheWay, Exists, OverlayNames, KustomizationNames
<1>4. path \notin DOMAIN lower
  BY <1>2, <1>3, PrefixReflexive
<1>5. KustomizationsOf(lower, path) = {}
  <2>1. \A k \in KustomizationNames : IsPrefix(path, Append(path, k))
    BY <1>2, NamesAre, PrefixOfAppend DEF IsStrictPrefix
  <2>2. QED
    BY <1>3, <2>1 DEF KustomizationsOf
<1>6. {} \cup {dir} \in SUBSET Paths
  OBVIOUS
<1>7. Accumulate(lower)[n][path][{} \cup {dir}] = {Error}
  BY <1>2, <1>5, <1>6, NothingToAccumulate
<1>8. QED
  BY <1>4, <1>7 DEF Load

LEMMA OverlayKustomization ==
  ASSUME NEW td \in Paths, NEW upper, IsOverlay(upper, td), NEW lower, IsFileSystem(lower)
  PROVE  LET both == Layered(upper, lower) IN
         \/ InTheWay(lower, td) /\ ~Singleton(KustomizationsOf(both, td))
         \/ /\ Singleton(KustomizationsOf(both, td))
            /\ KustomizationOf(both, td) = upper[Append(td, "kustomization.yaml")]
<1> DEFINE both == Layered(upper, lower)
           kf == Append(td, "kustomization.yaml")
           second == Append(td, "kustomization.yml")
<1>1. /\ "kustomization.yaml" \in OverlayNames /\ "kustomization.yml" \notin OverlayNames
      /\ "kustomization.yaml" # "kustomization.yml"
      /\ KustomizationNames = {"kustomization.yaml", "kustomization.yml"}
  BY DEF OverlayNames, KustomizationNames
<1>2. /\ kf \in Paths /\ second \in Paths
      /\ ~IsPrefix(second, td)
  BY <1>1, NamesAre, AppendIs, PrefixOfAppend
<1>3. kf \in DOMAIN upper /\ second \notin DOMAIN upper
  <2>1. kf \in DOMAIN upper
    BY <1>1 DEF IsOverlay
  <2>2. ASSUME NEW name \in OverlayNames, second = Append(td, name) PROVE FALSE
    <3>1. name \in Names /\ "kustomization.yml" \in Names
      BY <1>1, NamesAre
    <3>2. name = "kustomization.yml"
      BY <2>2, <3>1, AppendInjective DEF Paths
    <3>3. QED
      BY <1>1, <3>2
  <2>3. QED
    BY <2>1, <2>2 DEF IsOverlay
<1>4. /\ kf \in DOMAIN both /\ both[kf] = upper[kf]
      /\ second \in DOMAIN both <=> second \in DOMAIN lower
  BY <1>2, <1>3, LayeredIs
<1> HIDE DEF both
<1>5. CASE second \in DOMAIN both
  <2>1. InTheWay(lower, td)
    BY <1>1, <1>2, <1>4, <1>5, PrefixReflexive DEF InTheWay, Exists
  <2>2. {"kustomization.yaml", "kustomization.yml"} \subseteq KustomizationsOf(both, td)
    BY <1>1, <1>4, <1>5 DEF KustomizationsOf
  <2>3. ~Singleton(KustomizationsOf(both, td))
    <3> HIDE DEF KustomizationsOf
    <3>1. QED
      BY <1>1, <2>2 DEF Singleton
  <2>4. QED
    BY <2>1, <2>3 DEF both
<1>6. CASE second \notin DOMAIN both
  <2>1. KustomizationsOf(both, td) = {"kustomization.yaml"}
    BY <1>1, <1>4, <1>6 DEF KustomizationsOf
  <2>2. (CHOOSE n \in {"kustomization.yaml"} : TRUE) = "kustomization.yaml"
    OBVIOUS
  <2>3. KustomizationOf(both, td) = both[kf]
    BY <2>1, <2>2 DEF KustomizationOf
  <2>4. QED
    BY <1>4, <2>1, <2>3 DEF Singleton, both
<1>7. QED
  BY <1>5, <1>6

\* What the overlay amounts to: the base with the Live, transformed.
LEMMA OverlayAgrees ==
  ASSUME NEW base \in Paths, base # <<>>, NEW path \in Paths, NEW commit \in Commits,
         NEW lower, IsFileSystem(lower), NEW n \in Nat
  PROVE  LET td == TransformDir(base)
             both == Layered(OverlayFiles(base, path, commit), lower)
             Referred(p) == Load(lower, Accumulate(lower)[n], td, {}, p)
             whole == Combine(Merge(<<Referred(base), {LocalConfig(commit)}>>), Referred(path))
         IN  Agree(Accumulate(both)[n + 1][td][{}], whole, InTheWay(lower, td))
<1> DEFINE td == TransformDir(base)
           upper == OverlayFiles(base, path, commit)
           both == Layered(upper, lower)
           A == Accumulate(both)[n]
           B == Accumulate(lower)[n]
           LA(p) == Load(both, A, td, {}, p)
           LB(p) == Load(lower, B, td, {}, p)
           inTheWay == InTheWay(lower, td)
           r1 == [up |-> 1, down |-> <<Last(base)>>]
           r2 == [up |-> 0, down |-> <<"local-config.yaml">>]
           kf == Append(td, "kustomization.yaml")
           cf == Append(td, "local-config.yaml")
           lc == {LocalConfig(commit)}
<1>1. td \in Paths /\ Len(td) = Len(base)
  BY TransformDirIs
<1>2. /\ IsOverlay(upper, td)
      /\ upper[kf] = [resources |-> {r1, r2}, transformers |-> {Rel(td, path)}]
      /\ upper[cf] = lc
  BY OverlayIs
<1>3. Join(td, r1) = base /\ Join(td, r2) = cf /\ Join(td, Rel(td, path)) = path
  <2>1. "local-config.yaml" \in Names
    BY BuildAssumption
  <2>2. QED
    BY <1>1, <2>1, ToBase, ToFile, RelLeadsThere
<1> HIDE DEF td, upper
<1>4. IsFileSystem(both)
  BY <1>2, LayeredTyped DEF IsOverlay
<1>5. /\ Accumulate(both)[n + 1][td][{}] = AccumulateDir(both, A, td, {})
      /\ A \in Contents /\ B \in Contents
  <2>1. {} \in SUBSET Paths
    OBVIOUS
  <2> HIDE DEF both
  <2>2. Accumulate(both)[n + 1][td][{}] = AccumulateDir(both, A, td, {})
    BY <1>1, <1>4, <2>1, AccumulatedNext
  <2>3. Accumulate(both) \in [Nat -> Contents] /\ Accumulate(lower) \in [Nat -> Contents]
    BY <1>4, AccumulateIs
  <2>4. QED
    BY <2>2, <2>3
<1>6. /\ kf \in DOMAIN upper /\ cf \in DOMAIN upper /\ DOMAIN upper = {kf, cf}
      /\ Len(kf) = Len(td) + 1 /\ Len(cf) = Len(td) + 1 /\ Len(td) \in Nat
      /\ Last(kf) = "kustomization.yaml" /\ Last(cf) = "local-config.yaml"
      /\ IsStrictPrefix(td, cf) /\ kf \in Paths /\ cf \in Paths
  <2>1. "kustomization.yaml" \in Names /\ "local-config.yaml" \in Names
    BY BuildAssumption DEF KustomizationNames
  <2>2. DOMAIN upper = {kf, cf}
    BY <1>2 DEF IsOverlay, OverlayNames
  <2>3. QED
    BY <1>1, <2>1, <2>2, AppendIs, PrefixOfAppend
<1> HIDE DEF kf, cf
<1>7. base \notin DOMAIN upper
  BY <1>1, <1>6
<1>8. LA(cf) = lc
  <2>1. cf \in DOMAIN both /\ both[cf] = upper[cf]
    BY <1>1, <1>2, <1>6, LayeredIs
  <2>2. Last(cf) \notin KustomizationNames
    BY <1>6 DEF KustomizationNames
  <2>3. QED
    BY <1>2, <1>6, <2>1, <2>2 DEF Load
<1>9. ASSUME NEW p \in Paths, p \notin DOMAIN upper PROVE Agree(LA(p), LB(p), inTheWay)
  <2>1. {} \cup {td} \in SUBSET Paths /\ td \in {} \cup {td} /\ {} \in SUBSET Paths
    BY <1>1
  <2>2. Agree(A[p][{} \cup {td}], B[p][{} \cup {td}], inTheWay)
    BY <1>1, <1>2, <1>9, <2>1, AccumulateAgrees
  <2>3. QED
    BY <1>1, <1>2, <1>9, <2>1, <2>2, LoadAgrees
<1>10. ASSUME NEW p \in Paths PROVE LA(p) \in SUBSET Objects /\ LB(p) \in SUBSET Objects
  <2>1. {} \in SUBSET Paths
    OBVIOUS
  <2> HIDE DEF both, A, B
  <2>2. QED
    BY <1>1, <1>4, <1>5, <2>1, LoadIs
<1>11. ASSUME NEW p \in DOMAIN upper PROVE LB(p) = {Error} \/ inTheWay
  BY <1>1, <1>2, NothingBehindOverlay
<1>12. \/ Agree(LA(path), LB(path), inTheWay)
       \/ LA(path) = lc /\ (LB(path) = {Error} \/ inTheWay)
  <2>1. CASE path \notin DOMAIN upper
    BY <1>9, <2>1
  <2>2. CASE path = kf
    <3>1. path \in DOMAIN both /\ Last(path) \in KustomizationNames
      BY <1>1, <1>2, <1>6, <2>2, LayeredIs DEF KustomizationNames
    <3>2. LA(path) = {Error}
      BY <3>1 DEF Load
    <3>3. LB(path) = {Error} \/ inTheWay
      BY <1>11, <1>6, <2>2
    <3>4. QED
      BY <3>2, <3>3 DEF Agree
  <2>3. CASE path = cf
    <3>1. LB(path) = {Error} \/ inTheWay
      BY <1>11, <1>6, <2>3
    <3>2. QED
      BY <1>8, <2>3, <3>1
  <2>4. QED
    BY <1>6, <2>1, <2>2, <2>3
<1> DEFINE RA == LoadAll(both, A, td, {}, {r1, r2})
           RB == Merge(<<LB(base), lc>>)
           TA == LoadAll(both, A, td, {}, {Rel(td, path)})
           TB == LB(path)
<1>13. AccumulateDir(both, A, td, {}) = Combine(RA, TA)
       \/ (inTheWay /\ AccumulateDir(both, A, td, {}) = {Error})
  <2>1. CASE inTheWay /\ ~Singleton(KustomizationsOf(both, td))
    BY <2>1, AccumulateDirIs
  <2>2. CASE Singleton(KustomizationsOf(both, td)) /\ KustomizationOf(both, td) = upper[kf]
    <3>1. upper[kf].resources = {r1, r2} /\ upper[kf].transformers = {Rel(td, path)}
      BY <1>2
    <3> HIDE DEF r1, r2, both, A
    <3>2. QED
      BY <2>2, <3>1, AccumulateDirIs
  <2>3. QED
    BY <1>1, <1>2, <2>1, <2>2, OverlayKustomization DEF kf
<1>14. TA = LA(path)
  <2> DEFINE p == [r \in {Rel(td, path)} |-> Load(both, A, td, {}, Join(td, r))]
  <2>1. DOMAIN p = {Rel(td, path)} /\ p[Rel(td, path)] = LA(path)
    BY <1>3
  <2> HIDE DEF p
  <2>2. Merge(p) = LA(path)
    BY <2>1, MergeOne
  <2>3. QED
    BY <2>2 DEF p, LoadAll
<1>15. RA = IF \E x \in LA(base), y \in lc : x.id = y.id THEN {Error} ELSE LA(base) \cup lc
  <2> DEFINE p == [r \in {r1, r2} |-> Load(both, A, td, {}, Join(td, r))]
  <2>1. DOMAIN p = {r1, r2} /\ p[r1] = LA(base) /\ p[r2] = LA(cf)
    BY <1>3
  <2>2. r1 # r2
    OBVIOUS
  <2> HIDE DEF p, r1, r2, lc
  <2>3. Merge(p) = IF \E x \in p[r1], y \in p[r2] : x.id = y.id THEN {Error} ELSE p[r1] \cup p[r2]
    BY <2>1, <2>2, MergeTwo
  <2>4. QED
    BY <1>8, <2>1, <2>3 DEF p, LoadAll
<1>16. RB = IF \E x \in LB(base), y \in lc : x.id = y.id THEN {Error} ELSE LB(base) \cup lc
  BY MergePair
<1>17. RA = RB \/ (inTheWay /\ Error \in RA)
  <2>1. Agree(LA(base), LB(base), inTheWay)
    BY <1>7, <1>9
  <2> HIDE DEF LA, LB, RA, RB, lc, inTheWay
  <2>2. QED
    BY <1>15, <1>16, <2>1 DEF Agree
<1>18. RA \in SUBSET Objects /\ TA \in SUBSET Objects /\ RB \in SUBSET Objects /\ TB \in SUBSET Objects
  <2>1. /\ LA(base) \in SUBSET Objects /\ LA(path) \in SUBSET Objects
        /\ LB(base) \in SUBSET Objects /\ LB(path) \in SUBSET Objects
    BY <1>10
  <2>2. lc \in SUBSET Objects /\ {Error} \in SUBSET Objects
    BY LocalConfigIs, ErrorIs
  <2> HIDE DEF LA, LB, RA, RB, TA, lc
  <2>3. QED
    BY <1>14, <1>15, <1>16, <2>1, <2>2
<1>19. Agree(Combine(RA, TA), Combine(RB, TB), inTheWay)
  <2>1. TA = lc => Combine(RA, TA) = {Error}
    BY <1>18, LocalConfigTransformsNothing
  <2> HIDE DEF LA, LB, RA, RB, TA, TB, lc, inTheWay
  <2>2. \/ TA = TB \/ (inTheWay /\ TA = {Error})
        \/ TA = lc /\ (TB = {Error} \/ inTheWay)
    BY <1>12, <1>14 DEF Agree, TB
  <2>3. QED
    BY <1>17, <1>18, <2>1, <2>2, CombineIs DEF Agree
<1>20. Agree(AccumulateDir(both, A, td, {}), Combine(RB, TB), inTheWay)
  BY <1>13, <1>19 DEF Agree
<1>21. QED
  BY <1>5, <1>20 DEF td, upper

-----------------------------------------------------------------------------
\* What is asked of kpt.

\* NewLiveApply adds the inventory that Apply takes out again, the one that
\* Destroy looks for; an error, or another resource group, stops it.
LEMMA RequestIs ==
  ASSUME NEW objs
  PROVE  ApplyRequest(IF Failed(objs) THEN objs ELSE NewLiveApply(objs)) =
           IF Failed(objs) \/ \E o \in objs : o.kind = "ResourceGroup"
           THEN None
           ELSE [objects |-> objs, inventory |-> DestroyInventory]
<1>1. CASE Failed(objs)
  BY <1>1 DEF ApplyRequest
<1>2. CASE ~Failed(objs) /\ \E o \in objs : o.kind = "ResourceGroup"
  <2>1. NewLiveApply(objs) = {Error}
    BY <1>2 DEF NewLiveApply
  <2>2. Failed({Error})
    BY DEF Failed
  <2>3. QED
    BY <1>2, <2>1, <2>2 DEF ApplyRequest
<1>3. CASE ~Failed(objs) /\ ~ \E o \in objs : o.kind = "ResourceGroup"
  <2> DEFINE all == objs \cup {ResourceGroup}
             groups == {o \in all : o.kind = "ResourceGroup"}
             group == CHOOSE g \in groups : TRUE
  <2>1. /\ ResourceGroup.kind = "ResourceGroup" /\ ResourceGroup.id = LiveName
        /\ ResourceGroup.data = Uid /\ ResourceGroup # Error
    <3>1. /\ ResourceGroup.kind = "ResourceGroup" /\ ResourceGroup.id = LiveName
          /\ ResourceGroup.data = Uid
      BY DEF ResourceGroup, Object
    <3>2. QED
      BY <3>1, ErrorIs
  <2>2. NewLiveApply(objs) = all
    BY <1>3 DEF NewLiveApply
  <2>3. groups = {ResourceGroup} /\ ~Failed(all)
    BY <1>3, <2>1 DEF Failed
  <2>4. group = ResourceGroup /\ Singleton(groups)
    BY <2>3 DEF Singleton
  <2>5. all \ groups = objs
    BY <1>3, <2>1, <2>3
  <2>6. ApplyRequest(all) =
          IF Failed(all) \/ ~Singleton(groups) THEN None
          ELSE [objects |-> all \ groups, inventory |-> <<group.id, group.data>>]
    BY DEF ApplyRequest
  <2> HIDE DEF all, groups, group
  <2>7. ApplyRequest(all) = [objects |-> objs, inventory |-> <<LiveName, Uid>>]
    BY <2>1, <2>3, <2>4, <2>5, <2>6
  <2>8. QED
    BY <1>3, <2>2, <2>7 DEF DestroyInventory
<1>4. QED
  BY <1>1, <1>2, <1>3

\* The Live that the overlay adds, and nothing else, has its name, and it is local.
LEMMA LiveIsLocal ==
  ASSUME NEW base \in SUBSET Objects, NEW transformers \in SUBSET Objects, NEW commit \in Commits
  PROVE  LET objs == Combine(Merge(<<base, {LocalConfig(commit)}>>), transformers)
         IN  {o \in objs : ~o.local} = {o \in objs : ~o.local /\ o.id # LiveName}
<1> DEFINE merged == Merge(<<base, {LocalConfig(commit)}>>)
           objs == Combine(merged, transformers)
<1>1. merged = IF \E x \in base, y \in {LocalConfig(commit)} : x.id = y.id
               THEN {Error} ELSE base \cup {LocalConfig(commit)}
  BY MergePair
<1> HIDE DEF merged
<1>2. merged \in SUBSET Objects
  BY <1>1, ErrorIs, LocalConfigIs
<1>3. LiveName # "error"
  BY BuildAssumption
<1>4. ASSUME NEW o \in merged, o.id = LiveName PROVE o.local
  BY <1>1, <1>3, <1>4, ErrorIs, LocalConfigIs
<1>5. \/ objs = {Error}
      \/ \A o \in objs : \E p \in merged : o.id = p.id /\ o.local = p.local
  BY <1>2, CombineIs
<1> HIDE DEF objs
<1>6. ASSUME NEW o \in objs, o.id = LiveName PROVE o.local
  <2>1. o # Error
    BY <1>3, <1>6, ErrorIs
  <2>2. PICK p \in merged : o.id = p.id /\ o.local = p.local
    BY <1>5, <2>1
  <2>3. QED
    BY <1>4, <1>6, <2>2
<1>7. {o \in objs : ~o.local} = {o \in objs : ~o.local /\ o.id # LiveName}
  BY <1>6
<1>8. QED
  BY <1>7 DEF objs, merged

LEMMA InTree ==
  ASSUME NEW commit \in Commits, NEW path \in Paths
  PROVE  <<commit>> \o path \in Paths /\ <<commit>> \o path # <<>>
<1>1. <<commit>> \in Seq(Names) /\ Len(<<commit>>) = 1 /\ <<commit>> # <<>>
  BY BuildAssumption
<1>2. QED
  BY <1>1, ConcatProperties, ConcatEqualIffEmpty DEF Paths

\* From a whole work tree, ReconcileApply builds what is intended, or fails
\* because of something in the way of the overlay.
LEMMA BuildsTheIntended ==
  ASSUME NEW l \in Layers, NEW commit \in Commits
  PROVE  Agree(KustomizeBuild(l, commit, Disk(commit, "complete")), Intended[l][commit],
               Reserved(l, commit))
<1> DEFINE whole == Disk(commit, "complete")
           base == <<commit>> \o l.path
           path == <<commit>> \o l.transformers
           td == TransformDir(base)
           B == Accumulate(whole)[Depth]
           Referred(p) == Load(whole, B, td, {}, p)
           lc == {LocalConfig(commit)}
           intended == Combine(Merge(<<Referred(base), lc>>), Referred(path))
           both == Layered(OverlayFiles(base, path, commit), whole)
           layered == Accumulate(both)[Depth + 1][td][{}]
<1>1. /\ l.path \in Paths /\ l.transformers \in Paths \cup {None} /\ Depth \in Nat
      /\ base \in Paths /\ base # <<>> /\ IsFileSystem(whole)
  BY BuildAssumption, InTree, DiskIs
<1>2. /\ KustomizeBuild(l, commit, whole) =
           IF l.transformers = None THEN {o \in B[base][{}] : ~o.local}
                                    ELSE {o \in layered : ~o.local}
      /\ Intended[l][commit] =
           IF l.transformers = None THEN {o \in B[base][{}] : ~o.local}
                                    ELSE {o \in intended : ~o.local /\ o.id # LiveName}
  BY DEF KustomizeBuild, LayerBuild, Intended
<1>3. CASE l.transformers = None
  BY <1>2, <1>3 DEF Agree
<1>4. CASE l.transformers # None
  <2>1. path \in Paths
    BY <1>1, <1>4, InTree
  <2>2. Agree(layered, intended, InTheWay(whole, td))
    <3> HIDE DEF whole, base, path
    <3>1. QED
      BY <1>1, <2>1, OverlayAgrees
  <2>3. InTheWay(whole, td) = Reserved(l, commit)
    BY <1>4 DEF InTheWay, Reserved
  <2>4. {o \in intended : ~o.local} = {o \in intended : ~o.local /\ o.id # LiveName}
    <3>1. B \in Contents /\ td \in Paths /\ {} \in SUBSET Paths
      BY <1>1, AccumulateIs, TransformDirIs
    <3> HIDE DEF B, td, whole, base, path
    <3>2. Referred(base) \in SUBSET Objects /\ Referred(path) \in SUBSET Objects
      BY <1>1, <2>1, <3>1, LoadIs
    <3> HIDE DEF Referred
    <3>3. QED
      BY <3>2, LiveIsLocal
  <2>5. {o \in {Error} : ~o.local} = {Error}
    BY ErrorIs
  <2> HIDE DEF layered, intended, whole, td
  <2>6. QED
    BY <1>2, <1>4, <2>2, <2>3, <2>4, <2>5 DEF Agree, whole
<1>5. QED
  BY <1>3, <1>4

\* The request is what AppliesTheCommit says it is.
RequestedAsIntended(l, commit, request) ==
  LET objs == Intended[l][commit]
      applicable == ~Failed(objs) /\ \A o \in objs : o.kind # "ResourceGroup"
  IN  \/ applicable /\ request = [objects |-> objs, inventory |-> DestroyInventory]
      \/ (applicable => Reserved(l, commit)) /\ request = None

LEMMA RequestsTheIntended ==
  ASSUME NEW l \in Layers, NEW commit \in Commits
  PROVE  RequestedAsIntended(l, commit, Requests[l][commit]["complete"])
<1> DEFINE objs == KustomizeBuild(l, commit, Disk(commit, "complete"))
<1>1. Requests[l][commit]["complete"] =
        ApplyRequest(IF Failed(objs) THEN objs ELSE NewLiveApply(objs))
  BY DEF Requests
<1>2. Agree(objs, Intended[l][commit], Reserved(l, commit))
  BY BuildsTheIntended
<1> HIDE DEF objs
<1>3. Requests[l][commit]["complete"] =
        IF Failed(objs) \/ \E o \in objs : o.kind = "ResourceGroup"
        THEN None
        ELSE [objects |-> objs, inventory |-> DestroyInventory]
  BY <1>1, RequestIs
<1>4. Failed({Error})
  BY DEF Failed
<1>5. QED
  BY <1>2, <1>3, <1>4 DEF Agree, RequestedAsIntended

-----------------------------------------------------------------------------
\* Applying from the work trees on disk.

BuildInv == IInv /\ layer \in Layers /\ AppliesTheCommit

\* What goes on below the build is what goes on in GitRepository.
LEMMA BuildStepIsStep ==
  ASSUME [BuildNext]_buildVars
  PROVE  [Next]_vars
BY DEF BuildNext, BuildReconcile, BuildAndApply, buildVars, Next, Reconcile

LEMMA BuildInitInv == BuildInit => BuildInv
BY InitInv DEF BuildInit, BuildInv, AppliesTheCommit, Init

LEMMA BuildStepInv ==
  ASSUME BuildInv, [BuildNext]_buildVars
  PROVE  BuildInv'
<1>1. IInv'
  BY BuildStepIsStep, StepInv DEF BuildInv
<1>2. CASE BuildAndApply
  <2>1. /\ pc = "build" /\ built' = local /\ layer' = layer
        /\ requested' = Requests[layer][local.commit][trees[local.commit]]
    BY <1>2 DEF BuildAndApply, Build
  <2>2. local \in Specs /\ local.commit \in Commits /\ trees[local.commit] = "complete"
    BY <2>1 DEF BuildInv, IInv, TypeOK, BuildsWholeCommit, Specs
  <2>3. layer \in Layers /\ requested' = Requests[layer][local.commit]["complete"]
    BY <2>1, <2>2 DEF BuildInv
  <2>4. RequestedAsIntended(layer', built'.commit, requested')
    BY <2>1, <2>2, <2>3, RequestsTheIntended
  <2>5. AppliesTheCommit'
    BY <2>4 DEF AppliesTheCommit, RequestedAsIntended
  <2>6. QED
    BY <1>1, <2>1, <2>3, <2>5 DEF BuildInv
<1>3. CASE UNCHANGED <<layer, requested, built>>
  BY <1>1, <1>3 DEF BuildInv, AppliesTheCommit
<1>4. CASE PrepareTree /\ UNCHANGED <<layer, requested>>
  <2>1. UNCHANGED built
    BY <1>4 DEF PrepareTree, GetAuthMethod, InitGitRepository, OpenGitRepository, FetchCommit,
       FetchFails, CreateCommitDir, CheckoutFails
  <2>2. QED
    BY <1>3, <1>4, <2>1
<1>5. CASE Outside /\ UNCHANGED <<layer, requested>>
  <2>1. UNCHANGED built
    BY <1>5 DEF Outside, EditSpec, Push, ChangeSecret, Crash
  <2>2. QED
    BY <1>3, <1>5, <2>1
<1>6. CASE UNCHANGED buildVars
  BY <1>3, <1>6 DEF buildVars, vars
<1>7. QED
  BY <1>2, <1>4, <1>5, <1>6 DEF BuildNext, BuildReconcile

LEMMA BuildInvariance == BuildSpec => []BuildInv
<1>1. BuildInv /\ [BuildNext]_buildVars => BuildInv'
  BY BuildStepInv
<1>2. QED
  BY BuildInitInv, <1>1, PTL DEF BuildSpec

\* Whatever a commit's files are, wherever the overlay lands among them and
\* whatever broke off before, what kpt is asked to apply is what the layer and
\* its transformers say, under the inventory that Destroy looks for, or nothing
\* (live_controller.go, ReconcileApply; overlay.go).
THEOREM AppliedAsIntended == BuildSpec => []AppliesTheCommit
<1>1. BuildInv => AppliesTheCommit
  BY DEF BuildInv
<1>2. QED
  BY BuildInvariance, <1>1, PTL
=============================================================================
