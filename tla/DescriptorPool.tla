---------------------------- MODULE DescriptorPool ----------------------------
(***************************************************************************)
(* The descriptor pool of the reflection library                           *)
(* (utils/prost-refect/prost-reflect/src/descriptor): files describing     *)
(* message, enum, extension and service types are added in batches, some   *)
(* of which fail.  A descriptor handed out is a clone of the pool and an   *)
(* index into it, and clones share one allocation until one of them is     *)
(* changed.                                                                *)
(***************************************************************************)
EXTENDS Descriptors

CONSTANTS Batches,   \* what callers add: sequences of files
          Handles,   \* the clones of the pool that callers hold
          MaxFiles,  \* bound on the files of all pools together
          MaxListed  \* bound on a message's list of extensions, which failed additions lengthen

VARIABLES heap,   \* the allocations: one DescriptorPoolInner each
          inner,  \* the allocation a handle points to
          lost    \* history: what failed additions may have cost a handle's pool

poolVars == <<heap, inner, lost>>

Pool(h) == heap[inner[h]]

(* The allocation itself, whoever shares it. *)
make_mut_Shared(h) == inner[h]

(* Arc::make_mut: the allocation itself when no other handle shares it,    *)
(* else a copy.                                                            *)
make_mut(h) ==
  IF \E g \in Handles : g # h /\ inner[g] = inner[h]
    THEN CHOOSE a \in DOMAIN heap : \A g \in Handles : inner[g] # a
    ELSE inner[h]

(* What a failed addition of these files can cost the pool: the name of a  *)
(* file it already had, and entries of the lists of extensions.            *)
Costs(p, files, vs) ==
  {c \in {"file", "extension"} :
     \/ c = "file" /\ \E i \in DOMAIN files : files[i].name \in DOMAIN p.fileNames
     \/ c = "extension" /\ (p.extensions # <<>> \/ \E i \in DOMAIN vs : vs[i].k = "extension")}

InitPool ==
  /\ heap = [a \in Handles |-> NewPool]
  /\ inner = [h \in Handles |-> CHOOSE a \in Handles : TRUE]
  /\ lost = [h \in Handles |-> {}]

Build(h, files, r) ==
  /\ heap' = [heap EXCEPT ![make_mut(h)] = r.pool]
  /\ inner' = [inner EXCEPT ![h] = make_mut(h)]
  /\ lost' = [lost EXCEPT ![h] = IF r.ok THEN @ ELSE @ \cup Costs(Pool(h), Deduped(Pool(h), files),
                                                  visit(DescriptorPoolOffsets(Pool(h)), files))]

add_file_descriptor_protos(h) ==
  \E files \in Batches : \E r \in {build_files(Pool(h), files)} : Build(h, files, r)

(* Clone: the two handles share the allocation from here on; one that      *)
(* nobody holds is freed.                                                  *)
clone(h, g) ==
  /\ g # h
  /\ inner[g] # inner[h]
  /\ inner' = [inner EXCEPT ![g] = inner[h]]
  /\ heap' = [a \in DOMAIN heap |-> IF \E x \in Handles : inner'[x] = a THEN heap[a] ELSE NewPool]
  /\ lost' = [lost EXCEPT ![g] = lost[h]]

WithinBound ==
  /\ SumFunction([h \in Handles |-> Len(Pool(h).files)]) <= MaxFiles
  /\ \A h \in Handles : \A m \in DOMAIN Pool(h).messages : Len(Pool(h).messages[m].extensions) <= MaxListed

NextPool ==
  /\ \E h \in Handles : add_file_descriptor_protos(h) \/ \E g \in Handles : clone(h, g)
  /\ WithinBound'

-----------------------------------------------------------------------------
(* What a pool promises *)

Packages(p) == UNION {{SubSeq(p.files[i].raw.package, 1, n) : n \in 1 .. Len(p.files[i].raw.package)} :
                      i \in DOMAIN p.files}

Named(k, i, seq) == {<<seq[j].full, [k |-> k, i |-> i, sub |-> j]>> : j \in DOMAIN seq}
Indexed(k, seq)  == {<<seq[j].full, [k |-> k, i |-> j, sub |-> 0]>> : j \in DOMAIN seq}

(* Every name that the tables of the pool define, with its definition. *)
Definitions(p) ==
  {<<n, Package>> : n \in Packages(p)}
  \cup Indexed("message", p.messages) \cup Indexed("enum", p.enums)
  \cup Indexed("service", p.services) \cup Indexed("extension", p.extensions)
  \cup UNION {Named("field", i, p.messages[i].fields) : i \in DOMAIN p.messages}
  \cup UNION {Named("oneof", i, p.messages[i].oneofs) : i \in DOMAIN p.messages}
  \cup UNION {Named("value", i, p.enums[i].values) : i \in DOMAIN p.enums}
  \cup UNION {Named("method", i, p.services[i].methods) : i \in DOMAIN p.services}

KindExists(p, kind) ==
  CASE is_message(kind)  -> kind.of \in DOMAIN p.messages
    [] kind.k = "enum"   -> kind.of \in DOMAIN p.enums
    [] OTHER             -> kind.k \in Scalars

Extending(p, m) == {e \in DOMAIN p.extensions : p.extensions[e].extendee = m}

(* After any sequence of additions, failed ones included, the names that   *)
(* get_message_by_name and its siblings know are exactly those of the      *)
(* definitions in the tables and of the packages, each leading to its own  *)
(* definition; every type, extendee, input and output that a descriptor    *)
(* refers to is in the tables.  Every file is found by its name and every  *)
(* message lists exactly its extensions, unless an addition that brought   *)
(* a second file of a name, or extensions, has failed.                     *)
PoolSound ==
  \A h \in Handles : \A p \in {Pool(h)} :
    /\ {<<n, p.names[n]>> : n \in DOMAIN p.names} = Definitions(p)
    /\ \A i \in DOMAIN p.messages : \A j \in DOMAIN p.messages[i].fields :
         KindExists(p, p.messages[i].fields[j].kind)
    /\ \A e \in DOMAIN p.extensions :
         KindExists(p, p.extensions[e].kind) /\ p.extensions[e].extendee \in DOMAIN p.messages
    /\ \A i \in DOMAIN p.services : \A j \in DOMAIN p.services[i].methods :
         {p.services[i].methods[j].input, p.services[i].methods[j].output} \subseteq DOMAIN p.messages
    /\ \A n \in DOMAIN p.fileNames : p.files[p.fileNames[n]].raw.name = n
    /\ "file" \notin lost[h] => \A i \in DOMAIN p.files : p.fileNames[p.files[i].raw.name] = i
    /\ "extension" \notin lost[h] =>
         \A m \in DOMAIN p.messages : ToSet(p.messages[m].extensions) = Extending(p, m)

(* What DescriptorPool::encode writes: the protos that the pool keeps. *)
encode(p) == [i \in DOMAIN p.files |-> p.files[i].raw]

(* The files a pool exports (DescriptorPool::encode), added to a new pool  *)
(* in one batch, give the same pool: the same indices, kinds, presence and *)
(* packing, although the files came in several batches and names were      *)
(* added since that a relative reference would now meet first.             *)
PoolReimports ==
  \A h \in Handles : \A p \in {Pool(h)} :
    lost[h] = {} => build_files(NewPool, encode(p)) = [ok |-> TRUE, pool |-> p]

Tables(p) == [p EXCEPT !.fileNames = <<>>, !.messages = [i \in DOMAIN @ |-> [@[i] EXCEPT !.extensions = <<>>]]]

Kept(p, q) ==
  /\ \A n \in DOMAIN p.names : n \in DOMAIN q.names /\ q.names[n] = p.names[n]
  /\ IsPrefixOf(p.files, q.files)
  /\ IsPrefixOf(p.messages, q.messages)
  /\ IsPrefixOf(p.enums, q.enums)
  /\ IsPrefixOf(p.extensions, q.extensions)
  /\ IsPrefixOf(p.services, q.services)
  /\ p.files = q.files => p = q

(* Adding files to one handle changes no other handle (descriptors are     *)
(* clones with an index), and never moves or changes what the pool already *)
(* has: an index that was handed out means the same definition for ever.   *)
(* An addition that fails leaves nothing of its files behind.              *)
PoolOnlyGrows ==
  [][/\ \A h \in Handles : \/ Kept(Tables(Pool(h)), Tables(Pool(h)'))
                           \/ \E g \in Handles : inner'[h] = inner[g] /\ Pool(h)' = Pool(g)
     /\ Cardinality({h \in Handles : Pool(h)' # Pool(h)}) <= 1]_poolVars

=============================================================================
