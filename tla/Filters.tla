------------------------------ MODULE Filters -------------------------------
(***************************************************************************)
(* The path filters of fs/filter.rs: the trie of literal paths, the        *)
(* patterns of one component, the automaton for patterns of a path and     *)
(* the greedy matcher that stands in for it when a pattern has too many    *)
(* components.  A component is a sequence of characters, a path or pattern *)
(* a sequence of components.  fl is one filter, as it is built and used.   *)
(***************************************************************************)
EXTENDS Integers, Sequences, SequencesExt, FiniteSets, FiniteSetsExt

CONSTANTS
    MaxTokens,      \* MAX_TOKENS_U128: tokens the automaton has bits for
    FilterJobs,     \* set of [includes, excludes], of patterns; <<>> if there are none
    FilterPaths     \* the paths that a walk asks for

VARIABLE fl

Star == 8
Quest == 9
DoubleStar == <<Star, Star>>

----------------------------------------------------------------------------
(* PathTrie.  Nodes live in one vector and refer to each other by index.     *)

EmptyTrie == <<[children |-> <<>>, terminal |-> FALSE, reaches |-> FALSE]>>

RECURSIVE TrieInsertFrom(_, _, _)
TrieInsertFrom(trie, cur, path) ==
    IF path = <<>> THEN [trie EXCEPT ![cur].terminal = TRUE]
    ELSE LET c == Head(path)
             next == Len(trie) + 1
         IN  IF c \in DOMAIN trie[cur].children
             THEN TrieInsertFrom(trie, trie[cur].children[c], Tail(path))
             ELSE TrieInsertFrom(
                    [Append(trie, EmptyTrie[1]) EXCEPT ![cur].children =
                       [k \in (DOMAIN @) \cup {c} |-> IF k = c THEN next ELSE @[k]]],
                    next, Tail(path))

TrieInsert(trie, path) == TrieInsertFrom(trie, 1, path)

(* Mutant of Finalize: from the first node to the last.                      *)
FinalizeForward(trie) ==
    FoldLeft(LAMBDA t, i : [t EXCEPT ![i].reaches =
                 t[i].terminal \/ \E c \in DOMAIN t[i].children :
                                    t[t[i].children[c]].reaches],
             trie, [i \in 1 .. Len(trie) |-> i])

(* finalize: from the last node to the first, so that children come before   *)
(* their parents.                                                            *)
Finalize(trie) ==
    FoldLeft(LAMBDA t, i : [t EXCEPT ![i].reaches =
                 t[i].terminal \/ \E c \in DOMAIN t[i].children :
                                    t[t[i].children[c]].reaches],
             trie, Reverse([i \in 1 .. Len(trie) |-> i]))

RECURSIVE ContainsPrefixFrom(_, _, _)
ContainsPrefixFrom(trie, cur, path) ==
    \/ trie[cur].terminal
    \/ /\ path # <<>>
       /\ Head(path) \in DOMAIN trie[cur].children
       /\ ContainsPrefixFrom(trie, trie[cur].children[Head(path)], Tail(path))

ContainsPrefixOf(trie, path) == ContainsPrefixFrom(trie, 1, path)

RECURSIVE IncludeFrom(_, _, _)
IncludeFrom(trie, cur, path) ==
    \/ trie[cur].terminal
    \/ path = <<>> /\ trie[cur].reaches
    \/ /\ path # <<>>
       /\ Head(path) \in DOMAIN trie[cur].children
       /\ IncludeFrom(trie, trie[cur].children[Head(path)], Tail(path))

MatchesIncludeSemantics(trie, path) == IncludeFrom(trie, 1, path)

----------------------------------------------------------------------------
(* wildmatch_bytes: "*" is first taken to match nothing, and one character   *)
(* more each time the rest does not match.  Positions count from 1; back is  *)
(* where the last "*" started, or none.                                      *)
RECURSIVE SkipStars(_, _)
SkipStars(pat, pi) ==
    IF pi <= Len(pat) /\ pat[pi] = Star THEN SkipStars(pat, pi + 1) ELSE pi

RECURSIVE WildLoop(_, _, _, _, _)
WildLoop(pat, text, pi, ti, back) ==
    IF ti > Len(text) THEN SkipStars(pat, pi) > Len(pat)
    ELSE IF pi <= Len(pat) /\ (pat[pi] = Quest \/ pat[pi] = text[ti])
    THEN WildLoop(pat, text, pi + 1, ti + 1, back)
    ELSE IF pi <= Len(pat) /\ pat[pi] = Star
    THEN LET after == SkipStars(pat, pi)
         IN  WildLoop(pat, text, after, ti, [pi |-> after, ti |-> ti])
    ELSE IF back.pi > 0
    THEN WildLoop(pat, text, back.pi, back.ti + 1, [back EXCEPT !.ti = @ + 1])
    ELSE FALSE

Wildmatch(pat, text) == WildLoop(pat, text, 1, 1, [pi |-> 0, ti |-> 0])

HasGlobMeta(comp) == \E i \in 1 .. Len(comp) : comp[i] \in {Star, Quest}
HasMeta(pattern) == \E i \in 1 .. Len(pattern) : HasGlobMeta(pattern[i])

(* CompMatcher::from_os and matches.                                         *)
CompMatches(token, comp) ==
    IF HasGlobMeta(token) THEN token = <<Star>> \/ Wildmatch(token, comp)
    ELSE token = comp

----------------------------------------------------------------------------
(* GlobRule: a set of states is a 128-bit word.  State i stands before token *)
(* i; the state after the last token accepts.                                *)

RECURSIVE EpsilonClosure(_, _)
EpsilonClosure(rule, s) ==
    LET next == s \cup {i + 1 : i \in {i \in s : i <= Len(rule) /\ rule[i] = DoubleStar}}
    IN  IF next = s THEN s ELSE EpsilonClosure(rule, next)

GlobStep(rule, states, comp) ==
    EpsilonClosure(rule,
        {i \in states : i <= Len(rule) /\ rule[i] = DoubleStar}
        \cup {i + 1 : i \in {i \in states : /\ i <= Len(rule)
                                            /\ rule[i] # DoubleStar
                                            /\ CompMatches(rule[i], comp)}})

StatesAfter(rule, path) ==
    FoldLeft(LAMBDA s, c : GlobStep(rule, s, c), EpsilonClosure(rule, {1}), path)

GlobAccepts(rule, states) == Len(rule) + 1 \in states

(* matches_prefix_u128 stops at the first prefix that is accepted.           *)
MatchesPrefix(rule, path) ==
    \E n \in 0 .. Len(path) : GlobAccepts(rule, StatesAfter(rule, SubSeq(path, 1, n)))

(* match_prefix_components: back to the last "**" only, giving it one more   *)
(* component.                                                                *)
RECURSIVE GreedyLoop(_, _, _, _, _)
GreedyLoop(rule, path, p, t, back) ==
    IF p > Len(rule) THEN TRUE
    ELSE IF rule[p] = DoubleStar
    THEN GreedyLoop(rule, path, p + 1, t, [p |-> p + 1, t |-> t])
    ELSE IF t > Len(path) THEN FALSE
    ELSE IF CompMatches(rule[p], path[t])
    THEN GreedyLoop(rule, path, p + 1, t + 1, back)
    ELSE IF back.p > 0
    THEN GreedyLoop(rule, path, back.p, back.t + 1, [back EXCEPT !.t = @ + 1])
    ELSE FALSE

MatchPrefixComponents(rule, path) ==
    GreedyLoop(rule, path, 1, 1, [p |-> 0, t |-> 0])

MatchesForExclude(rule, path) ==
    IF Len(rule) <= MaxTokens THEN MatchesPrefix(rule, path)
    ELSE MatchPrefixComponents(rule, path)

(* is_strict_match knows no other way: the accepting state of a rule that is *)
(* too long has no bit.                                                      *)
IsStrictMatch(rule, path) ==
    Len(rule) <= MaxTokens /\ GlobAccepts(rule, StatesAfter(rule, path))

----------------------------------------------------------------------------
(* PathFilter::allow.                                                        *)
Allow(path) ==
    /\ ~(fl.hasLiterals /\ ContainsPrefixOf(fl.excludeTrie, path))
    /\ \A g \in fl.globs : ~MatchesForExclude(g, path)
    /\ fl.job.includes # <<>> => MatchesIncludeSemantics(fl.includeTrie, path)

(* expand_include_paths: patterns become the files that they match, given    *)
(* the files that the exclusions let through.                                *)
ExpandIncludePaths(includes, files) ==
    {i \in includes : ~HasMeta(i)}
    \cup {f \in files : \E i \in includes : HasMeta(i) /\ IsStrictMatch(i, f)}

----------------------------------------------------------------------------
(* What a pattern means.                                                     *)

RECURSIVE CompMeans(_, _)
CompMeans(pat, text) ==
    IF pat = <<>> THEN text = <<>>
    ELSE \/ Head(pat) = Star /\ \E n \in 0 .. Len(text) :
              CompMeans(Tail(pat), SubSeq(text, n + 1, Len(text)))
         \/ /\ Head(pat) # Star /\ text # <<>>
            /\ Head(pat) \in {Quest, Head(text)}
            /\ CompMeans(Tail(pat), Tail(text))

RECURSIVE PathMeans(_, _)
PathMeans(rule, path) ==
    IF rule = <<>> THEN path = <<>>
    ELSE \/ Head(rule) = DoubleStar /\ \E n \in 0 .. Len(path) :
              PathMeans(Tail(rule), SubSeq(path, n + 1, Len(path)))
         \/ /\ Head(rule) # DoubleStar /\ path # <<>>
            /\ CompMeans(Head(rule), Head(path))
            /\ PathMeans(Tail(rule), Tail(path))

ExcludeMeans(rule, path) ==
    \E n \in 0 .. Len(path) : PathMeans(rule, SubSeq(path, 1, n))

-----------------------------------------------------------------------------
(* PathFilter::new: the paths to include have been sorted, those to exclude  *)
(* come in any order; patterns to exclude are kept as rules.                 *)
PatternsOf(option) == IF option = <<>> THEN {} ELSE option[1]
Letters(path) == FlattenSeq([i \in DOMAIN path |-> path[i] \o <<0>>])
SortsBefore(p, q) ==
    \E n \in 0 .. Len(Letters(q)) - 1 :
        /\ IsPrefix(SubSeq(Letters(q), 1, n), Letters(p))
        /\ Len(Letters(p)) > n => Letters(p)[n + 1] < Letters(q)[n + 1]

InsertInclude(path) ==
    /\ fl.stage = "new" /\ path \in fl.includes
    /\ \A other \in fl.includes : ~SortsBefore(other, path)
    /\ fl' = [fl EXCEPT !.includes = @ \ {path}, !.includeTrie = TrieInsert(@, path)]

InsertExclude(path) ==
    /\ fl.stage = "new" /\ path \in fl.excludes
    /\ fl' = IF HasMeta(path) THEN [fl EXCEPT !.excludes = @ \ {path}, !.globs = @ \cup {path}]
             ELSE [fl EXCEPT !.excludes = @ \ {path}, !.excludeTrie = TrieInsert(@, path), !.hasLiterals = TRUE]

FilterBuilt ==
    /\ fl.stage = "new" /\ fl.includes = {} /\ fl.excludes = {}
    /\ fl' = [fl EXCEPT !.stage = "ready", !.includeTrie = Finalize(@), !.excludeTrie = Finalize(@)]

(* A walk asks for a path; restore has made files of its patterns before.    *)
FilterAsked(path) ==
    /\ fl.stage = "ready"
    /\ fl' = [fl EXCEPT !.path = <<path>>, !.allowed = Allow(path)]

FilterStart(job) ==
    [job |-> job, stage |-> "new", includes |-> PatternsOf(job.includes), excludes |-> PatternsOf(job.excludes),
     includeTrie |-> EmptyTrie, excludeTrie |-> EmptyTrie, hasLiterals |-> FALSE, globs |-> {},
     path |-> <<>>, allowed |-> FALSE]
Expanded(job) ==
    IF job.includes = <<>> THEN job
    ELSE [job EXCEPT !.includes = <<ExpandIncludePaths(job.includes[1], FilterPaths)>>]
FilterInit == \E job \in FilterJobs : fl = FilterStart(Expanded(job))
FilterNext ==
    \/ \E path \in fl.includes : InsertInclude(path)
    \/ \E path \in fl.excludes : InsertExclude(path)
    \/ FilterBuilt
    \/ \E path \in FilterPaths : FilterAsked(path)
FilterSpec == FilterInit /\ [][FilterNext]_fl

-----------------------------------------------------------------------------
(* A path is kept when no exclusion matches it or a directory above it and,  *)
(* with inclusions, it lies under one of them or on the way to one.  The     *)
(* tries, the automaton and, for a rule that is too long for it, the greedy  *)
(* matcher find exactly that.                                                *)
FilterExact ==
    fl.path # <<>> =>
      (fl.allowed <=> /\ \A e \in PatternsOf(fl.job.excludes) : ~ExcludeMeans(e, fl.path[1])
                      /\ fl.job.includes # <<>> =>
                           \E i \in fl.job.includes[1] : IsPrefix(i, fl.path[1]) \/ IsPrefix(fl.path[1], i))

(* The walks do not enter a directory that is not allowed.  That loses no    *)
(* path that is: if a path is allowed, so is every directory above it.       *)
ParentsAllowed ==
    fl.path # <<>> /\ fl.allowed => \A n \in 0 .. Len(fl.path[1]) - 1 : Allow(SubSeq(fl.path[1], 1, n))

(* A pattern to include stands for the files that it matches as a whole      *)
(* (is_strict_match), component by component.                                *)
GlobExact ==
    fl.path # <<>> =>
      \A g \in fl.globs : Len(g) <= MaxTokens => (IsStrictMatch(g, fl.path[1]) <=> PathMeans(g, fl.path[1]))

(* filter.rs: a path is kept exactly if the patterns, read component by      *)
(* component, say so, and then so is every directory on the way to it.       *)
FiltersRight == FilterExact /\ ParentsAllowed /\ GlobExact
=============================================================================
