------------------------------- MODULE Lz4HC -------------------------------
(***************************************************************************)
(* The high-compression compressors of LZ4 (lz4hc.c): chains of positions  *)
(* with the same hash, the search along a chain for the longest match that *)
(* may also begin earlier, the parser that keeps up to three overlapping   *)
(* matches in hand, and the parser that prices every way through a run of  *)
(* matches.  Their blocks have the same form as those of the fast          *)
(* compressor, whose record of a call and last literals they share.        *)
(*                                                                         *)
(* Positions are indices: addresses minus base, from 64 KB upwards.  Those *)
(* below dictLimit are found at dictBase.                                  *)
(***************************************************************************)
EXTENDS Lz4Fast

CONSTANTS
    HCHash(_),      \* the entry, in Slots, of four bytes
    ClTable,        \* per level: its parser, its attempts, and for the optimal one its target
                    \* length and whether it is the ultra mode
    OptNum          \* LZ4_OPT_NUM

VARIABLES
    hc,         \* LZ4HC_CCtx_internal
    look        \* the matches in hand, or the prices

hcVars == <<hc, look>>

\* LZ4HC_init
HCFresh(start, level) ==
    [set |-> TRUE, level |-> level, base |-> start - Window, end |-> start, dictBase |-> start - Window,
     dictLimit |-> Window, lowLimit |-> Window, next |-> Window,
     hash |-> [h \in Slots |-> 0], chain |-> [i \in 0 .. Window - 1 |-> MaxDistance]]

\* LZ4_resetStreamHC: base is NULL.
HCReset(level) == [set |-> FALSE, level |-> level]

HCInit(level) == hc = HCReset(level) /\ look = <<>>

-----------------------------------------------------------------------------
(***************************************************************************)
(* The chains.                                                             *)
(***************************************************************************)
HashOf(p) == HCHash(Bytes(mem, p, MinMatch))

\* LZ4HC_Insert: every position before p enters the table and its chain.
Inserted(c, p) ==
    LET Enter(d, i) ==
            LET h == HashOf(c.base + i)
            IN [d EXCEPT !.chain[i % Window] = Min({i - d.hash[h], MaxDistance}), !.hash[h] = i]
        from == c.next
        n == Max({0, p - c.base - from})
    IN [FoldLeft(Enter, c, [k \in 1 .. n |-> from + k - 1]) EXCEPT !.next = p - c.base]

Repeated(p) == \A i \in 1 .. 3 : mem[p + i] = mem[p]
PatternLength(p, limit, b) == CHOOSE n \in 0 .. Max({0, limit - p}) :
    (n >= limit - p \/ mem[p + n] # b) /\ \A i \in 0 .. n - 1 : mem[p + i] = b
BackLength(p, low, b) == CHOOSE n \in 0 .. Max({0, p - low}) :
    (n >= p - low \/ mem[p - n - 1] # b) /\ \A i \in 1 .. n : mem[p - i] = b

\* LZ4HC_InsertAndGetWiderMatch: a match longer than what is known, around p
\* and not before low, found along the chain of p in c; its loop is run to
\* the end, on the state s.
Along(c, p, low, high, known, attempts, patterns) ==
    LET at == p - c.base
        prefix == c.base + c.dictLimit
        lowLimit == IF c.lowLimit + Window > at THEN c.lowLimit ELSE at - MaxDistance
        Back(m, mLow) == IF p > low THEN CountBack(mem, p, m, Min({p - low, m - mLow})) ELSE 0
        Wider(s, m, length, back) ==
            IF length + back > s.longest
            THEN [s EXCEPT !.longest = length + back, !.match = c.base + s.index - back, !.start = p - back]
            ELSE s
        InPrefix(s) ==
            LET m == c.base + s.index
                k == s.longest - 1
            IN IF Agree(mem, low + k, m - (p - low) + k, 2) /\ Agree(mem, m, p, MinMatch)
               THEN Wider(s, m, MinMatch + Count(mem, p + MinMatch, m + MinMatch, high), Back(m, prefix))
               ELSE s
        InDict(s) ==
            LET m == c.dictBase + s.index
                limit == Min({p + (c.dictLimit - s.index), high})
                n == MinMatch + Count(mem, p + MinMatch, m + MinMatch, limit)
                more == IF p + n = limit /\ limit < high THEN Count(mem, p + n, prefix, high) ELSE 0
            IN IF Agree(mem, m, p, MinMatch) THEN Wider(s, m, n + more, Back(m, c.dictBase + lowLimit)) ELSE s
        \* in a run of one byte the chain is left for the end of the run
        Jump(index) ==
            LET m == c.base + index
                length == MinMatch + PatternLength(p + MinMatch, high, mem[p])
                forward == MinMatch + PatternLength(m + MinMatch, high, mem[p])
                back == BackLength(m, IF prefix + MaxDistance >= p THEN prefix ELSE p - MaxDistance, mem[p])
            IN IF back + forward >= length /\ forward <= length THEN index + forward - length ELSE index - back
        Follow(s) ==
            LET delta == c.chain[s.index % Window]
                index == s.index - delta
            IN [s EXCEPT !.index =
                  IF patterns /\ delta = 1 /\ Repeated(p) /\ index >= c.dictLimit /\ Agree(mem, c.base + index, p, MinMatch)
                  THEN Jump(index) ELSE index]
        Try(s, k) == IF s.index < lowLimit THEN s
                     ELSE Follow(IF s.index >= c.dictLimit THEN InPrefix(s) ELSE InDict(s))
        first == [c |-> c, index |-> c.hash[HashOf(p)], longest |-> known, match |-> 0, start |-> p]
    IN FoldLeft(Try, first, [k \in 1 .. Min({attempts, Window + 1}) |-> k])

\* What was found, in a set of its own so that it is evaluated once.
GetWiderMatch(p, low, high, known, attempts, patterns) ==
    {Along(c, p, low, high, known, attempts, patterns) : c \in {Inserted(hc, p)}}

-----------------------------------------------------------------------------
(***************************************************************************)
(* LZ4HC_encodeSequence: the call, with the sequence written if it fits.   *)
(***************************************************************************)
HCEnd == IF enc.fill THEN enc.cap - LastLiterals ELSE enc.cap
Limited == enc.limited \/ enc.fill

Encoded(e, p, ml, match) ==
    LET n == p - e.anchor
        code == ml - MinMatch
        start == e.op + 1 + LengthBytes(n)
        end == start + n + 2 + LengthBytes(code)
    IN IF Limited /\ e.op + 1 + n \div 256 + n + (2 + 1 + LastLiterals) > HCEnd
       THEN [fits |-> FALSE, e |-> e]
       ELSE IF Limited /\ start + n + 2 + code \div 256 + (1 + LastLiterals) > HCEnd
       THEN [fits |-> FALSE, e |-> [e EXCEPT !.high = Max({@, start + WildBytes(n), start + n + 2})]]
       ELSE [fits |-> TRUE, seq |-> Match(Bytes(mem, e.anchor, n), (p - match) % Window, ml),
             e |-> [e EXCEPT !.anchor = p + ml, !.op = end,
                             !.high = Max({@, start + WildBytes(n), end})]]

\* What does not fit ends the call, or the matches.
LastStep == IF ClTable[hc.level].parser = "optimal" THEN "opt last" ELSE "hc last"
Overflow(e) == [e EXCEPT !.at = IF enc.fill THEN LastStep ELSE "return", !.result = 0]

\* The match at p is written, and the parser goes on with the step at, at next.
Emit(p, ml, match, at, next) ==
    LET r == Encoded(enc, p, ml, match)
    IN IF r.fits THEN block' = Append(block, r.seq) /\ enc' = [r.e EXCEPT !.at = at, !.ip = next]
       ELSE enc' = Overflow(r.e) /\ UNCHANGED block

-----------------------------------------------------------------------------
(***************************************************************************)
(* LZ4HC_compress_hashChain.  look holds the match in hand (ml, ref, at    *)
(* enc.ip), the one that overlaps it, and the first that was found.        *)
(***************************************************************************)
HCLimit == IEnd - MFLimit
Attempts == ClTable[hc.level].attempts
Patterns == Attempts > 64
OptimalMl == (MlMask - 1) + MinMatch

Wider(p, low, known) == GetWiderMatch(p, low, MatchLimit, known, Attempts, Patterns)

HCSetUp ==
    /\ enc.at = "hc setup"
    /\ IF enc.fill /\ enc.cap < 1
       THEN enc' = [enc EXCEPT !.at = "return"] /\ UNCHANGED hc
       ELSE /\ hc' = [hc EXCEPT !.end = @ + enc.size]
            /\ enc' = [enc EXCEPT !.at = IF ClTable[hc.level].parser = "optimal" THEN "opt"
                                         ELSE IF enc.size < MinLength THEN "hc last" ELSE "hc"]
    /\ UNCHANGED <<mem, stream, block, look>>

FirstMatch ==
    /\ enc.at = "hc"
    /\ IF enc.ip > HCLimit THEN enc' = [enc EXCEPT !.at = "hc last"] /\ UNCHANGED <<hc, look>>
       ELSE \E r \in Wider(enc.ip, enc.ip, MinMatch - 1) :
               /\ hc' = r.c
               /\ IF r.longest < MinMatch THEN enc' = [enc EXCEPT !.ip = @ + 1] /\ UNCHANGED look
                  ELSE /\ enc' = [enc EXCEPT !.at = "search 2"]
                       /\ look' = [ml |-> r.longest, ref |-> r.match,
                                   start0 |-> enc.ip, ml0 |-> r.longest, ref0 |-> r.match,
                                   start2 |-> 0, ml2 |-> 0, ref2 |-> 0]
    /\ UNCHANGED <<mem, stream, block>>

\* A longer match that begins before the end of the one in hand.
Search2 ==
    /\ enc.at = "search 2"
    /\ \E r \in IF enc.ip + look.ml <= HCLimit THEN Wider(enc.ip + look.ml - 2, enc.ip, look.ml)
               ELSE {[c |-> hc, longest |-> look.ml]} :
         LET p == enc.ip
             back == look.start0 < p /\ r.start < p + look.ml0
             q == IF back THEN look.start0 ELSE p
             kept == IF back THEN [look EXCEPT !.ml = look.ml0, !.ref = look.ref0] ELSE look
         IN /\ hc' = r.c
            /\ IF r.longest = look.ml
               THEN Emit(p, look.ml, look.ref, "hc", p + look.ml) /\ UNCHANGED look
               ELSE IF r.start - q < 3
               THEN /\ enc' = [enc EXCEPT !.ip = r.start]
                    /\ look' = [kept EXCEPT !.ml = r.longest, !.ref = r.match]
                    /\ UNCHANGED block
               ELSE /\ enc' = [enc EXCEPT !.at = "search 3", !.ip = q]
                    /\ look' = [kept EXCEPT !.start2 = r.start, !.ml2 = r.longest, !.ref2 = r.match]
                    /\ UNCHANGED block
    /\ UNCHANGED <<mem, stream>>

\* How much of the first match is kept before the second one, which gives up
\* its beginning to it.
Kept(l, p, ml) == IF p + ml > l.start2 + l.ml2 - MinMatch THEN l.start2 - p + l.ml2 - MinMatch ELSE ml
Shortened(l, p, ml) ==
    LET cut == Max({0, Kept(l, p, ml) - (l.start2 - p)})
    IN [l EXCEPT !.start2 = @ + cut, !.ref2 = @ + cut, !.ml2 = @ - cut]

\* A match longer than the second one that begins within it: there is none, it
\* leaves no room for the second, or the first of the three is written.
OptimalLength == Min({look.ml, OptimalMl})
SecondOf == IF look.start2 - enc.ip < OptimalMl THEN Shortened(look, enc.ip, OptimalLength) ELSE look

Search3 ==
    /\ enc.at = "search 3"
    /\ \E l \in {SecondOf} :
       \E r \in IF l.start2 + l.ml2 <= HCLimit THEN Wider(l.start2 + l.ml2 - 3, l.start2, l.ml2)
                ELSE {[c |-> hc, longest |-> l.ml2]} :
         LET p == enc.ip
             end == p + l.ml
             third == [l EXCEPT !.start2 = r.start, !.ml2 = r.longest, !.ref2 = r.match]
             cut == Max({0, end - l.start2})
             \* what remains of the second when the third comes right after the first
             second == IF cut > 0 /\ l.ml2 - cut < MinMatch
                       THEN [start |-> r.start, ml |-> r.longest, ref |-> r.match]
                       ELSE [start |-> l.start2 + cut, ml |-> l.ml2 - cut, ref |-> l.ref2 + cut]
             near == l.start2 < end /\ l.start2 - p < MlMask
             next == IF near THEN Shortened(l, p, OptimalLength) ELSE l
             first == IF near THEN Kept(l, p, OptimalLength) ELSE IF l.start2 < end THEN l.start2 - p ELSE l.ml
         IN /\ hc' = r.c
            /\ CASE r.longest = l.ml2 ->
                    /\ Emit(p, Min({l.ml, l.start2 - p}), l.ref, "second", l.start2)
                    /\ look' = l
                 [] r.longest # l.ml2 /\ r.start < end ->
                    look' = third /\ UNCHANGED <<enc, block>>
                 [] r.longest # l.ml2 /\ r.start \in end .. end + 2 ->
                    /\ Emit(p, l.ml, l.ref, "search 2", r.start)
                    /\ look' = [third EXCEPT !.ml = r.longest, !.ref = r.match, !.start0 = second.start,
                                             !.ml0 = second.ml, !.ref0 = second.ref]
                 [] OTHER ->
                    /\ Emit(p, first, l.ref, "search 3", next.start2)
                    /\ look' = [third EXCEPT !.ml = next.ml2, !.ref = next.ref2]
    /\ UNCHANGED <<mem, stream>>

EncodeSecond ==
    /\ enc.at = "second"
    /\ Emit(enc.ip, look.ml2, look.ref2, "hc", enc.ip + look.ml2)
    /\ UNCHANGED <<mem, stream, hc, look>>

\* The last literals are written as those of the fast compressor.
EncodeLastHC == LastLiteralsAt("hc last") /\ UNCHANGED <<hc, look>>

-----------------------------------------------------------------------------
(***************************************************************************)
(* LZ4HC_compress_optimal.  look holds opt, the cheapest way to each       *)
(* position from enc.ip that is known, the position that is looked at, the *)
(* furthest position that a match reaches, and the literals before enc.ip. *)
(***************************************************************************)
SufficientLen == Min({ClTable[hc.level].target, OptNum - 1})
FullUpdate == ClTable[hc.level].full

LiteralsPrice(n) == n + LengthBytes(n)
SequencePrice(n, ml) == 1 + 2 + LiteralsPrice(n) + LengthBytes(ml - MinMatch)

Literal(n, price) == [mlen |-> 1, off |-> 0, litlen |-> n, price |-> price]
ByMatch(ml, off, n, price) == [mlen |-> ml, off |-> off, litlen |-> n, price |-> price]

TrailingLiterals == 3
Trailed(opt, last) ==
    [k \in DOMAIN opt |->
        IF k \in last + 1 .. last + TrailingLiterals
        THEN Literal(k - last, opt[last].price + LiteralsPrice(k - last)) ELSE opt[k]]

\* LZ4HC_FindLongerMatch: longer than known, and from p on.
Longer(p, known) == GetWiderMatch(p, p, MatchLimit, known, Attempts, TRUE)

FirstPrices(n, ml, off) ==
    Trailed([k \in 0 .. OptNum + TrailingLiterals - 1 |->
                IF k < MinMatch THEN Literal(n + k, LiteralsPrice(n + k))
                ELSE ByMatch(k, off, n, SequencePrice(n, k))], ml)

OptFirst ==
    /\ enc.at = "opt"
    /\ IF enc.ip > HCLimit THEN enc' = [enc EXCEPT !.at = "opt last"] /\ UNCHANGED <<block, hc, look>>
       ELSE \E r \in Longer(enc.ip, MinMatch - 1) :
            LET n == enc.ip - enc.anchor
            IN /\ hc' = r.c
               /\ CASE r.longest < MinMatch -> enc' = [enc EXCEPT !.ip = @ + 1] /\ UNCHANGED <<block, look>>
                    [] r.longest > SufficientLen ->
                       Emit(enc.ip, r.longest, r.match, "opt", enc.ip + r.longest) /\ UNCHANGED look
                    [] OTHER ->
                       /\ enc' = [enc EXCEPT !.at = "prices"]
                       /\ look' = [opt |-> FirstPrices(n, r.longest, enc.ip - r.match),
                                   cur |-> 1, last |-> r.longest]
                       /\ UNCHANGED block
    /\ UNCHANGED <<mem, stream>>

\* A match at cur makes some positions cheaper, or reachable.
WithLiterals(opt, cur) ==
    LET n == opt[cur].litlen
        Price(k) == opt[cur].price - LiteralsPrice(n) + LiteralsPrice(n + k - cur)
    IN [k \in DOMAIN opt |->
           IF k \in cur + 1 .. cur + MinMatch - 1 /\ Price(k) < opt[k].price
           THEN Literal(n + k - cur, Price(k)) ELSE opt[k]]

Improved(l, ml, off) ==
    LET opt == WithLiterals(l.opt, l.cur)
        here == opt[l.cur]
        n == IF here.mlen = 1 THEN here.litlen ELSE 0
        before == IF here.mlen # 1 THEN here.price ELSE IF l.cur > n THEN opt[l.cur - n].price ELSE 0
        Price(k) == before + SequencePrice(n, k - l.cur)
        better == {k \in l.cur + MinMatch .. l.cur + ml :
                      k > l.last + TrailingLiterals \/ Price(k) <= opt[k].price}
        last == IF l.cur + ml \in better THEN Max({l.last, l.cur + ml}) ELSE l.last
    IN [opt |-> Trailed([k \in DOMAIN opt |-> IF k \in better THEN ByMatch(k - l.cur, off, n, Price(k))
                                              ELSE opt[k]], last),
        cur |-> l.cur + 1, last |-> last]

\* The cheapest way, from its end back to its beginning, which ends with a
\* match of ml bytes at cur.
Recorded(l, cur, ml, off) ==
    LET Back(s, k) ==
            LET was == s.opt[s.pos]
            IN IF s.done THEN s
               ELSE [opt |-> [s.opt EXCEPT ![s.pos].mlen = s.ml, ![s.pos].off = s.off],
                     ml |-> was.mlen, off |-> was.off,
                     pos |-> IF was.mlen > s.pos THEN s.pos ELSE s.pos - was.mlen, done |-> was.mlen > s.pos]
        start == [opt |-> l.opt, pos |-> cur, ml |-> ml, off |-> off, done |-> FALSE]
    IN FoldLeft(Back, start, [k \in 1 .. cur + 1 |-> k]).opt

\* Where a way that ends at last begins: the positions of the call to encode.
Chosen(l, cur, ml, off, last) == look' = [opt |-> Recorded(l, cur, ml, off), cur |-> 0, last |-> last]

Useful(l) ==
    LET opt == l.opt
    IN \/ opt[l.cur + 1].price > opt[l.cur].price
       \/ FullUpdate /\ opt[l.cur + MinMatch].price >= opt[l.cur].price + 3

Least(l) == IF FullUpdate THEN MinMatch - 1 ELSE l.last - l.cur

OptPosition ==
    /\ enc.at = "prices"
    /\ LET l == look IN
         IF l.cur >= l.last \/ enc.ip + l.cur > HCLimit
         THEN LET best == l.opt[l.last]
              IN /\ Chosen(l, l.last - best.mlen, best.mlen, best.off, l.last)
                 /\ enc' = [enc EXCEPT !.at = "recorded"]
                 /\ UNCHANGED hc
         ELSE IF ~Useful(l) THEN look' = [l EXCEPT !.cur = @ + 1] /\ UNCHANGED <<enc, hc>>
         ELSE \E r \in Longer(enc.ip + l.cur, Least(l)) :
                LET off == enc.ip + l.cur - r.match
                IN /\ hc' = r.c
                   /\ IF r.longest <= Least(l) THEN look' = [l EXCEPT !.cur = @ + 1] /\ UNCHANGED enc
                      ELSE IF r.longest > SufficientLen \/ r.longest + l.cur >= OptNum
                      THEN /\ Chosen(l, l.cur, r.longest, off, l.cur + 1)
                           /\ enc' = [enc EXCEPT !.at = "recorded"]
                      ELSE look' = Improved(l, r.longest, off) /\ UNCHANGED enc
    /\ UNCHANGED <<mem, stream, block>>

OptEncode ==
    /\ enc.at = "recorded"
    /\ LET s == look.opt[look.cur]
       IN CASE look.cur >= look.last -> enc' = [enc EXCEPT !.at = "opt"] /\ UNCHANGED <<block, look>>
            [] look.cur < look.last /\ s.mlen = 1 ->
               /\ enc' = [enc EXCEPT !.ip = @ + 1] /\ UNCHANGED block
               /\ look' = [look EXCEPT !.cur = @ + 1]
            [] OTHER ->
               /\ Emit(enc.ip, s.mlen, enc.ip - s.off, "recorded", enc.ip + s.mlen)
               /\ look' = [look EXCEPT !.cur = @ + s.mlen]
    /\ UNCHANGED <<mem, stream, hc>>

EncodeLastOptimal == LastLiteralsAt("opt last") /\ UNCHANGED <<hc, look>>

CompressHigh ==
    \/ HCSetUp \/ FirstMatch \/ Search2 \/ Search3 \/ EncodeSecond \/ EncodeLastHC
    \/ OptFirst \/ OptPosition \/ OptEncode \/ EncodeLastOptimal

-----------------------------------------------------------------------------
(***************************************************************************)
(* The entry points.                                                       *)
(***************************************************************************)
Level(l) == IF l < 1 THEN 9 ELSE Min({l, 12})

HCCall(src, n, cap, fill) ==
    /\ enc' = [Call(src, n, cap, ~fill /\ cap < CompressBound(n), "u32", "none", FALSE, 1, fill)
                  EXCEPT !.at = "hc setup"]
    /\ block' = <<>>

CompressHC(src, n, cap, level, fill) == HCCall(src, n, cap, fill) /\ hc' = HCFresh(src, Level(level))

LoadedHC(c, dict, n) ==
    LET size == Min({n, Window})
        from == dict + n - size
        fresh == [HCFresh(from, c.level) EXCEPT !.end = from + size]
    IN IF size >= 4 THEN Inserted(fresh, fresh.end - 3) ELSE fresh

\* LZ4HC_setExternalDict: the segment before is the dictionary now.
Segmented(c, src) ==
    LET d == IF c.end >= c.base + 4 THEN Inserted(c, c.end - 3) ELSE c
        limit == d.end - d.base
    IN [d EXCEPT !.lowLimit = d.dictLimit, !.dictLimit = limit, !.dictBase = d.base,
                 !.base = src - limit, !.end = src, !.next = limit]

\* What the source overwrites of the dictionary is out of it.
Uncovered(c, src, n) ==
    LET begin == c.dictBase + c.lowLimit
        end == c.dictBase + c.dictLimit
        low == Min({src + n, end}) - c.dictBase
    IN IF src + n > begin /\ src < end
       THEN [c EXCEPT !.lowLimit = IF c.dictLimit - low < 4 THEN c.dictLimit ELSE low] ELSE c

\* LZ4_compressHC_continue_generic, on the context as it is or on a copy of one.
ContinueContext(c, src, n, cap, fill) ==
    LET init == IF c.set THEN c ELSE HCFresh(src, c.level)
        kept == Min({init.end - init.base - init.dictLimit, Window})
        near == IF init.end - init.base > MaxOffset THEN LoadedHC(init, init.end - kept, kept) ELSE init
        follows == IF src = near.end THEN near ELSE Segmented(near, src)
    IN HCCall(src, n, cap, fill) /\ hc' = Uncovered(follows, src, n)
CompressHCContinue(src, n, cap, fill) == ContinueContext(hc, src, n, cap, fill)

SaveDictHC(safe, n) ==
    LET prefix == hc.end - (hc.base + hc.dictLimit)
        size == Min({IF n < 4 THEN 0 ELSE Min({n, Window}), prefix})
        index == hc.end - hc.base
    IN /\ mem' = Store(mem, safe, Bytes(mem, hc.end - size, size))
       /\ hc' = [hc EXCEPT !.end = safe + size, !.base = safe + size - index,
                           !.dictLimit = index - size, !.lowLimit = index - size,
                           !.next = Max({@, index - size})]
=============================================================================
