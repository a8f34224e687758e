CONSTANTS
  q1 = q1  q2 = q2  m = m  w1 = w1  w2 = w2
  plain = plain  tape = tape  anonymous = anonymous
  Requirements = {q1, q2}
  Mpns = {m}
  Workers = {w1, w2}
  Listings = {plain, tape, anonymous}
  Nameless = {anonymous}
  Strip <- Stripped
  ListingsOf <- UnderTheKey
  NoRow = NoRow
  MaxFaults = 1
  MaxCopies = 2
SPECIFICATION MCSpec
INVARIANTS TypeOK ExclusiveClaim CompletedMeansSaved PlainListingOnce
PROPERTIES RewritesOnlyAbandoned EverySearchSettles
