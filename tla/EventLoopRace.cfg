SPECIFICATION SafeSpec
CONSTANTS
  p1 = p1  p2 = p2  loop = loop  f1 = f1  w = w
  Posters = {p1, p2}
  Stoppers = {p2}
  Loop = loop
  Fds = {f1}
  WakeFd = w
  MaxPosts = 1
  MaxEvents = 1
INVARIANT QueueExclusive
