\* Three servers, as start_servers.sh starts them, one of which takes its
\* content down again; the video has three chunks, so that the last writer may
\* truncate before, within and after the lines of the others.
SPECIFICATION FairSpec
CONSTANTS
  Servers = {s1, s2, s3}
  TakesDown = {s1}
  NumChunks = 3
INVARIANTS IInv CompleteWhenSettled LateListIsWhole InOrder ListIsPrefix
PROPERTY CompleteInTheEnd
CHECK_DEADLOCK FALSE
