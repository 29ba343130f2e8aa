CONSTANTS
    Total = 8
    Header = 1
    Slack = 2
    Sizes = {1, 2, 3}
    Tags <- MCTags
    Sites = {s1, s2, s3}
SPECIFICATION Spec
CONSTRAINT FreeSizeBound
INVARIANT OwnedSpansExclusive
