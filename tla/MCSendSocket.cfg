SPECIFICATION FairSpec
CONSTANTS
    Senders = {main, processor, client}
    Receivers = {processor}
    Sniffer = sniffer
    MaxFailed = 2
INVARIANT SettledAddr
PROPERTY FailsOnlyWhileOpening
PROPERTY Settles
