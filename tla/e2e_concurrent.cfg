SPECIFICATION Spec
CONSTANTS
    SessionId = {s1, s2, s3}
    alice = alice
    bob = bob
    a1 = a1
    a2 = a2
    b1 = b1
    Client = {alice}
    Request = {a1, a2}
    ClientOf <- ConcurrentClient
    LogoutBody <- EmptyBody
    None = None
INVARIANT OneLivePerLogin
